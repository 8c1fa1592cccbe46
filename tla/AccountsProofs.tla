--------------------------- MODULE AccountsProofs ----------------------------
(***************************************************************************)
(* Theorems about Accounts for any number of workers and accounts, any       *)
(* accounts.yaml, cooldown and interval.                                    *)
(***************************************************************************)
EXTENDS Accounts, TLAPS, FiniteSetTheorems

\* A table, or a memory, of accounts.
Table == UNION {[S -> Account] : S \in SUBSET Ids}
Job   == [kind : {"none", "sweep", "get", "start", "reload"}, rest : Seq(Ids)]

Typed ==
  /\ deployment \in Deployments
  /\ up \in [Workers -> BOOLEAN]
  /\ accounts \in [Workers -> Table]
  /\ rrIndex \in [Workers -> 0 .. Cardinality(Ids)]
  /\ sleep \in [Workers -> 0 .. Interval]
  /\ job \in [Workers -> Job]
  /\ rows \in Table
  /\ blocked \in [Workers -> [Ids -> 0 .. Cooldown]]
  /\ stored \in [Ids -> 0 .. Cooldown]
  /\ turns \in [Workers -> [Ids -> Nat]]
  /\ foreign \in [Workers -> SUBSET Ids]

\* In f, account a has been limited for no longer than has passed of the rest
\* it was given.
RestsIn(f, a, rest) ==
  rest > 0 =>
    /\ a \in DOMAIN f
    /\ f[a].status = "rate_limited"
    /\ f[a].age + rest <= Cooldown

\* Accounts that have to rest do so, in memory and in the table.
Resting ==
  \A a \in Ids :
    /\ RestsIn(rows, a, stored[a])
    /\ \A w \in Workers : RestsIn(accounts[w], a, blocked[w][a])

\* A process that is down remembers nothing.
Forgotten == \A w \in Workers : ~up[w] => accounts[w] = Empty

\* The functions f and g have the same at a.
SameAt(f, g, a) ==
  /\ a \in DOMAIN f <=> a \in DOMAIN g
  /\ a \in DOMAIN f => f[a] = g[a]

\* The two properties for one worker.
Mirrors(w) ==
  up[w] /\ ~deployment.flaky =>
    \A a \in Ids \ foreign[w] : SameAt(rows, accounts[w], a)
InTime(w) ==
  up[w] /\ ~deployment.flaky /\ sleep[w] > 0 =>
    \A a \in Limited(accounts[w]) : accounts[w][a].age + sleep[w] < Cooldown + Interval

IInv ==
  /\ Typed
  /\ Forgotten
  /\ Resting
  /\ \A w \in Workers : Mirrors(w) /\ InTime(w)

-----------------------------------------------------------------------------
(* The operators on tables.                                                *)

LEMMA TableFacts ==
  ASSUME NEW f \in Table
  PROVE  /\ f \in [DOMAIN f -> Account]
         /\ DOMAIN f \subseteq Ids
         /\ \A a \in DOMAIN f : f[a] \in Account
  BY DEF Table

LEMMA IsTable ==
  ASSUME NEW f, f \in [DOMAIN f -> Account], DOMAIN f \subseteq Ids
  PROVE  f \in Table
  BY DEF Table

LEMMA NewType ==
  ASSUME NEW st \in Status
  PROVE  [status |-> st, age |-> 0] \in Account
  BY AccountsAssumption DEF Account, MaxAge

LEMMA FreshType == Fresh \in Account
  BY NewType DEF Fresh, Status

LEMMA SoonDue ==
  ASSUME NEW n \in 0 .. Interval
  PROVE  0 + n < Cooldown + Interval
  BY AccountsAssumption

LEMMA EmptyType == Empty \in Table /\ DOMAIN Empty = {}
  BY IsTable DEF Empty

LEMMA PutFacts ==
  ASSUME NEW f \in Table, NEW a \in Ids, NEW r \in Account
  PROVE  /\ Put(f, a, r) \in Table
         /\ DOMAIN Put(f, a, r) = DOMAIN f \cup {a}
         /\ Put(f, a, r)[a] = r
         /\ \A b \in Ids \ {a} : SameAt(f, Put(f, a, r), b)
<1> DEFINE g == Put(f, a, r)
<1>1. DOMAIN g = DOMAIN f \cup {a} /\ DOMAIN g \subseteq Ids
  BY TableFacts DEF Put
<1>2. \A b \in DOMAIN g : g[b] = IF b = a THEN r ELSE f[b]
  BY DEF Put
<1>3. g \in [DOMAIN g -> Account]
  BY TableFacts DEF Put
<1>4. \A b \in Ids \ {a} : SameAt(f, g, b)
  BY <1>1, <1>2 DEF SameAt
<1> QED  BY <1>1, <1>2, <1>3, <1>4, IsTable

LEMMA WithoutFacts ==
  ASSUME NEW f \in Table, NEW a \in Ids
  PROVE  /\ Without(f, a) \in Table
         /\ DOMAIN Without(f, a) = DOMAIN f \ {a}
         /\ \A b \in Ids \ {a} : SameAt(f, Without(f, a), b)
  BY TableFacts, IsTable DEF Without, SameAt

LEMMA AgedFacts ==
  ASSUME NEW f \in Table
  PROVE  /\ Aged(f) \in Table
         /\ DOMAIN Aged(f) = DOMAIN f
         /\ \A a \in DOMAIN f :
              /\ Aged(f)[a].status = f[a].status
              /\ Aged(f)[a].age <= f[a].age + 1
<1>1. ASSUME NEW a \in DOMAIN f
      PROVE  /\ Aged(f)[a] \in Account
             /\ Aged(f)[a].status = f[a].status
             /\ Aged(f)[a].age <= f[a].age + 1
  <2>1. f[a] \in Account /\ MaxAge \in Nat
    BY TableFacts, AccountsAssumption DEF MaxAge
  <2>2. CASE a \in Limited(f) /\ f[a].age < MaxAge
    BY <2>1, <2>2 DEF Aged, Account
  <2>3. CASE ~(a \in Limited(f) /\ f[a].age < MaxAge)
    BY <2>1, <2>3 DEF Aged, Account
  <2> QED  BY <2>2, <2>3
<1>2. DOMAIN Aged(f) = DOMAIN f /\ Aged(f) \in [DOMAIN f -> Account]
  BY <1>1 DEF Aged
<1> QED  BY <1>1, <1>2, TableFacts, IsTable

\* Two that agree on an account still do when time has passed.
LEMMA AgedSame ==
  ASSUME NEW f \in Table, NEW g \in Table, NEW a \in Ids, SameAt(f, g, a)
  PROVE  SameAt(Aged(f), Aged(g), a)
  BY AgedFacts DEF SameAt, Aged, Limited

-----------------------------------------------------------------------------
(* Statements of SQLite.                                                   *)

\* A statement of w changed no row but that of a, and took note of it.
RowChanged(w, a) ==
  /\ rows' \in Table
  /\ stored' \in [Ids -> 0 .. Cooldown]
  /\ foreign' \in [Workers -> SUBSET Ids]
  /\ foreign'[w] = foreign[w] \ {a}
  /\ \A b \in Ids \ {a} : SameAt(rows, rows', b) /\ stored'[b] = stored[b]
  /\ \A v \in Workers \ {w} :
       /\ foreign[v] \subseteq foreign'[v]
       /\ \A b \in Ids \ foreign'[v] : SameAt(rows, rows', b)

LEMMA WrittenFacts ==
  ASSUME Typed, NEW w \in Workers, NEW a \in Ids, Written(w, a),
         \A b \in Ids \ {a} : SameAt(rows, rows', b)
  PROVE  /\ foreign' \in [Workers -> SUBSET Ids]
         /\ foreign'[w] = foreign[w] \ {a}
         /\ \A v \in Workers \ {w} :
              /\ foreign[v] \subseteq foreign'[v]
              /\ \A b \in Ids \ foreign'[v] : SameAt(rows, rows', b)
<1>1. foreign \in [Workers -> SUBSET Ids]
  BY DEF Typed
<1>2. \A v \in Workers : foreign'[v] = IF v = w THEN foreign[v] \ {a}
                                       ELSE IF rows' = rows THEN foreign[v]
                                       ELSE foreign[v] \cup {a}
  BY DEF Written
<1>3. foreign' \in [Workers -> SUBSET Ids]
  BY <1>1 DEF Written
<1>4. ASSUME NEW v \in Workers \ {w}, NEW b \in Ids \ foreign'[v]
      PROVE  SameAt(rows, rows', b)
  <2>1. CASE rows' = rows
    BY <2>1 DEF SameAt
  <2>2. CASE rows' # rows
    BY <1>2, <2>2
  <2> QED  BY <2>1, <2>2
<1> QED  BY <1>1, <1>2, <1>3, <1>4

LEMMA UpsertFacts ==
  ASSUME Typed, NEW w \in Workers, NEW a \in Ids, NEW r \in Account,
         NEW rest \in 0 .. Cooldown, Upsert(w, a, r, rest)
  PROVE  /\ RowChanged(w, a)
         /\ a \in DOMAIN rows' /\ rows'[a] = r /\ stored'[a] = rest
<1>1. rows \in Table /\ stored \in [Ids -> 0 .. Cooldown]
  BY DEF Typed
<1>2. /\ rows' = Put(rows, a, r)
      /\ stored' = [stored EXCEPT ![a] = rest]
      /\ Written(w, a)
  BY DEF Upsert
<1>3. /\ rows' \in Table
      /\ DOMAIN rows' = DOMAIN rows \cup {a}
      /\ rows'[a] = r
      /\ \A b \in Ids \ {a} : SameAt(rows, rows', b)
  BY <1>1, <1>2, PutFacts
<1>4. /\ stored' \in [Ids -> 0 .. Cooldown]
      /\ stored'[a] = rest
      /\ \A b \in Ids \ {a} : stored'[b] = stored[b]
  BY <1>1, <1>2
<1>5. /\ foreign' \in [Workers -> SUBSET Ids]
      /\ foreign'[w] = foreign[w] \ {a}
      /\ \A v \in Workers \ {w} :
           /\ foreign[v] \subseteq foreign'[v]
           /\ \A b \in Ids \ foreign'[v] : SameAt(rows, rows', b)
  BY <1>2, <1>3, WrittenFacts
<1> QED  BY <1>3, <1>4, <1>5 DEF RowChanged

LEMMA DeleteFacts ==
  ASSUME Typed, NEW w \in Workers, NEW a \in Ids, DeleteRow(w, a)
  PROVE  /\ RowChanged(w, a)
         /\ a \notin DOMAIN rows' /\ stored'[a] = 0
<1>1. rows \in Table /\ stored \in [Ids -> 0 .. Cooldown] /\ Cooldown \in Nat
  BY AccountsAssumption DEF Typed
<1>2. /\ rows' = Without(rows, a)
      /\ stored' = [stored EXCEPT ![a] = 0]
      /\ Written(w, a)
  BY DEF DeleteRow
<1>3. /\ rows' \in Table
      /\ DOMAIN rows' = DOMAIN rows \ {a}
      /\ \A b \in Ids \ {a} : SameAt(rows, rows', b)
  BY <1>1, <1>2, WithoutFacts
<1>4. /\ stored' \in [Ids -> 0 .. Cooldown]
      /\ stored'[a] = 0
      /\ \A b \in Ids \ {a} : stored'[b] = stored[b]
  BY <1>1, <1>2
<1>5. /\ foreign' \in [Workers -> SUBSET Ids]
      /\ foreign'[w] = foreign[w] \ {a}
      /\ \A v \in Workers \ {w} :
           /\ foreign[v] \subseteq foreign'[v]
           /\ \A b \in Ids \ foreign'[v] : SameAt(rows, rows', b)
  BY <1>2, <1>3, WrittenFacts
<1> QED  BY <1>3, <1>4, <1>5 DEF RowChanged

-----------------------------------------------------------------------------
(* Operations on one account.                                              *)

\* What a step of w leaves to the other workers.
Apart(w) ==
  \A v \in Workers \ {w} :
    /\ up'[v] = up[v]
    /\ accounts'[v] = accounts[v]
    /\ sleep'[v] = sleep[v]
    /\ blocked'[v] = blocked[v]

\* A step of w after which w and the table are as they should be.
LEMMA StepFact ==
  ASSUME IInv, NEW w \in Workers, UNCHANGED deployment, Apart(w),
         Typed',
         ~up'[w] => accounts'[w] = Empty,
         \A a \in Ids : RestsIn(rows', a, stored'[a]) /\ RestsIn(accounts'[w], a, blocked'[w][a]),
         \A v \in Workers \ {w} :
           /\ foreign[v] \subseteq foreign'[v]
           /\ \A b \in Ids \ foreign'[v] : SameAt(rows, rows', b),
         Mirrors(w)', InTime(w)'
  PROVE  IInv'
<1>1. Forgotten'
  BY DEF IInv, Forgotten, Apart
<1>2. Resting'
  <2> SUFFICES ASSUME NEW a \in Ids, NEW v \in Workers
               PROVE  RestsIn(accounts'[v], a, blocked'[v][a])
    BY DEF Resting, RestsIn
  <2>1. CASE v = w
    BY <2>1
  <2>2. CASE v # w
    BY <2>2 DEF IInv, Resting, Apart
  <2> QED  BY <2>1, <2>2
<1>3. ASSUME NEW v \in Workers \ {w} PROVE Mirrors(v)'
  <2> SUFFICES ASSUME up'[v], ~deployment'.flaky, NEW a \in Ids \ foreign'[v]
               PROVE  SameAt(rows', accounts'[v], a)
    BY DEF Mirrors, SameAt
  <2>1. up[v] /\ accounts'[v] = accounts[v] /\ ~deployment.flaky /\ a \notin foreign[v]
    BY DEF Apart
  <2>2. SameAt(rows, accounts[v], a)
    BY <2>1 DEF IInv, Mirrors
  <2>3. SameAt(rows, rows', a)
    OBVIOUS
  <2> QED  BY <2>1, <2>2, <2>3 DEF SameAt
<1>4. ASSUME NEW v \in Workers \ {w} PROVE InTime(v)'
  BY DEF IInv, InTime, Apart
<1> QED  BY <1>1, <1>2, <1>3, <1>4 DEF IInv

\* A step of w that concerns one account, which becomes what it is in the memory
\* f: either its row becomes the same, or the table stays, because SQLite raises
\* or there is no row to update.
LEMMA OneAccount ==
  ASSUME IInv, NEW w \in Workers, NEW a \in Ids, up[w], UNCHANGED <<deployment, up>>,
         NEW f \in Table, accounts' = [accounts EXCEPT ![w] = f],
         \A b \in Ids \ {a} : SameAt(accounts[w], f, b),
         NEW rest \in 0 .. Cooldown, blocked' = [blocked EXCEPT ![w][a] = rest],
         RestsIn(f, a, rest),
         a \in Limited(f) => \/ f[a].age = 0
                             \/ a \in DOMAIN accounts[w] /\ f[a] = accounts[w][a],
         \/ a \in DOMAIN f /\ Upsert(w, a, f[a], rest)
         \/ a \notin DOMAIN f /\ DeleteRow(w, a)
         \/ deployment.flaky /\ UNCHANGED table
         \/ a \notin DOMAIN rows /\ a \in DOMAIN accounts[w] /\ UNCHANGED table,
         sleep' \in [Workers -> 0 .. Interval],
         \A v \in Workers \ {w} : sleep'[v] = sleep[v],
         deployment.flaky \/ sleep'[w] = sleep[w],
         rrIndex' \in [Workers -> 0 .. Cardinality(Ids)],
         job' \in [Workers -> Job],
         turns' \in [Workers -> [Ids -> Nat]]
  PROVE  IInv'
<1>1. /\ Typed /\ rows \in Table /\ accounts \in [Workers -> Table]
      /\ blocked \in [Workers -> [Ids -> 0 .. Cooldown]]
      /\ stored \in [Ids -> 0 .. Cooldown]
      /\ foreign \in [Workers -> SUBSET Ids]
      /\ Cooldown \in Nat
  BY AccountsAssumption DEF IInv, Typed
<1>2. /\ accounts' \in [Workers -> Table] /\ accounts'[w] = f
      /\ blocked' \in [Workers -> [Ids -> 0 .. Cooldown]]
      /\ blocked'[w][a] = rest
      /\ \A b \in Ids \ {a} : blocked'[w][b] = blocked[w][b]
  BY <1>1
<1>3. Apart(w)
  BY <1>1 DEF Apart
<1>4. \/ /\ RowChanged(w, a)
         /\ a \in DOMAIN f
         /\ a \in DOMAIN rows' /\ rows'[a] = f[a] /\ stored'[a] = rest
      \/ /\ RowChanged(w, a)
         /\ a \notin DOMAIN f
         /\ a \notin DOMAIN rows' /\ stored'[a] = 0
      \/ /\ UNCHANGED table
         /\ deployment.flaky \/ (a \notin DOMAIN rows /\ a \in DOMAIN accounts[w])
  <2>1. CASE a \in DOMAIN f /\ Upsert(w, a, f[a], rest)
    <3>1. f[a] \in Account
      BY <2>1, TableFacts
    <3> QED  BY <1>1, <2>1, <3>1, UpsertFacts
  <2>2. CASE a \notin DOMAIN f /\ DeleteRow(w, a)
    BY <1>1, <2>2, DeleteFacts
  <2> QED  BY <2>1, <2>2
<1>5. /\ rows' \in Table
      /\ stored' \in [Ids -> 0 .. Cooldown]
      /\ foreign' \in [Workers -> SUBSET Ids]
      /\ \A b \in Ids \ {a} : SameAt(rows, rows', b) /\ stored'[b] = stored[b]
      /\ \A v \in Workers \ {w} :
           /\ foreign[v] \subseteq foreign'[v]
           /\ \A b \in Ids \ foreign'[v] : SameAt(rows, rows', b)
  <2>1. CASE RowChanged(w, a)
    BY <2>1 DEF RowChanged
  <2>2. CASE UNCHANGED table
    BY <1>1, <2>2 DEF table, SameAt
  <2> QED  BY <1>4, <2>1, <2>2
<1>6. Typed'
  BY <1>1, <1>2, <1>5 DEF Typed
<1>7. ASSUME NEW b \in Ids
      PROVE  RestsIn(rows', b, stored'[b]) /\ RestsIn(accounts'[w], b, blocked'[w][b])
  <2>1. RestsIn(rows, b, stored[b]) /\ RestsIn(accounts[w], b, blocked[w][b])
    BY DEF IInv, Resting
  <2>2. CASE b # a
    BY <1>2, <1>5, <2>1, <2>2 DEF RestsIn, SameAt
  <2>3. CASE b = a
    <3>1. RestsIn(rows', a, stored'[a])
      BY <1>4, <2>1, <2>3 DEF RestsIn, table
    <3> QED  BY <1>2, <2>3, <3>1
  <2> QED  BY <2>2, <2>3
<1>8. Mirrors(w)'
  <2> SUFFICES ASSUME ~deployment.flaky, NEW b \in Ids \ foreign'[w]
               PROVE  SameAt(rows', f, b)
    BY <1>2 DEF Mirrors, SameAt
  <2>1. \A c \in Ids \ foreign[w] : SameAt(rows, accounts[w], c)
    BY DEF IInv, Mirrors
  <2>2. CASE RowChanged(w, a) /\ SameAt(rows', f, a)
    <3>1. CASE b = a
      BY <2>2, <3>1
    <3>2. CASE b # a
      <4>1. b \notin foreign[w]
        BY <2>2, <3>2 DEF RowChanged
      <4>2. SameAt(rows, accounts[w], b) /\ SameAt(accounts[w], f, b) /\ SameAt(rows, rows', b)
        BY <1>5, <2>1, <3>2, <4>1
      <4> QED  BY <4>2 DEF SameAt
    <3> QED  BY <3>1, <3>2
  <2>3. CASE /\ UNCHANGED table
             /\ a \notin DOMAIN rows /\ a \in DOMAIN accounts[w]
    <3>1. b \notin foreign[w]
      BY <2>3 DEF table
    <3>2. SameAt(rows, accounts[w], b)
      BY <2>1, <3>1
    <3>3. b # a
      BY <2>3, <3>2 DEF SameAt
    <3>4. SameAt(accounts[w], f, b) /\ SameAt(rows, rows', b)
      BY <1>5, <3>3
    <3> QED  BY <3>2, <3>4 DEF SameAt
  <2>4. \/ RowChanged(w, a) /\ SameAt(rows', f, a)
        \/ /\ UNCHANGED table
           /\ a \notin DOMAIN rows /\ a \in DOMAIN accounts[w]
    BY <1>4 DEF SameAt
  <2> QED  BY <2>2, <2>3, <2>4
<1>9. InTime(w)'
  <2> SUFFICES ASSUME ~deployment.flaky, sleep[w] > 0, NEW b \in Limited(f)
               PROVE  f[b].age + sleep[w] < Cooldown + Interval
    BY <1>2 DEF InTime
  <2>1. \A c \in Limited(accounts[w]) : accounts[w][c].age + sleep[w] < Cooldown + Interval
    BY DEF IInv, InTime
  <2>2. \/ b \in Limited(accounts[w]) /\ f[b] = accounts[w][b]
        \/ f[b].age = 0
    <3>1. b \in Ids
      BY TableFacts DEF Limited
    <3> QED  BY <3>1 DEF Limited, SameAt
  <2>3. sleep[w] \in 0 .. Interval /\ Cooldown \in Nat \ {0} /\ Interval \in Nat
    BY AccountsAssumption DEF IInv, Typed
  <2>4. CASE f[b].age = 0
    <3>1. 0 + sleep[w] < Cooldown + Interval
      BY <2>3, SoonDue
    <3> QED  BY <2>4, <3>1
  <2>5. CASE b \in Limited(accounts[w]) /\ f[b] = accounts[w][b]
    <3>1. accounts[w][b].age + sleep[w] < Cooldown + Interval
      BY <2>1, <2>5
    <3> QED  BY <2>5, <3>1
  <2> QED  BY <2>2, <2>4, <2>5
<1>10. ~up'[w] => accounts'[w] = Empty
  OBVIOUS
<1> QED  BY <1>3, <1>5, <1>6, <1>7, <1>8, <1>9, <1>10, StepFact

LEMMA NewTurnsType ==
  ASSUME Typed, NEW w \in Workers, NewTurns(w)
  PROVE  turns' \in [Workers -> [Ids -> Nat]]
<1>1. Never \in [Ids -> Nat] /\ turns \in [Workers -> [Ids -> Nat]]
  BY DEF Never, Typed
<1> QED  BY <1>1 DEF NewTurns

LEMMA FreeType == Free \in Job
  BY DEF Free, Job

\* What an operation of w may rely on.
LEMMA MemoryFacts ==
  ASSUME IInv, NEW w \in Workers
  PROVE  /\ Typed
         /\ accounts[w] \in Table
         /\ accounts \in [Workers -> Table]
         /\ blocked \in [Workers -> [Ids -> 0 .. Cooldown]]
         /\ \A a \in Ids : /\ blocked[w][a] \in 0 .. Cooldown
                           /\ RestsIn(accounts[w], a, blocked[w][a])
         /\ rrIndex \in [Workers -> 0 .. Cardinality(Ids)]
         /\ sleep \in [Workers -> 0 .. Interval]
         /\ job \in [Workers -> Job]
         /\ {Cooldown, Interval} \subseteq Nat
  BY AccountsAssumption DEF IInv, Typed, Resting

LEMMA AddKeeps ==
  ASSUME IInv, UNCHANGED deployment, NEW w \in Workers, NEW a \in Ids, Add(w, a)
  PROVE  IInv'
<1> DEFINE f == Put(accounts[w], a, Fresh)
<1>1. /\ up[w] /\ a \notin DOMAIN accounts[w]
      /\ accounts' = [accounts EXCEPT ![w] = f]
      /\ NewTurns(w)
      /\ UNCHANGED <<up, rrIndex, sleep, job, blocked>>
  BY DEF Add, Ready
<1>2. Upsert(w, a, Fresh, 0) \/ (deployment.flaky /\ UNCHANGED table)
  BY DEF Add, Attempts, Raises
<1>3. /\ f \in Table
      /\ DOMAIN f = DOMAIN accounts[w] \cup {a}
      /\ f[a] = Fresh
      /\ \A b \in Ids \ {a} : SameAt(accounts[w], f, b)
  BY MemoryFacts, FreshType, PutFacts
<1>4. blocked[w][a] = 0
  <2>1. RestsIn(accounts[w], a, blocked[w][a]) /\ blocked[w][a] \in 0 .. Cooldown
    BY MemoryFacts
  <2> QED  BY <1>1, <2>1, MemoryFacts DEF RestsIn
<1>5. blocked' = [blocked EXCEPT ![w][a] = 0]
  BY <1>1, <1>4, MemoryFacts
<1>6. a \notin Limited(f)
  BY <1>3 DEF Limited, Fresh
<1>7. turns' \in [Workers -> [Ids -> Nat]]
  BY <1>1, NewTurnsType, MemoryFacts
<1>8. 0 \in 0 .. Cooldown /\ RestsIn(f, a, 0)
  BY MemoryFacts DEF RestsIn
<1>9. \/ a \in DOMAIN f /\ Upsert(w, a, f[a], 0)
      \/ deployment.flaky /\ UNCHANGED table
  BY <1>2, <1>3
<1> HIDE DEF f
<1> QED
  BY <1>1, <1>3, <1>5, <1>6, <1>7, <1>8, <1>9, MemoryFacts, OneAccount

LEMMA RemoveKeeps ==
  ASSUME IInv, UNCHANGED deployment, NEW w \in Workers, NEW a \in Ids, Remove(w, a)
  PROVE  IInv'
<1> DEFINE f == Without(accounts[w], a)
<1>1. /\ up[w] /\ a \in DOMAIN accounts[w]
      /\ accounts' = [accounts EXCEPT ![w] = f]
      /\ blocked' = [blocked EXCEPT ![w][a] = 0]
      /\ NewTurns(w)
      /\ UNCHANGED <<up, rrIndex, sleep, job>>
  BY DEF Remove, Ready
<1>2. DeleteRow(w, a) \/ (deployment.flaky /\ UNCHANGED table)
  BY DEF Remove, Attempts, Raises
<1>3. /\ f \in Table
      /\ DOMAIN f = DOMAIN accounts[w] \ {a}
      /\ \A b \in Ids \ {a} : SameAt(accounts[w], f, b)
  BY MemoryFacts, WithoutFacts
<1>4. a \notin Limited(f) /\ a \notin DOMAIN f
  BY <1>3 DEF Limited
<1>5. turns' \in [Workers -> [Ids -> Nat]]
  BY <1>1, NewTurnsType, MemoryFacts
<1>6. 0 \in 0 .. Cooldown /\ RestsIn(f, a, 0)
  BY MemoryFacts DEF RestsIn
<1> HIDE DEF f
<1> QED
  BY <1>1, <1>2, <1>3, <1>4, <1>5, <1>6, MemoryFacts, OneAccount

LEMMA MarkKeeps ==
  ASSUME IInv, UNCHANGED deployment, NEW w \in Workers, NEW a \in Ids,
         NEW st \in Status, Mark(w, a, st)
  PROVE  IInv'
<1> DEFINE r == [status |-> st, age |-> 0]
           f == Put(accounts[w], a, r)
<1>1. /\ up[w] /\ a \in DOMAIN accounts[w]
      /\ accounts' = [accounts EXCEPT ![w][a] = r]
      /\ blocked' = [blocked EXCEPT ![w][a] = Rest(st)]
      /\ NewTurns(w)
      /\ UNCHANGED <<up, rrIndex, sleep, job>>
  BY DEF Mark, Ready
<1>2. \/ a \in DOMAIN rows /\ Upsert(w, a, r, Rest(st))
      \/ a \notin DOMAIN rows /\ UNCHANGED table
      \/ deployment.flaky /\ UNCHANGED table
  BY DEF Mark, Attempts, Raises, UpdateStatus
<1>3. r \in Account
  BY NewType
<1>4. /\ f \in Table
      /\ DOMAIN f = DOMAIN accounts[w] \cup {a}
      /\ f[a] = r
      /\ \A b \in Ids \ {a} : SameAt(accounts[w], f, b)
  BY <1>3, MemoryFacts, PutFacts
<1>5. accounts' = [accounts EXCEPT ![w] = f]
  <2>1. [accounts[w] EXCEPT ![a] = r] = f
    BY <1>1, TableFacts, MemoryFacts DEF Put
  <2> HIDE DEF f
  <2> QED  BY <1>1, <2>1, MemoryFacts
<1>6. f[a].age = 0
  BY <1>4
<1>7. turns' \in [Workers -> [Ids -> Nat]]
  BY <1>1, NewTurnsType, MemoryFacts
<1>8. Rest(st) \in 0 .. Cooldown /\ RestsIn(f, a, Rest(st))
  <2>1. f[a].status = st /\ a \in DOMAIN f
    BY <1>4
  <2> HIDE DEF f, r
  <2> QED  BY <1>6, <2>1, MemoryFacts DEF Rest, RestsIn
<1>9. \/ a \in DOMAIN f /\ Upsert(w, a, f[a], Rest(st))
      \/ deployment.flaky /\ UNCHANGED table
      \/ a \notin DOMAIN rows /\ a \in DOMAIN accounts[w] /\ UNCHANGED table
  BY <1>1, <1>2, <1>4
<1> HIDE DEF f, r
<1> QED
  BY <1>1, <1>4, <1>5, <1>6, <1>7, <1>8, <1>9, MemoryFacts, OneAccount

\* An account that is due has no rest left.
LEMMA RecoversFacts ==
  ASSUME IInv, NEW w \in Workers, NEW a \in Ids, RecoversNext(w, a)
  PROVE  LET f == Put(accounts[w], a, Fresh)
         IN  /\ f \in Table
             /\ a \in DOMAIN f /\ f[a] = Fresh /\ a \notin Limited(f)
             /\ \A b \in Ids \ {a} : SameAt(accounts[w], f, b)
             /\ a \in DOMAIN accounts[w]
             /\ accounts' = [accounts EXCEPT ![w] = f]
             /\ blocked' = [blocked EXCEPT ![w][a] = 0]
             /\ turns' \in [Workers -> [Ids -> Nat]]
             /\ UNCHANGED <<up, rrIndex>>
<1> DEFINE f == Put(accounts[w], a, Fresh)
<1>1. /\ a \in Due(accounts[w])
      /\ accounts' = [accounts EXCEPT ![w][a] = Fresh]
      /\ NewTurns(w)
      /\ UNCHANGED <<up, rrIndex, blocked>>
  BY DEF RecoversNext
<1>2. /\ f \in Table
      /\ DOMAIN f = DOMAIN accounts[w] \cup {a}
      /\ f[a] = Fresh
      /\ \A b \in Ids \ {a} : SameAt(accounts[w], f, b)
  BY MemoryFacts, FreshType, PutFacts
<1>3. a \in DOMAIN accounts[w] /\ a \notin Limited(f)
  BY <1>1, <1>2 DEF Due, Limited, Fresh
<1>4. accounts' = [accounts EXCEPT ![w] = f]
  <2>1. [accounts[w] EXCEPT ![a] = Fresh] = f
    BY <1>3, TableFacts, MemoryFacts DEF Put
  <2> HIDE DEF f
  <2> QED  BY <1>1, <2>1, MemoryFacts
<1>5. blocked[w][a] = 0
  <2>1. RestsIn(accounts[w], a, blocked[w][a]) /\ blocked[w][a] \in 0 .. Cooldown
    BY MemoryFacts
  <2>2. accounts[w][a].age \in Nat
    BY <1>3, MemoryFacts, TableFacts DEF Account
  <2>3. accounts[w][a].age >= Cooldown
    BY <1>1 DEF Due
  <2> QED  BY <2>1, <2>2, <2>3, MemoryFacts DEF RestsIn
<1>6. blocked' = [blocked EXCEPT ![w][a] = 0]
  BY <1>1, <1>5, MemoryFacts
<1>7. turns' \in [Workers -> [Ids -> Nat]]
  BY <1>1, NewTurnsType, MemoryFacts
<1> QED  BY <1>1, <1>2, <1>3, <1>4, <1>6, <1>7

LEMMA RecoverKeeps ==
  ASSUME IInv, UNCHANGED deployment, NEW w \in Workers, NEW a \in Ids,
         NEW kind \in {"sweep", "get"},
         Recover(w, kind, a) \/ RecoverRaises(w, kind, a)
  PROVE  IInv'
<1> DEFINE f == Put(accounts[w], a, Fresh)
<1>1. up[w] /\ RecoversNext(w, a)
  BY DEF Recover, RecoverRaises, Recovering
<1>2. /\ f \in Table
      /\ a \in DOMAIN f /\ f[a] = Fresh /\ a \notin Limited(f)
      /\ \A b \in Ids \ {a} : SameAt(accounts[w], f, b)
      /\ a \in DOMAIN accounts[w]
      /\ accounts' = [accounts EXCEPT ![w] = f]
      /\ blocked' = [blocked EXCEPT ![w][a] = 0]
      /\ turns' \in [Workers -> [Ids -> Nat]]
      /\ UNCHANGED <<up, rrIndex>>
  BY <1>1, RecoversFacts
<1>3. \/ a \in DOMAIN rows /\ Upsert(w, a, Fresh, 0)
      \/ a \notin DOMAIN rows /\ UNCHANGED table
      \/ deployment.flaky /\ UNCHANGED table
  BY DEF Recover, RecoverRaises, Raises, UpdateStatus, Fresh
<1>4. 0 \in 0 .. Cooldown /\ RestsIn(f, a, 0)
  BY MemoryFacts DEF RestsIn
<1>5. /\ sleep' \in [Workers -> 0 .. Interval]
      /\ \A v \in Workers \ {w} : sleep'[v] = sleep[v]
      /\ deployment.flaky \/ sleep'[w] = sleep[w]
  BY MemoryFacts DEF Recover, RecoverRaises, Raises
<1>6. job' \in [Workers -> Job]
  <2>1. [job[w] EXCEPT !.kind = kind] \in Job
    BY MemoryFacts DEF Job
  <2> QED  BY <2>1, MemoryFacts, FreeType DEF Recover, RecoverRaises
<1>7. \/ a \in DOMAIN f /\ Upsert(w, a, f[a], 0)
      \/ deployment.flaky /\ UNCHANGED table
      \/ a \notin DOMAIN rows /\ a \in DOMAIN accounts[w] /\ UNCHANGED table
  BY <1>2, <1>3
<1>8. rrIndex' \in [Workers -> 0 .. Cardinality(Ids)]
  BY <1>2, MemoryFacts
<1> HIDE DEF f
<1> QED
  BY <1>1, <1>2, <1>4, <1>5, <1>6, <1>7, <1>8, MemoryFacts, OneAccount

\* The account of a file that comes next.
LEMMA LoadsFacts ==
  ASSUME IInv, NEW w \in Workers, NEW a \in Ids, LoadsNext(w, a)
  PROVE  LET f == Put(accounts[w], a, Known(w, a))
         IN  /\ f \in Table
             /\ a \in DOMAIN f /\ f[a] = Known(w, a)
             /\ a \in Limited(f) => a \in DOMAIN accounts[w] /\ f[a] = accounts[w][a]
             /\ RestsIn(f, a, blocked[w][a])
             /\ \A b \in Ids \ {a} : SameAt(accounts[w], f, b)
             /\ accounts' = [accounts EXCEPT ![w] = f]
             /\ blocked' = [blocked EXCEPT ![w][a] = blocked[w][a]]
             /\ blocked[w][a] \in 0 .. Cooldown
             /\ turns' \in [Workers -> [Ids -> Nat]]
             /\ UNCHANGED <<up, rrIndex, sleep>>
<1> DEFINE f == Put(accounts[w], a, Known(w, a))
<1>1. /\ accounts' = [accounts EXCEPT ![w] = f]
      /\ NewTurns(w)
      /\ UNCHANGED <<up, rrIndex, sleep, blocked>>
  BY DEF LoadsNext
<1>2. Known(w, a) \in Account
  BY FreshType, MemoryFacts, TableFacts DEF Known
<1>3. /\ f \in Table
      /\ DOMAIN f = DOMAIN accounts[w] \cup {a}
      /\ f[a] = Known(w, a)
      /\ \A b \in Ids \ {a} : SameAt(accounts[w], f, b)
  BY <1>2, MemoryFacts, PutFacts
<1>4. a \in Limited(f) => a \in DOMAIN accounts[w] /\ f[a] = accounts[w][a]
  BY <1>3 DEF Limited, Known, Fresh
<1>5. blocked[w][a] \in 0 .. Cooldown /\ RestsIn(accounts[w], a, blocked[w][a])
  BY MemoryFacts
<1>6. RestsIn(f, a, blocked[w][a])
  BY <1>3, <1>5 DEF RestsIn, Known
<1>7. blocked' = [blocked EXCEPT ![w][a] = blocked[w][a]]
  BY <1>1, MemoryFacts
<1>8. turns' \in [Workers -> [Ids -> Nat]]
  BY <1>1, NewTurnsType, MemoryFacts
<1> HIDE DEF f
<1>9. /\ f \in Table
      /\ a \in DOMAIN f /\ f[a] = Known(w, a)
      /\ a \in Limited(f) => a \in DOMAIN accounts[w] /\ f[a] = accounts[w][a]
      /\ RestsIn(f, a, blocked[w][a])
      /\ \A b \in Ids \ {a} : SameAt(accounts[w], f, b)
      /\ accounts' = [accounts EXCEPT ![w] = f]
      /\ blocked' = [blocked EXCEPT ![w][a] = blocked[w][a]]
      /\ blocked[w][a] \in 0 .. Cooldown
      /\ turns' \in [Workers -> [Ids -> Nat]]
      /\ UNCHANGED <<up, rrIndex, sleep>>
  BY <1>1, <1>3, <1>4, <1>5, <1>6, <1>7, <1>8
<1> QED  BY <1>9 DEF f

\* The account to load, and what is left to load after it.
LEMMA JobFacts ==
  ASSUME Typed, NEW w \in Workers, job[w].rest # << >>
  PROVE  /\ Head(job[w].rest) \in Ids
         /\ Loading(job[w].kind, Tail(job[w].rest)) \in Job
<1>1. job[w] \in Job
  BY DEF Typed
<1>2. job[w].rest \in Seq(Ids)
  BY <1>1 DEF Job
<1>3. Head(job[w].rest) \in Ids /\ Tail(job[w].rest) \in Seq(Ids)
  BY <1>2
<1> QED  BY <1>1, <1>3, FreeType DEF Loading, Job

LEMMA LoadKeeps ==
  ASSUME IInv, UNCHANGED deployment, NEW w \in Workers, Load(w)
  PROVE  IInv'
<1> DEFINE a == Head(job[w].rest)
           f == Put(accounts[w], a, Known(w, a))
<1>1. /\ up[w] /\ job[w].rest # << >>
      /\ LoadsNext(w, a)
      /\ Upsert(w, a, Known(w, a), blocked[w][a])
      /\ job' = [job EXCEPT ![w] = Loading(job[w].kind, Tail(job[w].rest))]
  BY DEF Load
<1>2. a \in Ids /\ Loading(job[w].kind, Tail(job[w].rest)) \in Job
  BY <1>1, JobFacts, MemoryFacts
<1>3. job' \in [Workers -> Job]
  BY <1>1, <1>2, MemoryFacts
<1> HIDE DEF a
<1>4. /\ f \in Table
      /\ a \in DOMAIN f /\ f[a] = Known(w, a)
      /\ a \in Limited(f) => a \in DOMAIN accounts[w] /\ f[a] = accounts[w][a]
      /\ RestsIn(f, a, blocked[w][a])
      /\ \A b \in Ids \ {a} : SameAt(accounts[w], f, b)
      /\ accounts' = [accounts EXCEPT ![w] = f]
      /\ blocked' = [blocked EXCEPT ![w][a] = blocked[w][a]]
      /\ blocked[w][a] \in 0 .. Cooldown
      /\ turns' \in [Workers -> [Ids -> Nat]]
      /\ UNCHANGED <<up, rrIndex, sleep>>
  BY <1>1, <1>2, LoadsFacts
<1>5. a \in DOMAIN f /\ Upsert(w, a, f[a], blocked[w][a])
  BY <1>1, <1>4
<1>6. /\ rrIndex' \in [Workers -> 0 .. Cardinality(Ids)]
      /\ sleep' \in [Workers -> 0 .. Interval]
      /\ \A v \in Workers \ {w} : sleep'[v] = sleep[v]
      /\ sleep'[w] = sleep[w]
  BY <1>4, MemoryFacts
<1> HIDE DEF f
<1> QED
  BY <1>1, <1>2, <1>3, <1>4, <1>5, <1>6, OneAccount

-----------------------------------------------------------------------------
(* The other steps.                                                        *)

\* A step of w that touches neither its memory nor the table.
LEMMA LeavesMemory ==
  ASSUME IInv, NEW w \in Workers, up[w],
         UNCHANGED <<deployment, up, accounts, blocked, table>>,
         sleep' \in [Workers -> 0 .. Interval],
         \A v \in Workers \ {w} : sleep'[v] = sleep[v],
         sleep'[w] = sleep[w] \/ Due(accounts[w]) = {},
         rrIndex' \in [Workers -> 0 .. Cardinality(Ids)],
         job' \in [Workers -> Job],
         turns' \in [Workers -> [Ids -> Nat]]
  PROVE  IInv'
<1>1. Typed'
  BY DEF IInv, Typed, table
<1>2. Apart(w)
  BY DEF Apart
<1>3. \A v \in Workers \ {w} :
        /\ foreign[v] \subseteq foreign'[v]
        /\ \A b \in Ids \ foreign'[v] : SameAt(rows, rows', b)
  BY DEF table, SameAt
<1>4. \A a \in Ids : RestsIn(rows', a, stored'[a]) /\ RestsIn(accounts'[w], a, blocked'[w][a])
  BY DEF IInv, Resting, table
<1>5. Mirrors(w)'
  BY DEF IInv, Mirrors, table, SameAt
<1>6. InTime(w)'
  <2> SUFFICES ASSUME ~deployment.flaky, sleep'[w] > 0, NEW a \in Limited(accounts[w])
               PROVE  accounts[w][a].age + sleep'[w] < Cooldown + Interval
    BY DEF InTime, Limited
  <2>1. CASE sleep'[w] = sleep[w]
    BY <2>1 DEF IInv, InTime
  <2>2. CASE Due(accounts[w]) = {}
    <3>1. accounts[w][a].age \in Nat /\ Cooldown \in Nat
      BY MemoryFacts, TableFacts DEF Limited, Account
    <3>2. ~(accounts[w][a].age >= Cooldown)
      BY <2>2 DEF Due
    <3>4. accounts[w][a].age < Cooldown
      BY <3>1, <3>2
    <3>3. sleep'[w] \in 0 .. Interval /\ Interval \in Nat
      BY MemoryFacts
    <3> QED  BY <3>1, <3>3, <3>4
  <2> QED  BY <2>1, <2>2
<1>7. ~up'[w] => accounts'[w] = Empty
  OBVIOUS
<1> QED  BY <1>1, <1>2, <1>3, <1>4, <1>5, <1>6, <1>7, StepFact

LEMMA SweepEndsKeeps ==
  ASSUME IInv, UNCHANGED deployment, NEW w \in Workers, SweepEnds(w)
  PROVE  IInv'
<1>1. /\ up[w] /\ Due(accounts[w]) = {}
      /\ sleep' = [sleep EXCEPT ![w] = Interval]
      /\ job' = [job EXCEPT ![w] = Free]
      /\ UNCHANGED <<up, accounts, rrIndex, blocked, turns, table>>
  BY DEF SweepEnds, Recovering
<1>2. /\ sleep' \in [Workers -> 0 .. Interval]
      /\ \A v \in Workers \ {w} : sleep'[v] = sleep[v]
  BY <1>1, MemoryFacts
<1>3. job' \in [Workers -> Job] /\ rrIndex' \in [Workers -> 0 .. Cardinality(Ids)]
  BY <1>1, MemoryFacts, FreeType
<1>4. turns' \in [Workers -> [Ids -> Nat]]
  BY <1>1 DEF IInv, Typed
<1> QED  BY <1>1, <1>2, <1>3, <1>4, LeavesMemory

LEMMA ReloadKeeps ==
  ASSUME IInv, UNCHANGED deployment, NEW w \in Workers, Reload(w)
  PROVE  IInv'
<1>1. /\ up[w]
      /\ ReadFile(w, "reload")
      /\ UNCHANGED <<up, accounts, rrIndex, sleep, blocked, turns, table>>
  BY DEF Reload, Ready
<1>2. PICK file \in Files : job' = [job EXCEPT ![w] = Loading("reload", file)]
  BY <1>1 DEF ReadFile
<1>3. Loading("reload", file) \in Job
  BY AccountsAssumption, FreeType DEF Loading, Job
<1>4. job' \in [Workers -> Job]
  BY <1>2, <1>3, MemoryFacts
<1>5. /\ turns' \in [Workers -> [Ids -> Nat]]
      /\ sleep' \in [Workers -> 0 .. Interval]
      /\ rrIndex' \in [Workers -> 0 .. Cardinality(Ids)]
  BY <1>1, MemoryFacts DEF Typed
<1> QED  BY <1>1, <1>4, <1>5, LeavesMemory

\* A pick keeps the index within the accounts, and the turns numbers.
LEMMA PickType ==
  ASSUME Typed, NEW w \in Workers, PickNext(w, Healthy(accounts[w]))
  PROVE  /\ rrIndex' \in [Workers -> 0 .. Cardinality(Ids)]
         /\ turns' \in [Workers -> [Ids -> Nat]]
<1> DEFINE active == Healthy(accounts[w])
           n      == Cardinality(active)
           i      == rrIndex[w]
<1>1. PICK a \in active : /\ rrIndex' = [rrIndex EXCEPT ![w] = (i % n) + 1]
                          /\ turns' = [turns EXCEPT ![w] = TurnsAfter(w, a, active)]
  BY DEF PickNext
<1>2. active \subseteq Ids
  BY TableFacts DEF Healthy, Typed
<1>3. /\ IsFiniteSet(active)
      /\ n \in Nat /\ Cardinality(Ids) \in Nat
      /\ n <= Cardinality(Ids)
  BY <1>2, AccountsAssumption, FS_Subset, FS_CardinalityType
<1>4. n # 0
  BY <1>1, <1>3, FS_EmptySet
<1>5. i \in Nat /\ rrIndex \in [Workers -> 0 .. Cardinality(Ids)]
  BY <1>3 DEF Typed
<1>6. rrIndex' \in [Workers -> 0 .. Cardinality(Ids)]
  <2> HIDE DEF n, i, active
  <2>1. i % n \in 0 .. n - 1
    BY <1>3, <1>4, <1>5
  <2>2. (i % n) + 1 \in 0 .. Cardinality(Ids)
    BY <1>3, <1>4, <2>1
  <2> QED  BY <1>1, <1>5, <2>2
<1>7. TurnsAfter(w, a, active) \in [Ids -> Nat]
  <2> DEFINE now == [turns[w] EXCEPT ![a] = @ + 1]
  <2>1. turns[w] \in [Ids -> Nat]
    BY DEF Typed
  <2>2. now \in [Ids -> Nat]
    <3>1. turns[w][a] + 1 \in Nat
      BY <1>1, <1>2, <2>1
    <3> QED  BY <2>1, <3>1
  <2>3. TurnsAfter(w, a, active) = IF \A b \in active : now[b] > 0
                                   THEN [b \in Ids |-> IF b \in active THEN now[b] - 1 ELSE 0]
                                   ELSE now
    BY DEF TurnsAfter
  <2> HIDE DEF now, active
  <2>4. CASE \A b \in active : now[b] > 0
    <3>1. \A b \in Ids : (IF b \in active THEN now[b] - 1 ELSE 0) \in Nat
      BY <2>2, <2>4
    <3> QED  BY <2>3, <2>4, <3>1
  <2> QED  BY <2>2, <2>3, <2>4
<1>8. turns' \in [Workers -> [Ids -> Nat]]
  BY <1>1, <1>7 DEF Typed
<1> QED  BY <1>6, <1>8

LEMMA GetKeeps ==
  ASSUME IInv, UNCHANGED deployment, NEW w \in Workers, Get(w)
  PROVE  IInv'
<1>1. /\ up[w]
      /\ PickNext(w, Healthy(accounts[w])) \/ UNCHANGED <<rrIndex, turns>>
      /\ job' = [job EXCEPT ![w] = Free]
      /\ UNCHANGED <<up, accounts, sleep, blocked, table>>
  BY DEF Get, Recovering
<1>2. /\ rrIndex' \in [Workers -> 0 .. Cardinality(Ids)]
      /\ turns' \in [Workers -> [Ids -> Nat]]
  BY <1>1, PickType, MemoryFacts DEF Typed
<1>3. job' \in [Workers -> Job] /\ sleep' \in [Workers -> 0 .. Interval]
  BY <1>1, MemoryFacts, FreeType
<1> QED  BY <1>1, <1>2, <1>3, LeavesMemory

\* A process that starts remembers what the table has.
LEMMA StartKeeps ==
  ASSUME IInv, UNCHANGED deployment, NEW w \in Workers, Start(w)
  PROVE  IInv'
<1>1. /\ up' = [up EXCEPT ![w] = TRUE]
      /\ accounts' = [accounts EXCEPT ![w] = rows]
      /\ blocked' = [blocked EXCEPT ![w] = stored]
      /\ foreign' = [foreign EXCEPT ![w] = {}]
      /\ sleep' = [sleep EXCEPT ![w] = 0]
      /\ ReadFile(w, "start")
      /\ UNCHANGED <<rrIndex, rows, stored, turns>>
  BY DEF Start
<1>2. PICK file \in Files : job' = [job EXCEPT ![w] = Loading("start", file)]
  BY <1>1 DEF ReadFile
<1>3. Loading("start", file) \in Job
  BY AccountsAssumption, FreeType DEF Loading, Job
<1>4. Typed'
  BY <1>1, <1>2, <1>3, AccountsAssumption DEF IInv, Typed
<1>5. /\ up'[w] /\ accounts'[w] = rows /\ blocked'[w] = stored
      /\ foreign'[w] = {} /\ sleep'[w] = 0
      /\ \A v \in Workers \ {w} : foreign'[v] = foreign[v]
      /\ Apart(w)
  BY <1>1 DEF IInv, Typed, Apart
<1>6. \A a \in Ids : RestsIn(rows', a, stored'[a]) /\ RestsIn(accounts'[w], a, blocked'[w][a])
  BY <1>1, <1>5 DEF IInv, Resting
<1>7. \A v \in Workers \ {w} :
        /\ foreign[v] \subseteq foreign'[v]
        /\ \A b \in Ids \ foreign'[v] : SameAt(rows, rows', b)
  BY <1>1, <1>5 DEF SameAt
<1>8. Mirrors(w)' /\ InTime(w)'
  BY <1>1, <1>5 DEF Mirrors, InTime, SameAt
<1> QED  BY <1>4, <1>5, <1>6, <1>7, <1>8, StepFact

\* A process that ends leaves the table as it is, or after a last write of what
\* it remembered.
LEMMA EndsKeeps ==
  ASSUME IInv, UNCHANGED deployment, NEW w \in Workers, Ends(w),
         \/ UNCHANGED table
         \/ \E a \in Ids : /\ RowChanged(w, a)
                           /\ RestsIn(rows', a, stored'[a])
  PROVE  IInv'
<1>1. /\ up' = [up EXCEPT ![w] = FALSE]
      /\ accounts' = [accounts EXCEPT ![w] = Empty]
      /\ rrIndex' = [rrIndex EXCEPT ![w] = 0]
      /\ sleep' = [sleep EXCEPT ![w] = 0]
      /\ job' = [job EXCEPT ![w] = Free]
      /\ blocked' = [blocked EXCEPT ![w] = Never]
      /\ turns' = [turns EXCEPT ![w] = Never]
  BY DEF Ends
<1>2. Cooldown \in Nat /\ Interval \in Nat /\ Cardinality(Ids) \in Nat
  BY AccountsAssumption, FS_CardinalityType
<1>3. Never \in [Ids -> 0 .. Cooldown] /\ Never \in [Ids -> Nat] /\ \A a \in Ids : Never[a] = 0
  BY <1>2 DEF Never
<1>4. /\ rows' \in Table
      /\ stored' \in [Ids -> 0 .. Cooldown]
      /\ foreign' \in [Workers -> SUBSET Ids]
      /\ \A v \in Workers \ {w} :
           /\ foreign[v] \subseteq foreign'[v]
           /\ \A b \in Ids \ foreign'[v] : SameAt(rows, rows', b)
      /\ \A b \in Ids : RestsIn(rows', b, stored'[b])
  <2>1. CASE UNCHANGED table
    BY <2>1 DEF IInv, Typed, Resting, table, SameAt
  <2>2. ASSUME NEW a \in Ids, RowChanged(w, a), RestsIn(rows', a, stored'[a])
        PROVE  /\ rows' \in Table
               /\ stored' \in [Ids -> 0 .. Cooldown]
               /\ foreign' \in [Workers -> SUBSET Ids]
               /\ \A v \in Workers \ {w} :
                    /\ foreign[v] \subseteq foreign'[v]
                    /\ \A b \in Ids \ foreign'[v] : SameAt(rows, rows', b)
               /\ \A b \in Ids : RestsIn(rows', b, stored'[b])
    <3>1. ASSUME NEW b \in Ids \ {a} PROVE RestsIn(rows', b, stored'[b])
      BY <2>2 DEF RowChanged, IInv, Resting, RestsIn, SameAt
    <3> QED  BY <2>2, <3>1 DEF RowChanged
  <2> QED  BY <2>1, <2>2
<1>5. Typed'
  <2>1. /\ up' \in [Workers -> BOOLEAN]
        /\ accounts' \in [Workers -> Table]
        /\ blocked' \in [Workers -> [Ids -> 0 .. Cooldown]]
        /\ turns' \in [Workers -> [Ids -> Nat]]
    BY <1>1, <1>3, EmptyType DEF IInv, Typed
  <2>2. /\ rrIndex' \in [Workers -> 0 .. Cardinality(Ids)]
        /\ sleep' \in [Workers -> 0 .. Interval]
        /\ job' \in [Workers -> Job]
    BY <1>1, <1>2, FreeType DEF IInv, Typed
  <2> QED  BY <1>4, <2>1, <2>2 DEF IInv, Typed
<1>6. /\ ~up'[w] /\ accounts'[w] = Empty /\ blocked'[w] = Never
      /\ Apart(w)
  BY <1>1 DEF IInv, Typed, Apart
<1>7. \A a \in Ids : RestsIn(accounts'[w], a, blocked'[w][a])
  BY <1>3, <1>6 DEF RestsIn
<1>8. Mirrors(w)' /\ InTime(w)'
  BY <1>6 DEF Mirrors, InTime
<1> QED  BY <1>4, <1>5, <1>6, <1>7, <1>8, StepFact

LEMMA StopKeeps ==
  ASSUME IInv, UNCHANGED deployment, NEW w \in Workers, Stop(w)
  PROVE  IInv'
  BY EndsKeeps DEF Stop

LEMMA LoadRaisesKeeps ==
  ASSUME IInv, UNCHANGED deployment, NEW w \in Workers, LoadRaises(w)
  PROVE  IInv'
<1> DEFINE a == Head(job[w].rest)
           f == Put(accounts[w], a, Known(w, a))
<1>1. /\ up[w] /\ job[w].rest # << >>
      /\ deployment.flaky
      /\ Upsert(w, a, Known(w, a), blocked[w][a]) \/ UNCHANGED table
      /\ \/ Ends(w)
         \/ LoadsNext(w, a) /\ job' = [job EXCEPT ![w] = Free]
  BY DEF LoadRaises, Raises
<1>2. a \in Ids
  BY <1>1, JobFacts, MemoryFacts
<1> HIDE DEF a
<1>3. CASE LoadsNext(w, a) /\ job' = [job EXCEPT ![w] = Free]
  <2>1. /\ f \in Table
        /\ a \in DOMAIN f /\ f[a] = Known(w, a)
        /\ a \in Limited(f) => a \in DOMAIN accounts[w] /\ f[a] = accounts[w][a]
        /\ RestsIn(f, a, blocked[w][a])
        /\ \A b \in Ids \ {a} : SameAt(accounts[w], f, b)
        /\ accounts' = [accounts EXCEPT ![w] = f]
        /\ blocked' = [blocked EXCEPT ![w][a] = blocked[w][a]]
        /\ blocked[w][a] \in 0 .. Cooldown
        /\ turns' \in [Workers -> [Ids -> Nat]]
        /\ UNCHANGED <<up, rrIndex, sleep>>
    BY <1>2, <1>3, LoadsFacts
  <2>2. \/ a \in DOMAIN f /\ Upsert(w, a, f[a], blocked[w][a])
        \/ deployment.flaky /\ UNCHANGED table
    BY <1>1, <2>1
  <2>3. /\ rrIndex' \in [Workers -> 0 .. Cardinality(Ids)]
        /\ sleep' \in [Workers -> 0 .. Interval]
        /\ \A v \in Workers \ {w} : sleep'[v] = sleep[v]
        /\ sleep'[w] = sleep[w]
        /\ job' \in [Workers -> Job]
    BY <1>3, <2>1, MemoryFacts, FreeType
  <2> HIDE DEF f
  <2> QED
    BY <1>1, <1>2, <2>1, <2>2, <2>3, OneAccount
<1>4. CASE Ends(w)
  <2>1. ASSUME Upsert(w, a, Known(w, a), blocked[w][a])
        PROVE  RowChanged(w, a) /\ RestsIn(rows', a, stored'[a])
    <3>1. Known(w, a) \in Account
      BY FreshType, MemoryFacts, TableFacts DEF Known
    <3>2. blocked[w][a] \in 0 .. Cooldown /\ RestsIn(accounts[w], a, blocked[w][a])
      BY <1>2, MemoryFacts
    <3>3. /\ RowChanged(w, a)
          /\ a \in DOMAIN rows' /\ rows'[a] = Known(w, a) /\ stored'[a] = blocked[w][a]
      BY <1>2, <2>1, <3>1, <3>2, UpsertFacts, MemoryFacts
    <3> QED  BY <3>2, <3>3 DEF RestsIn, Known
  <2> QED  BY <1>1, <1>2, <1>4, <2>1, EndsKeeps
<1> QED  BY <1>1, <1>3, <1>4

\* Time that passes is taken from the rest of an account and added to its age.
LEMMA AgedRests ==
  ASSUME NEW f \in Table, NEW a \in Ids, NEW rest \in 0 .. Cooldown, RestsIn(f, a, rest)
  PROVE  RestsIn(Aged(f), a, IF rest > 0 THEN rest - 1 ELSE 0)
<1> SUFFICES ASSUME rest > 0
             PROVE  /\ a \in DOMAIN Aged(f)
                    /\ Aged(f)[a].status = "rate_limited"
                    /\ Aged(f)[a].age + (rest - 1) <= Cooldown
  BY DEF RestsIn
<1>1. a \in DOMAIN f /\ f[a].status = "rate_limited" /\ f[a].age + rest <= Cooldown
  BY DEF RestsIn
<1>2. /\ a \in DOMAIN Aged(f)
      /\ Aged(f)[a].status = f[a].status
      /\ Aged(f)[a].age <= f[a].age + 1
      /\ Aged(f) \in Table
  BY <1>1, AgedFacts
<1>3. f[a].age \in Nat /\ Aged(f)[a].age \in Nat /\ Cooldown \in Nat
  BY <1>1, <1>2, TableFacts, AccountsAssumption DEF Account
<1> QED  BY <1>1, <1>2, <1>3

LEMMA ShorterType ==
  ASSUME NEW g \in [Ids -> 0 .. Cooldown]
  PROVE  Shorter(g) \in [Ids -> 0 .. Cooldown]
  BY AccountsAssumption DEF Shorter

LEMMA TickKeeps ==
  ASSUME IInv, UNCHANGED deployment, Tick
  PROVE  IInv'
<1>1. /\ accounts \in [Workers -> Table] /\ rows \in Table
      /\ sleep \in [Workers -> 0 .. Interval]
      /\ blocked \in [Workers -> [Ids -> 0 .. Cooldown]]
      /\ stored \in [Ids -> 0 .. Cooldown]
      /\ Cooldown \in Nat /\ Interval \in Nat
  BY AccountsAssumption DEF IInv, Typed
<1>2. /\ accounts' = [w \in Workers |-> Aged(accounts[w])]
      /\ rows' = Aged(rows)
      /\ sleep' = [w \in Workers |-> IF sleep[w] > 0 THEN sleep[w] - 1 ELSE 0]
      /\ blocked' = [w \in Workers |-> Shorter(blocked[w])]
      /\ stored' = Shorter(stored)
      /\ UNCHANGED <<up, rrIndex, job, turns, foreign>>
  BY DEF Tick
<1>3. Typed'
  <2>1. accounts' \in [Workers -> Table] /\ rows' \in Table
    BY <1>1, <1>2, AgedFacts
  <2>2. blocked' \in [Workers -> [Ids -> 0 .. Cooldown]] /\ stored' \in [Ids -> 0 .. Cooldown]
    BY <1>1, <1>2, ShorterType
  <2>3. sleep' \in [Workers -> 0 .. Interval]
    BY <1>1, <1>2
  <2> QED  BY <1>2, <2>1, <2>2, <2>3 DEF IInv, Typed
<1>4. Forgotten'
  <2>1. Aged(Empty) = Empty
    BY DEF Aged, Empty
  <2> QED  BY <1>2, <2>1 DEF IInv, Forgotten
<1>5. Resting'
  <2>1. ASSUME NEW a \in Ids PROVE RestsIn(rows', a, stored'[a])
    <3>1. RestsIn(rows, a, stored[a]) /\ stored[a] \in 0 .. Cooldown
      BY <1>1 DEF IInv, Resting
    <3>2. RestsIn(Aged(rows), a, IF stored[a] > 0 THEN stored[a] - 1 ELSE 0)
      BY <1>1, <3>1, AgedRests
    <3> QED  BY <1>2, <3>2 DEF Shorter
  <2>2. ASSUME NEW a \in Ids, NEW w \in Workers
        PROVE  RestsIn(accounts'[w], a, blocked'[w][a])
    <3>1. RestsIn(accounts[w], a, blocked[w][a]) /\ blocked[w][a] \in 0 .. Cooldown
      BY <1>1 DEF IInv, Resting
    <3>2. RestsIn(Aged(accounts[w]), a, IF blocked[w][a] > 0 THEN blocked[w][a] - 1 ELSE 0)
      BY <1>1, <3>1, AgedRests
    <3> QED  BY <1>2, <3>2 DEF Shorter
  <2> QED  BY <2>1, <2>2 DEF Resting
<1>6. ASSUME NEW w \in Workers PROVE Mirrors(w)'
  <2> SUFFICES ASSUME up[w], ~deployment.flaky, NEW a \in Ids \ foreign[w]
               PROVE  SameAt(rows', accounts'[w], a)
    BY <1>2 DEF Mirrors, SameAt
  <2>1. SameAt(rows, accounts[w], a)
    BY DEF IInv, Mirrors
  <2>2. SameAt(Aged(rows), Aged(accounts[w]), a)
    BY <1>1, <2>1, AgedSame
  <2> QED  BY <1>2, <2>2
<1>7. ASSUME NEW w \in Workers PROVE InTime(w)'
  <2> SUFFICES ASSUME up[w], ~deployment.flaky, sleep'[w] > 0, NEW a \in Limited(accounts'[w])
               PROVE  accounts'[w][a].age + sleep'[w] < Cooldown + Interval
    BY <1>2 DEF InTime
  <2>1. accounts[w] \in Table /\ accounts'[w] = Aged(accounts[w])
    BY <1>1, <1>2
  <2>2. /\ a \in Limited(accounts[w])
        /\ accounts'[w][a].age <= accounts[w][a].age + 1
        /\ accounts'[w] \in Table
    BY <2>1, AgedFacts DEF Limited
  <2>3. sleep[w] > 0 /\ sleep'[w] = sleep[w] - 1 /\ sleep[w] \in Nat
    BY <1>1, <1>2
  <2>4. accounts[w][a].age + sleep[w] < Cooldown + Interval
    BY <2>2, <2>3 DEF IInv, InTime
  <2>5. accounts[w][a].age \in Nat /\ accounts'[w][a].age \in Nat
    BY <2>1, <2>2, TableFacts DEF Limited, Account
  <2> QED  BY <1>1, <2>2, <2>3, <2>4, <2>5
<1> QED  BY <1>3, <1>4, <1>5, <1>6, <1>7 DEF IInv

-----------------------------------------------------------------------------
LEMMA InitHolds == Init => IInv
<1> SUFFICES ASSUME Init PROVE IInv
  OBVIOUS
<1>1. Cardinality(Ids) \in Nat /\ Cooldown \in Nat /\ Interval \in Nat
  BY AccountsAssumption, FS_CardinalityType
<1>2. Never \in [Ids -> 0 .. Cooldown] /\ Never \in [Ids -> Nat] /\ \A a \in Ids : Never[a] = 0
  BY <1>1 DEF Never
<1>3. /\ up \in [Workers -> BOOLEAN]
      /\ accounts \in [Workers -> Table] /\ rows \in Table
      /\ rrIndex \in [Workers -> 0 .. Cardinality(Ids)]
      /\ sleep \in [Workers -> 0 .. Interval]
      /\ job \in [Workers -> Job]
  BY <1>1, EmptyType, FreeType DEF Init
<1>4. /\ blocked \in [Workers -> [Ids -> 0 .. Cooldown]]
      /\ stored \in [Ids -> 0 .. Cooldown]
      /\ turns \in [Workers -> [Ids -> Nat]]
      /\ foreign \in [Workers -> SUBSET Ids]
  BY <1>2 DEF Init
<1>5. Typed
  BY <1>3, <1>4 DEF Init, Typed
<1>6. Resting
  BY <1>2 DEF Init, Resting, RestsIn
<1> QED
  BY <1>5, <1>6 DEF Init, IInv, Forgotten, Mirrors, InTime

LEMMA OneStepKeeps ==
  ASSUME IInv, UNCHANGED deployment, NEW w \in Workers, Step(w)
  PROVE  IInv'
<1>1. deployment.ids \subseteq Ids
  BY AccountsAssumption DEF IInv, Typed, Deployment
<1>2. ASSUME NEW a \in deployment.ids, Add(w, a) \/ Remove(w, a)
      PROVE  IInv'
  BY <1>1, <1>2, AddKeeps, RemoveKeeps
<1>3. ASSUME NEW a \in deployment.ids, NEW st \in Status, Mark(w, a, st)
      PROVE  IInv'
  BY <1>1, <1>3, MarkKeeps
<1>4. ASSUME NEW a \in deployment.ids, NEW kind \in {"sweep", "get"},
             Recover(w, kind, a) \/ RecoverRaises(w, kind, a)
      PROVE  IInv'
  BY <1>1, <1>4, RecoverKeeps
<1>5. CASE SweepEnds(w) \/ Get(w) \/ Reload(w)
  BY <1>5, SweepEndsKeeps, GetKeeps, ReloadKeeps
<1>6. CASE Load(w) \/ LoadRaises(w)
  BY <1>6, LoadKeeps, LoadRaisesKeeps
<1>7. CASE Start(w) \/ Stop(w)
  BY <1>7, StartKeeps, StopKeeps
<1> QED  BY <1>2, <1>3, <1>4, <1>5, <1>6, <1>7 DEF Step

LEMMA StepKeeps == IInv /\ [Next]_vars => IInv'
<1> SUFFICES ASSUME IInv, [Next]_vars PROVE IInv'
  OBVIOUS
<1>1. CASE UNCHANGED vars
  BY <1>1 DEF vars, state, table, IInv, Typed, Forgotten, Resting, RestsIn,
              Mirrors, InTime, SameAt, Limited
<1>2. CASE Next
  <2>1. UNCHANGED deployment /\ deployment.workers \subseteq Workers
    BY <1>2, AccountsAssumption DEF Next, IInv, Typed, Deployment
  <2> QED  BY <1>2, <2>1, OneStepKeeps, TickKeeps DEF Next
<1> QED  BY <1>1, <1>2

\* The inductive invariant.
THEOREM Invariance == Spec => []IInv
<1> QED  BY InitHolds, StepKeeps, PTL DEF Spec

\* Accounts, rows, indices and history of every worker stay well typed;
\* round_robin's index never leaves the accounts.
THEOREM TypeCorrect == Spec => []TypeOK
<1>1. IInv => TypeOK
  BY TableFacts DEF IInv, Typed, TypeOK, Job
<1> QED  BY <1>1, Invariance, PTL

\* A reported rate limit is respected by the worker it was reported to, and a
\* stored one by every worker that starts later, across restarts, reloads and
\* failing writes: get_account never chooses from accounts that have to rest.
THEOREM LimitsHold == Spec => []LimitsRespected
<1>1. IInv => LimitsRespected
  BY DEF IInv, Resting, RestsIn, LimitsRespected
<1> QED  BY <1>1, Invariance, PTL

\* With a working SQLite, an account that is limited in a worker is active there
\* again within its cooldown and one interval of the recovery task.
THEOREM RecoveryInTime == Spec => []RecoveredInTime
<1>1. IInv => RecoveredInTime
  BY DEF IInv, InTime, RecoveredInTime
<1> QED  BY <1>1, Invariance, PTL

\* With a working SQLite, and whatever number of workers, the memory of a worker
\* and the table agree on all accounts whose row no other worker has changed
\* since.
THEOREM TableExact == Spec => []TableMirrorsMemory
<1>1. IInv => TableMirrorsMemory
  BY DEF IInv, Mirrors, SameAt, TableMirrorsMemory
<1> QED  BY <1>1, Invariance, PTL

\* The table of a worker that is alone is never changed by another: with a
\* working SQLite the table is what it has in memory.
THEOREM AloneTableExact ==
  ASSUME \A v, w \in Workers : v = w
  PROVE  Spec => [](\A w \in Workers : up[w] /\ ~deployment.flaky => rows = accounts[w])
<1> DEFINE Unchanged == \A w \in Workers : foreign[w] = {}
           Exact     == \A w \in Workers : up[w] /\ ~deployment.flaky => rows = accounts[w]
<1>1. Init => Unchanged
  BY DEF Init
<1>2. IInv /\ Unchanged /\ [Next]_vars => Unchanged'
  <2> SUFFICES ASSUME IInv, Unchanged, [Next]_vars PROVE Unchanged'
    OBVIOUS
  <2>1. ASSUME NEW w \in Workers, NEW a, Written(w, a) PROVE Unchanged'
    BY <2>1 DEF Written
  <2>2. ASSUME foreign' = foreign PROVE Unchanged'
    BY <2>2
  <2>3. ASSUME NEW w \in Workers, NEW a, NEW r, NEW rest,
               Attempts(Upsert(w, a, r, rest)) \/ Attempts(DeleteRow(w, a))
        PROVE  Unchanged'
    BY <2>1, <2>2, <2>3 DEF Attempts, Raises, Upsert, DeleteRow, table
  <2>4. ASSUME NEW w \in Workers, NEW a, NEW st, NEW rest,
               Attempts(UpdateStatus(w, a, st, rest))
        PROVE  Unchanged'
    BY <2>1, <2>2, <2>4 DEF Attempts, Raises, UpdateStatus, Upsert, table
  <2>5. ASSUME NEW w \in Workers, Step(w) PROVE Unchanged'
    <3>1. CASE \E a \in deployment.ids : Add(w, a) \/ Remove(w, a)
      BY <2>3, <3>1 DEF Add, Remove
    <3>2. CASE \E a \in deployment.ids, st \in Status : Mark(w, a, st)
      BY <2>4, <3>2 DEF Mark
    <3>3. CASE \E a \in deployment.ids, kind \in {"sweep", "get"} :
                 Recover(w, kind, a) \/ RecoverRaises(w, kind, a)
      BY <2>4, <3>3 DEF Recover, RecoverRaises, Attempts
    <3>4. CASE Load(w) \/ LoadRaises(w)
      BY <2>3, <3>4 DEF Load, LoadRaises, Attempts
    <3>5. CASE SweepEnds(w) \/ Get(w) \/ Reload(w) \/ Stop(w)
      BY <2>2, <3>5 DEF SweepEnds, Get, Reload, Stop, table
    <3>6. CASE Start(w)
      BY <3>6 DEF Start, IInv, Typed
    <3> QED  BY <2>5, <3>1, <3>2, <3>3, <3>4, <3>5, <3>6 DEF Step
  <2>6. CASE Next
    <3>1. deployment.workers \subseteq Workers
      BY AccountsAssumption DEF IInv, Typed, Deployment
    <3>2. CASE Tick
      BY <2>2, <3>2 DEF Tick
    <3> QED  BY <2>5, <2>6, <3>1, <3>2 DEF Next
  <2>7. CASE UNCHANGED vars
    BY <2>2, <2>7 DEF vars, state, table
  <2> QED  BY <2>6, <2>7
<1>3. IInv /\ Unchanged => Exact
  <2> SUFFICES ASSUME IInv, Unchanged, NEW w \in Workers, up[w], ~deployment.flaky
               PROVE  rows = accounts[w]
    OBVIOUS
  <2>1. \A a \in Ids : SameAt(rows, accounts[w], a)
    BY DEF IInv, Mirrors
  <2>2. /\ rows \in [DOMAIN rows -> Account] /\ DOMAIN rows \subseteq Ids
        /\ accounts[w] \in [DOMAIN accounts[w] -> Account] /\ DOMAIN accounts[w] \subseteq Ids
    BY TableFacts DEF IInv, Typed
  <2> QED  BY <2>1, <2>2 DEF SameAt
<1> HIDE DEF Unchanged, Exact
<1>4. Spec => []Exact
  BY <1>1, <1>2, <1>3, Invariance, PTL DEF Spec
<1> QED  BY <1>4 DEF Exact

-----------------------------------------------------------------------------
(* Whose turn it is.                                                       *)

\* The place of b among the active accounts, as PickNext counts it.
Rank(b, active) == Cardinality({c \in active : c < b})

\* The places from s up to, but without, m; past the last place it goes on at 0.
InArc(r, s, m) == IF s <= m THEN s <= r /\ r < m ELSE s <= r \/ r < m

\* The accounts that had their turn are those on an arc that ends where the
\* index points, and the arc is never the whole circle.
InTurn(active, index, t) ==
  /\ \A b \in Ids \ active : t[b] = 0
  /\ active # {} =>
       \E s \in 0 .. Cardinality(active) - 1 : \A b \in active :
         t[b] = IF InArc(Rank(b, active), s, index % Cardinality(active)) THEN 1 ELSE 0

NextInTurn(w) == InTurn(Healthy(accounts[w]), rrIndex[w], turns[w])

\* Places are numbers below the number of active accounts, one for each.
LEMMA RankFacts ==
  ASSUME NEW active \in SUBSET Ids
  PROVE  /\ IsFiniteSet(active)
         /\ Cardinality(active) \in Nat
         /\ active # {} => Cardinality(active) \in Nat \ {0}
         /\ \A b \in active : Rank(b, active) \in 0 .. Cardinality(active) - 1
         /\ \A b, c \in active : b # c => Rank(b, active) # Rank(c, active)
<1> DEFINE Below(b) == {c \in active : c < b}
<1>1. IsFiniteSet(active) /\ Cardinality(active) \in Nat
  BY AccountsAssumption, FS_Subset, FS_CardinalityType
<1>2. ASSUME NEW S \in SUBSET active, NEW T \in SUBSET S, S # T
      PROVE  Cardinality(T) \in Nat /\ Cardinality(S) \in Nat /\ Cardinality(T) < Cardinality(S)
  BY <1>1, <1>2, FS_Subset, FS_CardinalityType
<1>3. ASSUME NEW b \in active PROVE Rank(b, active) \in 0 .. Cardinality(active) - 1
  <2>1. Below(b) \in SUBSET active /\ b \notin Below(b)
    BY AccountsAssumption
  <2> QED  BY <1>1, <1>2, <2>1 DEF Rank
<1>4. ASSUME NEW b \in active, NEW c \in active, b < c
      PROVE  Rank(b, active) # Rank(c, active)
  <2>1. \A x \in active : (x < b => x < c) /\ ~(b < b)
    <3>1. active \subseteq Nat
      BY AccountsAssumption
    <3> QED  BY <1>4, <3>1
  <2>2. Below(b) \in SUBSET active /\ Below(c) \in SUBSET active
    OBVIOUS
  <2>3. Below(b) \in SUBSET Below(c) /\ b \in Below(c) /\ b \notin Below(b)
    BY <1>4, <2>1
  <2> QED  BY <1>2, <2>2, <2>3 DEF Rank
<1>5. \A b, c \in active : b # c => b < c \/ c < b
  BY AccountsAssumption
<1> QED  BY <1>1, <1>3, <1>4, <1>5, FS_EmptySet

LEMMA ModFact ==
  ASSUME NEW i \in Nat, NEW n \in Nat \ {0}
  PROVE  i % n \in 0 .. n - 1
  OBVIOUS

\* When nobody had a turn, the arc is empty.
LEMMA NoTurnsInTurn ==
  ASSUME NEW active \in SUBSET Ids, NEW index \in Nat, NEW t,
         \A b \in Ids : t[b] = 0
  PROVE  InTurn(active, index, t)
<1>1. ASSUME active # {}
      PROVE  index % Cardinality(active) \in 0 .. Cardinality(active) - 1
  BY <1>1, RankFacts, ModFact
<1>2. ASSUME NEW r \in Nat, NEW m \in Nat PROVE ~InArc(r, m, m)
  BY DEF InArc
<1> QED  BY <1>1, <1>2, RankFacts DEF InTurn

\* A pick makes the arc longer by the account picked; when the arc becomes the
\* whole circle, all turns are over and a new round begins.
LEMMA ArcGrows ==
  ASSUME NEW active \in SUBSET Ids, NEW index \in Nat, NEW t \in [Ids -> Nat],
         InTurn(active, index, t),
         NEW a \in active, Rank(a, active) = index % Cardinality(active),
         NEW now, now = [t EXCEPT ![a] = @ + 1],
         NEW u, u = IF \A b \in active : now[b] > 0
                    THEN [b \in Ids |-> IF b \in active THEN now[b] - 1 ELSE 0]
                    ELSE now
  PROVE  InTurn(active, (index % Cardinality(active)) + 1, u)
<1> DEFINE n  == Cardinality(active)
           m  == index % n
           m1 == (m + 1) % n
           R(b) == Rank(b, active)
<1>1. /\ n \in Nat \ {0}
      /\ \A b \in active : R(b) \in 0 .. n - 1
      /\ \A b \in active : b # a => R(b) # R(a)
  BY RankFacts
<1>2. m \in 0 .. n - 1 /\ R(a) = m
  BY <1>1, ModFact
<1>3. m1 = IF m + 1 = n THEN 0 ELSE m + 1
  <2> HIDE DEF n, m
  <2> QED  BY <1>1, <1>2
<1>4. PICK s \in 0 .. n - 1 : \A b \in active :
        t[b] = IF InArc(R(b), s, m) THEN 1 ELSE 0
  BY DEF InTurn
<1>5. /\ \A b \in Ids \ active : t[b] = 0
      /\ \A b \in Ids : now[b] = IF b = a THEN t[a] + 1 ELSE t[b]
      /\ active \subseteq Ids
  BY DEF InTurn
<1> HIDE DEF n, m, m1, R
<1>6. \A b \in active :
        now[b] = IF InArc(R(b), s, m) \/ R(b) = m THEN 1 ELSE 0
  BY <1>1, <1>2, <1>4, <1>5 DEF InArc
<1>7. \A b \in Ids \ active : u[b] = 0
  BY <1>5
<1>8. \E x \in 0 .. n - 1 : \A b \in active : u[b] = IF InArc(R(b), x, m1) THEN 1 ELSE 0
  <2>1. CASE \A b \in active : now[b] > 0
    <3>1. \A b \in active : u[b] = 0
      BY <1>5, <1>6, <2>1
    <3>2. m1 \in 0 .. n - 1
      BY <1>1, <1>2, <1>3
    <3>3. \A b \in active : ~InArc(R(b), m1, m1)
      BY <1>1, <3>2 DEF InArc
    <3> QED  BY <3>1, <3>2, <3>3
  <2>2. CASE ~\A b \in active : now[b] > 0
    <3>1. u = now
      BY <2>2
    <3>2. PICK c \in active : ~InArc(R(c), s, m) /\ R(c) # m
      BY <1>6, <2>2
    <3>3. \A b \in active : (InArc(R(b), s, m) \/ R(b) = m) <=> InArc(R(b), s, m1)
      BY <1>1, <1>2, <1>3, <3>2 DEF InArc
    <3> QED  BY <1>6, <3>1, <3>3
  <2> QED  BY <2>1, <2>2
<1>9. InTurn(active, m + 1, u)
  BY <1>7, <1>8 DEF InTurn, n, m1, R
<1> QED  BY <1>9 DEF m, n

\* A step of w after which its turns start anew if its active accounts changed.
LEMMA NewTurnsInTurn ==
  ASSUME IInv, IInv', NEW w \in Workers, NextInTurn(w), NewTurns(w),
         rrIndex'[w] = rrIndex[w]
  PROVE  NextInTurn(w)'
<1> DEFINE active == Healthy(accounts'[w])
<1>1. active \in SUBSET Ids /\ rrIndex'[w] \in Nat
  <2>1. accounts'[w] \in Table /\ rrIndex'[w] \in 0 .. Cardinality(Ids)
    BY DEF IInv, Typed
  <2>2. Cardinality(Ids) \in Nat
    BY AccountsAssumption, FS_CardinalityType
  <2> QED  BY <2>1, <2>2, TableFacts DEF Healthy
<1>2. CASE active = Healthy(accounts[w])
  BY <1>2 DEF NewTurns, NextInTurn, InTurn
<1>3. CASE active # Healthy(accounts[w])
  <2>1. \A b \in Ids : turns'[w][b] = 0
    BY <1>3 DEF NewTurns, Never, IInv, Typed
  <2> HIDE DEF active
  <2>2. InTurn(active, rrIndex'[w], turns'[w])
    BY <1>1, <2>1, NoTurnsInTurn
  <2> QED  BY <2>2 DEF NextInTurn, active
<1> QED  BY <1>2, <1>3

\* A worker that a step leaves alone.
LEMMA LeftAlone ==
  ASSUME NEW w \in Workers, NextInTurn(w),
         Healthy(accounts'[w]) = Healthy(accounts[w]),
         rrIndex'[w] = rrIndex[w], turns'[w] = turns[w]
  PROVE  NextInTurn(w)'
  BY DEF NextInTurn, InTurn

LEMMA PickInTurn ==
  ASSUME IInv, NEW w \in Workers, NextInTurn(w), accounts' = accounts,
         PickNext(w, Healthy(accounts[w]))
  PROVE  NextInTurn(w)'
<1> DEFINE active == Healthy(accounts[w])
           index  == rrIndex[w]
           t      == turns[w]
<1>1. PICK a \in active :
        /\ Rank(a, active) = index % Cardinality(active)
        /\ rrIndex' = [rrIndex EXCEPT ![w] = (index % Cardinality(active)) + 1]
        /\ turns' = [turns EXCEPT ![w] = TurnsAfter(w, a, active)]
  BY DEF PickNext, Rank
<1>2. active \in SUBSET Ids /\ index \in Nat /\ t \in [Ids -> Nat]
  <2>1. accounts[w] \in Table /\ index \in 0 .. Cardinality(Ids) /\ t \in [Ids -> Nat]
    BY DEF IInv, Typed
  <2>2. Cardinality(Ids) \in Nat
    BY AccountsAssumption, FS_CardinalityType
  <2> QED  BY <2>1, <2>2, TableFacts DEF Healthy
<1>3. InTurn(active, index, t)
  BY DEF NextInTurn
<1> DEFINE now == [t EXCEPT ![a] = @ + 1]
           u   == TurnsAfter(w, a, active)
<1>4. u = IF \A b \in active : now[b] > 0
          THEN [b \in Ids |-> IF b \in active THEN now[b] - 1 ELSE 0]
          ELSE now
  BY DEF TurnsAfter
<1>5. now = [t EXCEPT ![a] = @ + 1]
  OBVIOUS
<1>6. /\ rrIndex'[w] = (index % Cardinality(active)) + 1
      /\ turns'[w] = u
  BY <1>1 DEF IInv, Typed
<1> HIDE DEF active, index, t, now, u
<1>7. InTurn(active, (index % Cardinality(active)) + 1, u)
  BY <1>1, <1>2, <1>3, <1>4, <1>5, ArcGrows
<1>8. InTurn(active, rrIndex'[w], turns'[w])
  BY <1>6, <1>7
<1> QED  BY <1>8 DEF NextInTurn, active

LEMMA InTurnOfStep ==
  ASSUME IInv, IInv', NEW w \in Workers, NextInTurn(w), Step(w)
  PROVE  NextInTurn(w)'
<1>1. ASSUME NewTurns(w), rrIndex'[w] = rrIndex[w] PROVE NextInTurn(w)'
  BY <1>1, NewTurnsInTurn
<1>2. CASE Get(w)
  <2>1. CASE PickNext(w, Healthy(accounts[w]))
    BY <1>2, <2>1, PickInTurn DEF Get
  <2>2. CASE UNCHANGED <<rrIndex, turns>>
    BY <1>2, <2>2, LeftAlone DEF Get
  <2> QED  BY <1>2, <2>1, <2>2 DEF Get
<1>3. CASE SweepEnds(w) \/ Reload(w)
  BY <1>3, LeftAlone DEF SweepEnds, Reload
<1>4. CASE Start(w)
  <2>1. /\ Healthy(accounts[w]) = {}
        /\ rrIndex'[w] = rrIndex[w] /\ turns'[w] = turns[w]
    BY <1>4, EmptyType DEF Start, IInv, Forgotten, Healthy
  <2>2. \A b \in Ids : turns'[w][b] = 0
    BY <2>1 DEF NextInTurn, InTurn
  <2>3. Healthy(accounts'[w]) \in SUBSET Ids /\ rrIndex'[w] \in Nat
    <3>1. accounts'[w] \in Table /\ rrIndex'[w] \in 0 .. Cardinality(Ids)
      BY DEF IInv, Typed
    <3>2. Cardinality(Ids) \in Nat
      BY AccountsAssumption, FS_CardinalityType
    <3> QED  BY <3>1, <3>2, TableFacts DEF Healthy
  <2>4. InTurn(Healthy(accounts'[w]), rrIndex'[w], turns'[w])
    BY <2>2, <2>3, NoTurnsInTurn
  <2> QED  BY <2>4 DEF NextInTurn
<1>5. CASE Ends(w)
  <2>1. accounts'[w] = Empty /\ turns'[w] = Never
    BY <1>5 DEF Ends, IInv, Typed
  <2>2. Healthy(accounts'[w]) = {} /\ \A b \in Ids : turns'[w][b] = 0
    BY <2>1, EmptyType DEF Healthy, Never
  <2> QED  BY <2>2 DEF NextInTurn, InTurn
<1>6. CASE \E a \in deployment.ids : \/ Add(w, a)
                                    \/ Remove(w, a)
                                    \/ \E st \in Status : Mark(w, a, st)
  BY <1>1, <1>6 DEF Add, Remove, Mark
<1>7. CASE \E a \in deployment.ids, kind \in {"sweep", "get"} :
             Recover(w, kind, a) \/ RecoverRaises(w, kind, a)
  BY <1>1, <1>7 DEF Recover, RecoverRaises, RecoversNext
<1>8. CASE Load(w) \/ LoadRaises(w)
  BY <1>1, <1>5, <1>8 DEF Load, LoadRaises, LoadsNext
<1>9. CASE Stop(w)
  BY <1>5, <1>9 DEF Stop
<1> QED
  BY <1>2, <1>3, <1>4, <1>6, <1>7, <1>8, <1>9 DEF Step

\* The memory of the other workers is their own.
LEMMA OthersAlone ==
  ASSUME IInv, NEW v \in Workers, Step(v), NEW w \in Workers \ {v}
  PROVE  /\ accounts'[w] = accounts[w]
         /\ rrIndex'[w] = rrIndex[w]
         /\ turns'[w] = turns[w]
<1>1. /\ accounts \in [Workers -> Table]
      /\ rrIndex \in [Workers -> 0 .. Cardinality(Ids)]
      /\ turns \in [Workers -> [Ids -> Nat]]
  BY DEF IInv, Typed
<1>2. ASSUME NewTurns(v) PROVE turns'[w] = turns[w]
  BY <1>1, <1>2 DEF NewTurns
<1>3. CASE Get(v)
  BY <1>1, <1>3 DEF Get, PickNext
<1>4. CASE SweepEnds(v) \/ Reload(v) \/ Start(v)
  BY <1>1, <1>4 DEF SweepEnds, Reload, Start
<1>5. CASE Ends(v)
  BY <1>1, <1>5 DEF Ends
<1>6. CASE \E a \in deployment.ids : \/ Add(v, a)
                                    \/ Remove(v, a)
                                    \/ \E st \in Status : Mark(v, a, st)
  BY <1>1, <1>2, <1>6 DEF Add, Remove, Mark
<1>7. CASE \E a \in deployment.ids, kind \in {"sweep", "get"} :
             Recover(v, kind, a) \/ RecoverRaises(v, kind, a)
  BY <1>1, <1>2, <1>7 DEF Recover, RecoverRaises, RecoversNext
<1>8. CASE Load(v) \/ LoadRaises(v)
  BY <1>1, <1>2, <1>5, <1>8 DEF Load, LoadRaises, LoadsNext
<1>9. CASE Stop(v)
  BY <1>5, <1>9 DEF Stop
<1> QED
  BY <1>3, <1>4, <1>6, <1>7, <1>8, <1>9 DEF Step

LEMMA InTurnStep ==
  IInv /\ (\A w \in Workers : NextInTurn(w)) /\ [Next]_vars
    => \A w \in Workers : NextInTurn(w)'
<1> SUFFICES ASSUME IInv, \A w \in Workers : NextInTurn(w), [Next]_vars, NEW w \in Workers
             PROVE  NextInTurn(w)'
  OBVIOUS
<1>1. IInv'
  BY StepKeeps
<1>2. ASSUME NEW v \in Workers, Step(v) PROVE NextInTurn(w)'
  <2>1. CASE v = w
    BY <1>1, <1>2, <2>1, InTurnOfStep
  <2>2. CASE v # w
    BY <1>2, <2>2, OthersAlone, LeftAlone
  <2> QED  BY <2>1, <2>2
<1>3. CASE Tick
  <2>1. accounts[w] \in Table
    BY DEF IInv, Typed
  <2>2. Healthy(accounts'[w]) = Healthy(accounts[w])
    BY <1>3, <2>1, AgedFacts DEF Tick, Healthy
  <2> QED  BY <1>3, <2>2, LeftAlone DEF Tick
<1>4. CASE UNCHANGED vars
  BY <1>4, LeftAlone DEF vars, state
<1>5. deployment.workers \subseteq Workers
  BY AccountsAssumption DEF IInv, Typed, Deployment
<1> QED  BY <1>2, <1>3, <1>4, <1>5 DEF Next

\* round_robin takes turns although _rr_index outlives every change of the
\* accounts it counts: for any accounts and workers, and whatever recoveries,
\* reloads and removals come in between, while the active accounts of a worker
\* stay the same it picks none of them twice more than another.
THEOREM TurnsAreTaken == Spec => []TurnsTaken
<1> DEFINE AllInTurn == \A w \in Workers : NextInTurn(w)
<1>1. Init => AllInTurn
  <2> SUFFICES ASSUME Init, NEW w \in Workers PROVE NextInTurn(w)
    OBVIOUS
  <2>1. Healthy(accounts[w]) = {} /\ \A b \in Ids : turns[w][b] = 0
    BY EmptyType DEF Init, Healthy, Never
  <2> QED  BY <2>1 DEF NextInTurn, InTurn
<1>2. IInv /\ AllInTurn => TurnsTaken
  <2> SUFFICES ASSUME IInv, NEW w \in Workers, NextInTurn(w), NEW a \in DOMAIN accounts[w]
               PROVE  turns[w][a] <= 1
    BY DEF TurnsTaken
  <2>1. a \in Ids
    BY TableFacts DEF IInv, Typed
  <2> QED  BY <2>1 DEF NextInTurn, InTurn
<1>3. IInv /\ AllInTurn /\ [Next]_vars => AllInTurn'
  BY InTurnStep
<1> HIDE DEF AllInTurn
<1> QED  BY <1>1, <1>2, <1>3, Invariance, PTL DEF Spec
=============================================================================
