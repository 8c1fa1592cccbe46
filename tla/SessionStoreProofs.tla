-------------------------- MODULE SessionStoreProofs -------------------------
(***************************************************************************)
(* What holds of SessionStore for every set of workers and of keys, all     *)
(* TTLs, windows and intervals, in every deployment, and for any number of  *)
(* saves.                                                                  *)
(***************************************************************************)
EXTENDS SessionStore, TLAPS

-----------------------------------------------------------------------------
(* The inductive invariant.                                                *)

Locks  == [by : {None, "client", "sweep"}, key : Keys \cup {None}, ver : Nat]
Sweeps == [at : Keys \cup {None}, stale : SUBSET Keys, due : SUBSET Keys]

RowsTyped ==
  /\ DOMAIN rows \subseteq Keys
  /\ rows \in [DOMAIN rows -> Row]

LocalsTyped ==
  /\ lock \in [Workers -> Locks]
  /\ doomed \in [Workers -> SUBSET Keys]
  /\ sweep \in [Workers -> Sweeps]
  /\ queued \in [Workers -> BOOLEAN]
  /\ sleep \in [Workers -> 0 .. CheckInterval]
  /\ task \in [Workers -> BOOLEAN]

HistoryTyped ==
  /\ written \in [Keys -> Nat]
  /\ overtaken \subseteq Keys

Types == deployment \in Deployments /\ RowsTyped /\ LocalsTyped /\ HistoryTyped

\* Who is inside a hook works on data that nobody replaced since, although its
\* row may have left the store, unless another worker overtook it.
LockCurrent ==
  \A w \in Workers :
    lock[w] # Free =>
      /\ lock[w].key \in Keys
      /\ lock[w].key \notin overtaken =>
           lock[w].ver = written[lock[w].key] /\ written[lock[w].key] > 0

\* A worker that does not run refreshes nothing.
Absent == \A w \in Workers \ deployment.workers : lock[w] = Free

IInv == Types /\ LockCurrent /\ Absent /\ RowIsLatest

-----------------------------------------------------------------------------
(* Lemmas on the helpers.                                                  *)

LEMMA Deployed ==
  ASSUME Types
  PROVE  /\ deployment.workers \subseteq Workers /\ deployment.workers # {}
         /\ deployment.keys \subseteq Keys
BY StoreAssumption DEF Types, Deployment

LEMMA PutFacts ==
  ASSUME NEW k, NEW r, rows' = Put(rows, k, r)
  PROVE  /\ DOMAIN rows' = DOMAIN rows \cup {k}
         /\ rows'[k] = r
         /\ \A j \in DOMAIN rows' \ {k} : j \in DOMAIN rows /\ rows'[j] = rows[j]
BY DEF Put

LEMMA PutTyped ==
  ASSUME RowsTyped, NEW k \in Keys, NEW r \in Row, rows' = Put(rows, k, r)
  PROVE  RowsTyped'
<1>1. /\ DOMAIN rows' = DOMAIN rows \cup {k}
      /\ \A j \in DOMAIN rows' : rows'[j] = IF j = k THEN r ELSE rows[j]
      /\ rows' = [j \in DOMAIN rows \cup {k} |-> IF j = k THEN r ELSE rows[j]]
  BY DEF Put
<1> QED
  BY <1>1 DEF RowsTyped

LEMMA WithoutTyped ==
  ASSUME RowsTyped, NEW S, rows' = Without(rows, S)
  PROVE  /\ RowsTyped'
         /\ DOMAIN rows' = DOMAIN rows \ S
         /\ \A k \in DOMAIN rows' : rows'[k] = rows[k]
BY DEF RowsTyped, Without

LEMMA FreeIdle ==
  /\ Free \in Locks /\ Idle \in Sweeps
  /\ CheckInterval \in Nat \ {0} /\ CheckInterval \in 0 .. CheckInterval
  /\ Free.by = None /\ Free.by # "client" /\ Free.by # "sweep"
  /\ Idle.stale = {} /\ Idle.due = {} /\ Idle.at \notin Keys
BY StoreAssumption DEF Free, Idle, Locks, Sweeps, None

\* How a sweep of w goes on with the rest of its snapshot.
LEMMA SweepFacts ==
  ASSUME LocalsTyped, NEW w \in Workers,
         NEW stale \in SUBSET Keys, NEW due \in SUBSET Keys,
         SweepOn(w, stale, due)
  PROVE  /\ sweep' \in [Workers -> Sweeps]
         /\ sleep' \in [Workers -> 0 .. CheckInterval]
         /\ \A v \in Workers \ {w} : sweep'[v] = sweep[v] /\ sleep'[v] = sleep[v]
         /\ sweep'[w].stale = stale /\ sweep'[w].due = due
         /\ \/ stale \cup due = {} /\ sweep'[w] = Idle /\ sleep'[w] = CheckInterval
            \/ sweep'[w].at \in stale \cup due /\ sweep'[w] # Idle
<1>1. CASE /\ stale \cup due = {}
           /\ sweep' = [sweep EXCEPT ![w] = Idle]
           /\ sleep' = [sleep EXCEPT ![w] = CheckInterval]
  BY <1>1, FreeIdle DEF LocalsTyped
<1>2. ASSUME NEW k \in stale \cup due,
             sweep' = [sweep EXCEPT ![w] = [at |-> k, stale |-> stale, due |-> due]],
             sleep' = sleep
      PROVE  /\ sweep' \in [Workers -> Sweeps]
             /\ sleep' \in [Workers -> 0 .. CheckInterval]
             /\ \A v \in Workers \ {w} : sweep'[v] = sweep[v] /\ sleep'[v] = sleep[v]
             /\ sweep'[w].stale = stale /\ sweep'[w].due = due
             /\ sweep'[w].at \in stale \cup due /\ sweep'[w] # Idle
  <2> DEFINE r == [at |-> k, stale |-> stale, due |-> due]
  <2>1. r \in Sweeps /\ r.at = k /\ r.stale = stale /\ r.due = due
    BY DEF Sweeps
  <2>2. r # Idle
    BY <2>1, FreeIdle
  <2> HIDE DEF r
  <2>3. sweep' = [sweep EXCEPT ![w] = r]
    BY <1>2 DEF r
  <2> QED
    BY <1>2, <2>1, <2>2, <2>3 DEF LocalsTyped
<1> QED
  BY <1>1, <1>2 DEF SweepOn

\* The same for a sweep that is over with the key it has in hand.
LEMMA SweepPasses ==
  ASSUME LocalsTyped, NEW w \in Workers,
         SweepOn(w, sweep[w].stale, sweep[w].due \ {sweep[w].at})
  PROVE  /\ sweep'[w].stale = sweep[w].stale
         /\ sweep'[w].due = sweep[w].due \ {sweep[w].at}
<1> DEFINE stale == sweep[w].stale
           due == sweep[w].due \ {sweep[w].at}
<1>1. stale \in SUBSET Keys /\ due \in SUBSET Keys /\ SweepOn(w, stale, due)
  BY DEF LocalsTyped, Sweeps
<1> HIDE DEF stale, due
<1>2. sweep'[w].stale = stale /\ sweep'[w].due = due
  BY <1>1, SweepFacts
<1> QED
  BY <1>2 DEF stale, due

LEMMA ExpiredFacts ==
  ASSUME RowsTyped, NEW ks
  PROVE  /\ ExpiredOf(ks) \in SUBSET Keys
         /\ \A k \in ExpiredOf(ks) : k \in DOMAIN rows /\ Expired(k) /\ k \in ks
         /\ \A k \in ks \cap DOMAIN rows : Expired(k) => k \in ExpiredOf(ks)
BY DEF RowsTyped, ExpiredOf

LEMMA HookFacts ==
  ASSUME RowsTyped, LocalsTyped, NEW w \in Workers, NEW k \in DOMAIN rows,
         NEW who \in {"client", "sweep"}, CallHook(w, who, k)
  PROVE  /\ lock' \in [Workers -> Locks]
         /\ \A v \in Workers \ {w} : lock'[v] = lock[v]
         /\ lock'[w].by = who /\ lock'[w].key = k /\ lock'[w].ver = rows[k].ver
<1> DEFINE r == [by |-> who, key |-> k, ver |-> rows[k].ver]
<1>1. r \in Locks
  BY DEF RowsTyped, Row, Locks
<1>2. lock' = [lock EXCEPT ![w] = r]
  BY DEF CallHook
<1>3. r.by = who /\ r.key = k /\ r.ver = rows[k].ver
  OBVIOUS
<1> HIDE DEF r
<1> QED
  BY <1>1, <1>2, <1>3 DEF LocalsTyped

-----------------------------------------------------------------------------
(* Types, and what a step of one worker leaves alone.                       *)

\* A step of w does not touch what is local to the others.
Apart(w) ==
  \A v \in Workers \ {w} :
    /\ lock'[v] = lock[v]
    /\ doomed'[v] = doomed[v]
    /\ sweep'[v] = sweep[v]
    /\ sleep'[v] = sleep[v]
    /\ task'[v] = task[v]

LEMMA HookEnds ==
  ASSUME LocalsTyped, NEW w \in Workers, Release(w)
  PROVE  /\ lock' \in [Workers -> Locks] /\ queued' \in [Workers -> BOOLEAN]
         /\ \A v \in Workers \ {w} : lock'[v] = lock[v]
         /\ lock'[w] = Free
BY FreeIdle DEF LocalsTyped, Release

LEMMA GoOnFacts ==
  ASSUME LocalsTyped, NEW w \in Workers, GoOn(w)
  PROVE  /\ sweep' \in [Workers -> Sweeps]
         /\ sleep' \in [Workers -> 0 .. CheckInterval]
         /\ \A v \in Workers \ {w} : sweep'[v] = sweep[v] /\ sleep'[v] = sleep[v]
<1>1. sweep[w].stale \in SUBSET Keys /\ sweep[w].due \ {sweep[w].at} \in SUBSET Keys
  BY DEF LocalsTyped, Sweeps
<1>2. CASE UNCHANGED <<sweep, sleep>>
  BY <1>2 DEF LocalsTyped
<1>3. CASE SweepOn(w, sweep[w].stale, sweep[w].due \ {sweep[w].at})
  BY <1>1, <1>3, SweepFacts
<1> QED
  BY <1>2, <1>3 DEF GoOn

LEMMA StepTyped ==
  ASSUME Types, LockCurrent, NEW w \in Workers, Step(w), deployment' = deployment
  PROVE  Types' /\ Apart(w)
<1>0. /\ deployment \in Deployments /\ RowsTyped /\ LocalsTyped /\ HistoryTyped
      /\ deployment.keys \subseteq Keys
  BY Deployed DEF Types
<1>k. /\ sweep[w].stale \in SUBSET Keys /\ sweep[w].due \in SUBSET Keys
      /\ sweep[w].at \in Keys \cup {None} /\ doomed[w] \in SUBSET Keys
      /\ lock[w] \in Locks
  BY <1>0 DEF LocalsTyped, Sweeps
<1>1. ASSUME NEW k \in Keys, NEW ttl \in TTLs, Save(w, k, ttl) PROVE Types' /\ Apart(w)
  <2>1. PICK waited \in Delays(ttl) :
          rows' = Put(rows, k, [ver |-> written[k] + 1, left |-> ttl - waited])
    BY <1>1 DEF Save
  <2>2. ttl \in Nat /\ waited \in 0 .. ttl
    BY StoreAssumption DEF Delays
  <2> DEFINE r == [ver |-> written[k] + 1, left |-> ttl - waited]
  <2>3. r \in Row
    BY <1>0, <2>2 DEF HistoryTyped, Row
  <2> HIDE DEF r
  <2>4. RowsTyped'
    BY <1>0, <2>1, <2>3, PutTyped DEF r
  <2>5. HistoryTyped'
    BY <1>0, <1>1 DEF Save, Overtake, HistoryTyped
  <2> QED
    BY <1>0, <1>1, <2>4, <2>5 DEF Save, local, Types, LocalsTyped, Apart
<1>2. ASSUME NEW k \in Keys, Delete(w, k) PROVE Types' /\ Apart(w)
  <2>1. RowsTyped'
    BY <1>0, <1>2, WithoutTyped DEF Delete
  <2>2. HistoryTyped'
    BY <1>0, <1>2 DEF Delete, Overtake, HistoryTyped
  <2> QED
    BY <1>0, <1>2, <2>1, <2>2 DEF Delete, local, Types, LocalsTyped, Apart
<1>3. ASSUME NEW ks, Look(w, ks) PROVE Types' /\ Apart(w)
  <2>1. ExpiredOf(ks) \in SUBSET Keys
    BY <1>0, ExpiredFacts
  <2> QED
    BY <1>0, <1>3, <2>1 DEF Look, Types, RowsTyped, LocalsTyped, HistoryTyped, Apart
<1>4. CASE Drop(w)
  <2>1. PICK k \in doomed[w] :
          rows' = Without(rows, {k}) /\ doomed' = [doomed EXCEPT ![w] = @ \ {k}]
    BY <1>4 DEF Drop
  <2>2. RowsTyped'
    BY <1>0, <2>1, WithoutTyped
  <2>3. doomed' \in [Workers -> SUBSET Keys]
    BY <1>0, <1>k, <2>1 DEF LocalsTyped
  <2> QED
    BY <1>0, <1>4, <2>1, <2>2, <2>3 DEF Drop, Types, LocalsTyped, HistoryTyped, Apart
<1>5. ASSUME NEW k \in Keys, ClientRefresh(w, k) PROVE Types' /\ Apart(w)
  <2>1. CASE NeedsHook(k) /\ CallHook(w, "client", k) /\ UNCHANGED doomed
    <3>1. k \in DOMAIN rows
      BY <2>1 DEF NeedsHook
    <3>2. /\ lock' \in [Workers -> Locks]
          /\ \A v \in Workers \ {w} : lock'[v] = lock[v]
      BY <1>0, <2>1, <3>1, HookFacts
    <3> QED
      BY <1>0, <1>5, <2>1, <3>2
      DEF ClientRefresh, Types, RowsTyped, LocalsTyped, HistoryTyped, Apart
  <2>2. CASE doomed' = [doomed EXCEPT ![w] = ExpiredOf({k})] /\ UNCHANGED lock
    <3>1. ExpiredOf({k}) \in SUBSET Keys
      BY <1>0, ExpiredFacts
    <3> QED
      BY <1>0, <1>5, <2>2, <3>1
      DEF ClientRefresh, Types, RowsTyped, LocalsTyped, HistoryTyped, Apart
  <2> QED
    BY <1>5, <2>1, <2>2 DEF ClientRefresh
<1>6. CASE SweepStart(w)
  <2> DEFINE due == {k \in DOMAIN rows : NeedsHook(k)}
  <2>1. ExpiredOf(Keys) \in SUBSET Keys /\ due \in SUBSET Keys
    BY <1>0, ExpiredFacts DEF RowsTyped
  <2>2. SweepOn(w, ExpiredOf(Keys), due)
    BY <1>6 DEF SweepStart
  <2> HIDE DEF due
  <2>3. /\ sweep' \in [Workers -> Sweeps] /\ sleep' \in [Workers -> 0 .. CheckInterval]
        /\ \A v \in Workers \ {w} : sweep'[v] = sweep[v] /\ sleep'[v] = sleep[v]
    BY <1>0, <2>1, <2>2, SweepFacts
  <2> QED
    BY <1>0, <1>6, <2>3
    DEF SweepStart, Types, RowsTyped, LocalsTyped, HistoryTyped, Apart
<1>7. CASE SweepDrop(w)
  <2>1. RowsTyped'
    BY <1>0, <1>7, WithoutTyped DEF SweepDrop
  <2>2. sweep[w].stale \ {sweep[w].at} \in SUBSET Keys
    BY <1>k
  <2>3. /\ sweep' \in [Workers -> Sweeps] /\ sleep' \in [Workers -> 0 .. CheckInterval]
        /\ \A v \in Workers \ {w} : sweep'[v] = sweep[v] /\ sleep'[v] = sleep[v]
    BY <1>0, <1>k, <1>7, <2>2, SweepFacts DEF SweepDrop
  <2> QED
    BY <1>0, <1>7, <2>1, <2>3 DEF SweepDrop, Types, LocalsTyped, HistoryTyped, Apart
<1>8. CASE SweepRefresh(w)
  <2>1. /\ sweep[w].at \in sweep[w].due
        /\ UNCHANGED <<rows, doomed, queued, task, written, overtaken>>
    BY <1>8 DEF SweepRefresh
  <2>2. CASE /\ NeedsHook(sweep[w].at) /\ CallHook(w, "sweep", sweep[w].at)
             /\ UNCHANGED <<sweep, sleep>>
    <3>1. sweep[w].at \in DOMAIN rows
      BY <2>2 DEF NeedsHook
    <3>2. /\ lock' \in [Workers -> Locks]
          /\ \A v \in Workers \ {w} : lock'[v] = lock[v]
      BY <1>0, <2>2, <3>1, HookFacts
    <3> QED
      BY <1>0, <2>1, <2>2, <3>2 DEF Types, RowsTyped, LocalsTyped, HistoryTyped, Apart
  <2>3. CASE /\ sweep' = [sweep EXCEPT ![w].stale = @ \cup {sweep[w].at},
                                       ![w].due = @ \ {sweep[w].at}]
             /\ UNCHANGED <<lock, sleep>>
    <3>1. sweep' \in [Workers -> Sweeps] /\ \A v \in Workers \ {w} : sweep'[v] = sweep[v]
      BY <1>0, <1>k, <2>1, <2>3 DEF LocalsTyped, Sweeps
    <3> QED
      BY <1>0, <2>1, <2>3, <3>1 DEF Types, RowsTyped, LocalsTyped, HistoryTyped, Apart
  <2>4. CASE /\ SweepOn(w, sweep[w].stale, sweep[w].due \ {sweep[w].at})
             /\ UNCHANGED lock
    <3>1. sweep[w].due \ {sweep[w].at} \in SUBSET Keys
      BY <1>k
    <3>2. /\ sweep' \in [Workers -> Sweeps] /\ sleep' \in [Workers -> 0 .. CheckInterval]
          /\ \A v \in Workers \ {w} : sweep'[v] = sweep[v] /\ sleep'[v] = sleep[v]
      BY <1>0, <1>k, <2>4, <3>1, SweepFacts
    <3> QED
      BY <1>0, <2>1, <2>4, <3>2 DEF Types, RowsTyped, LocalsTyped, HistoryTyped, Apart
  <2> QED
    BY <1>8, <2>2, <2>3, <2>4 DEF SweepRefresh
<1>9. ASSUME Release(w), GoOn(w), UNCHANGED <<doomed, task, written>>,
             RowsTyped', overtaken' \subseteq Keys
      PROVE  Types' /\ Apart(w)
  <2>1. /\ lock' \in [Workers -> Locks] /\ queued' \in [Workers -> BOOLEAN]
        /\ \A v \in Workers \ {w} : lock'[v] = lock[v]
    BY <1>0, <1>9, HookEnds
  <2>2. /\ sweep' \in [Workers -> Sweeps] /\ sleep' \in [Workers -> 0 .. CheckInterval]
        /\ \A v \in Workers \ {w} : sweep'[v] = sweep[v] /\ sleep'[v] = sleep[v]
    BY <1>0, <1>9, GoOnFacts
  <2> QED
    BY <1>0, <1>9, <2>1, <2>2 DEF Types, LocalsTyped, HistoryTyped, Apart
<1>10. CASE HookOk(w)
  <2> DEFINE r == [ver |-> lock[w].ver, left |-> DefaultTTL]
  <2>1. r \in Row
    BY <1>k, StoreAssumption DEF Locks, Row
  <2>2. lock[w].key \in Keys
    BY <1>10 DEF HookOk, Release, LockCurrent
  <2>3. rows' = Put(rows, lock[w].key, r)
    BY <1>10 DEF HookOk
  <2> HIDE DEF r
  <2>4. RowsTyped'
    BY <1>0, <2>1, <2>2, <2>3, PutTyped
  <2>5. overtaken' \subseteq Keys
    BY <1>0, <1>10, <2>2 DEF HookOk, HistoryTyped
  <2> QED
    BY <1>9, <1>10, <2>4, <2>5 DEF HookOk
<1>11. CASE HookNone(w)
  <2>1. RowsTyped' /\ overtaken' \subseteq Keys
    BY <1>0, <1>11 DEF HookNone, RowsTyped, HistoryTyped
  <2> QED
    BY <1>9, <1>11, <2>1 DEF HookNone
<1>12. CASE HookRaises(w)
  <2>1. /\ lock' \in [Workers -> Locks] /\ queued' \in [Workers -> BOOLEAN]
        /\ \A v \in Workers \ {w} : lock'[v] = lock[v]
    BY <1>0, <1>12, HookEnds DEF HookRaises
  <2>2. /\ sweep' \in [Workers -> Sweeps] /\ sleep' \in [Workers -> 0 .. CheckInterval]
        /\ \A v \in Workers \ {w} : sweep'[v] = sweep[v] /\ sleep'[v] = sleep[v]
    BY <1>0, <1>12, FreeIdle DEF HookRaises, LocalsTyped
  <2> QED
    BY <1>0, <1>12, <2>1, <2>2
    DEF HookRaises, Types, RowsTyped, LocalsTyped, HistoryTyped, Apart
<1>13. CASE Stop(w)
  BY <1>0, <1>13, FreeIdle
  DEF Stop, Types, RowsTyped, LocalsTyped, HistoryTyped, Apart
<1>14. CASE Start(w)
  BY <1>0, <1>14, FreeIdle
  DEF Start, Types, RowsTyped, LocalsTyped, HistoryTyped, Apart
<1>15. CASE Restart(w)
  <2>1. LocalsTyped' /\ Apart(w)
    BY <1>0, <1>15, FreeIdle DEF Restart, LocalsTyped, Apart
  <2>2. CASE UNCHANGED <<rows, written, overtaken>>
    BY <1>0, <2>1, <2>2 DEF Types, RowsTyped, HistoryTyped
  <2>3. CASE rows' = Without(rows, Keys) /\ written' = [k \in Keys |-> 0] /\ overtaken' = {}
    BY <1>0, <2>1, <2>3, WithoutTyped DEF Types, HistoryTyped
  <2> QED
    BY <1>15, <2>2, <2>3 DEF Restart
<1> QED
  BY <1>0, <1>1, <1>2, <1>3, <1>4, <1>5, <1>6, <1>7, <1>8, <1>10, <1>11, <1>12,
     <1>13, <1>14, <1>15 DEF Step, Get, List

LEMMA TickTyped ==
  ASSUME Types, Tick, deployment' = deployment
  PROVE  /\ Types'
         /\ DOMAIN rows' = DOMAIN rows
         /\ \A k \in DOMAIN rows :
              /\ rows'[k].ver = rows[k].ver
              /\ rows'[k].left = IF rows[k].left > 0 THEN rows[k].left - 1 ELSE 0
<1>0. RowsTyped /\ LocalsTyped /\ HistoryTyped /\ deployment.workers \subseteq Workers
  BY Deployed DEF Types
<1>1. /\ rows' = [k \in DOMAIN rows |->
                    [rows[k] EXCEPT !.left = IF @ > 0 THEN @ - 1 ELSE 0]]
      /\ UNCHANGED <<lock, doomed, sweep, task, written, overtaken>>
  BY DEF Tick
<1>2. /\ DOMAIN rows' = DOMAIN rows
      /\ \A k \in DOMAIN rows :
           /\ rows'[k] \in Row
           /\ rows'[k].ver = rows[k].ver
           /\ rows'[k].left = IF rows[k].left > 0 THEN rows[k].left - 1 ELSE 0
  BY <1>0, <1>1 DEF RowsTyped, Row
<1>3. RowsTyped'
  BY <1>0, <1>1, <1>2 DEF RowsTyped
<1>4. sleep' \in [Workers -> 0 .. CheckInterval]
  <2>1. sleep' = [w \in Workers |-> IF w \in deployment.workers /\ Asleep(w)
                                    THEN sleep[w] - 1 ELSE sleep[w]]
    BY DEF Tick
  <2>2. \A w \in deployment.workers : Asleep(w) => sleep[w] > 0
    BY DEF Tick, Waits
  <2>3. \A w \in Workers : sleep[w] \in 0 .. CheckInterval
    BY <1>0 DEF LocalsTyped
  <2>4. \A w \in Workers :
          (IF w \in deployment.workers /\ Asleep(w) THEN sleep[w] - 1 ELSE sleep[w])
            \in 0 .. CheckInterval
    BY <2>2, <2>3, StoreAssumption
  <2> QED
    BY <2>1, <2>4
<1>5. queued' \in [Workers -> BOOLEAN]
  BY <1>0 DEF Tick, LocalsTyped
<1> QED
  BY <1>0, <1>1, <1>2, <1>3, <1>4, <1>5 DEF Types, LocalsTyped, HistoryTyped

-----------------------------------------------------------------------------
(* The invariant is inductive.                                             *)

\* After a step that writes nothing to a row, or only takes rows out, and that
\* lets go of locks or takes them with what is in a row.
LEMMA Kept ==
  ASSUME IInv, UNCHANGED <<written, overtaken>>,
         \A k \in DOMAIN rows' : k \in DOMAIN rows /\ rows'[k].ver = rows[k].ver,
         \A w \in Workers :
           \/ lock'[w] \in {Free, lock[w]}
           \/ lock'[w].key \in DOMAIN rows /\ lock'[w].ver = rows[lock'[w].key].ver
  PROVE  LockCurrent' /\ RowIsLatest'
<1>1. RowIsLatest'
  BY DEF IInv, RowIsLatest
<1>2. ASSUME NEW w \in Workers, lock'[w] # Free
      PROVE  /\ lock'[w].key \in Keys
             /\ lock'[w].key \notin overtaken =>
                  lock'[w].ver = written[lock'[w].key] /\ written[lock'[w].key] > 0
  <2>1. CASE lock'[w] = lock[w]
    BY <1>2, <2>1 DEF IInv, LockCurrent
  <2>2. CASE lock'[w].key \in DOMAIN rows /\ lock'[w].ver = rows[lock'[w].key].ver
    BY <2>2 DEF IInv, RowIsLatest, Types, RowsTyped
  <2> QED
    BY <1>2, <2>1, <2>2
<1> QED
  BY <1>1, <1>2 DEF LockCurrent

\* A client's write of k by w, which holds no lock: whoever else is about to
\* write k back is overtaken.
LEMMA ClientWrites ==
  ASSUME IInv, NEW w \in Workers, NEW k \in Keys, Locked(w), Overtake(w, k),
         lock' = lock, written' \in [Keys -> Nat],
         \A j \in Keys \ {k} : written'[j] = written[j],
         \A j \in DOMAIN rows' \ {k} : j \in DOMAIN rows /\ rows'[j] = rows[j],
         k \in DOMAIN rows' => rows'[k].ver = written'[k] /\ written'[k] > 0,
         DOMAIN rows' \subseteq Keys
  PROVE  LockCurrent' /\ RowIsLatest'
<1>1. \A j \in Keys \ {k} : j \notin overtaken' => j \notin overtaken
  BY DEF Overtake
<1>2. RowIsLatest'
  BY <1>1 DEF IInv, RowIsLatest
<1>3. ASSUME NEW v \in Workers, lock[v] # Free
      PROVE  /\ lock[v].key \in Keys
             /\ lock[v].key \notin overtaken' =>
                  lock[v].ver = written'[lock[v].key] /\ written'[lock[v].key] > 0
  <2>1. v # w
    BY <1>3 DEF Locked
  <2>2. lock[v].key = k => k \in overtaken'
    BY <2>1 DEF Overtake, InHand
  <2> QED
    BY <1>1, <1>3, <2>2 DEF IInv, LockCurrent
<1> QED
  BY <1>2, <1>3 DEF LockCurrent

LEMMA StepCurrent ==
  ASSUME IInv, NEW w \in deployment.workers, w \in Workers, Step(w), Types', Apart(w), deployment' = deployment
  PROVE  LockCurrent' /\ RowIsLatest'
<1>0. /\ Types /\ RowsTyped /\ LocalsTyped /\ HistoryTyped /\ RowsTyped' /\ HistoryTyped'
      /\ LocalsTyped'
      /\ deployment.keys \subseteq Keys
      /\ \A v \in Workers \ {w} : lock'[v] = lock[v]
  BY Deployed DEF IInv, Types, Apart
<1>1. ASSUME NEW k \in Keys, NEW ttl \in TTLs, Save(w, k, ttl)
      PROVE  LockCurrent' /\ RowIsLatest'
  <2>1. PICK waited \in Delays(ttl) :
          rows' = Put(rows, k, [ver |-> written[k] + 1, left |-> ttl - waited])
    BY <1>1 DEF Save
  <2>2. /\ written' \in [Keys -> Nat] /\ written'[k] = written[k] + 1 /\ written'[k] > 0
        /\ \A j \in Keys \ {k} : written'[j] = written[j]
    BY <1>0, <1>1 DEF Save, HistoryTyped
  <2> DEFINE r == [ver |-> written[k] + 1, left |-> ttl - waited]
  <2>r. rows' = Put(rows, k, r) /\ r.ver = written[k] + 1
    BY <2>1
  <2> HIDE DEF r
  <2>3. rows'[k].ver = written'[k]
    BY <2>2, <2>r, PutFacts
  <2>4. \A j \in DOMAIN rows' \ {k} : j \in DOMAIN rows /\ rows'[j] = rows[j]
    BY <2>r, PutFacts
  <2> QED
    BY <1>0, <1>1, <2>2, <2>3, <2>4, ClientWrites DEF Save, local, RowsTyped
<1>2. ASSUME NEW k \in Keys, Delete(w, k) PROVE LockCurrent' /\ RowIsLatest'
  <2>1. /\ written' \in [Keys -> Nat]
        /\ \A j \in Keys \ {k} : written'[j] = written[j]
    BY <1>0, <1>2 DEF Delete, HistoryTyped
  <2>2. /\ DOMAIN rows' = DOMAIN rows \ {k}
        /\ \A j \in DOMAIN rows' : rows'[j] = rows[j]
    BY <1>0, <1>2, WithoutTyped DEF Delete
  <2> QED
    BY <1>0, <1>2, <2>1, <2>2, ClientWrites DEF Delete, local, RowsTyped
<1>3. ASSUME UNCHANGED <<written, overtaken>>, rows' = rows, lock' = lock
      PROVE  LockCurrent' /\ RowIsLatest'
  BY <1>3, Kept
<1>4. ASSUME UNCHANGED <<written, overtaken>>, NEW S, rows' = Without(rows, S), lock' = lock
      PROVE  LockCurrent' /\ RowIsLatest'
  BY <1>0, <1>4, Kept, WithoutTyped
<1>5. ASSUME UNCHANGED <<written, overtaken>>, rows' = rows, lock'[w] \in {Free, lock[w]}
      PROVE  LockCurrent' /\ RowIsLatest'
  BY <1>0, <1>5, Kept
<1>6. ASSUME UNCHANGED <<written, overtaken>>, rows' = rows,
             NEW k \in DOMAIN rows, NEW who \in {"client", "sweep"}, CallHook(w, who, k)
      PROVE  LockCurrent' /\ RowIsLatest'
  <2>1. lock'[w].key = k /\ lock'[w].ver = rows[k].ver
    BY <1>0, <1>6, HookFacts
  <2> QED
    BY <1>0, <1>6, <2>1, Kept
<1>7. ASSUME NEW ks, Look(w, ks) PROVE LockCurrent' /\ RowIsLatest'
  BY <1>3, <1>7 DEF Look
<1>8. CASE Drop(w)
  BY <1>4, <1>8 DEF Drop
<1>9. ASSUME NEW k \in Keys, ClientRefresh(w, k) PROVE LockCurrent' /\ RowIsLatest'
  <2>1. CASE NeedsHook(k) /\ CallHook(w, "client", k)
    BY <1>6, <1>9, <2>1 DEF ClientRefresh, NeedsHook
  <2>2. CASE lock' = lock
    BY <1>3, <1>9, <2>2 DEF ClientRefresh
  <2> QED
    BY <1>9, <2>1, <2>2 DEF ClientRefresh
<1>10. CASE SweepStart(w)
  BY <1>3, <1>10 DEF SweepStart
<1>11. CASE SweepDrop(w)
  BY <1>4, <1>11 DEF SweepDrop
<1>12. CASE SweepRefresh(w)
  <2>1. CASE NeedsHook(sweep[w].at) /\ CallHook(w, "sweep", sweep[w].at)
    BY <1>6, <1>12, <2>1 DEF SweepRefresh, NeedsHook
  <2>2. CASE lock' = lock
    BY <1>3, <1>12, <2>2 DEF SweepRefresh
  <2> QED
    BY <1>12, <2>1, <2>2 DEF SweepRefresh
<1>13. CASE HookOk(w)
  <2> DEFINE k == lock[w].key
             r == [ver |-> lock[w].ver, left |-> DefaultTTL]
  <2>1. /\ rows' = Put(rows, k, r) /\ written' = written /\ lock[w] # Free
        /\ overtaken \subseteq overtaken'
    BY <1>13 DEF HookOk, Release
  <2>2. lock'[w] = Free
    BY <1>0, <1>13, HookEnds DEF HookOk
  <2>3. r.ver = lock[w].ver
    OBVIOUS
  <2>4. k \notin overtaken => r.ver = written[k] /\ written[k] > 0
    BY <2>1, <2>3 DEF IInv, LockCurrent
  <2> HIDE DEF k, r
  <2>p. /\ DOMAIN rows' = DOMAIN rows \cup {k} /\ rows'[k] = r
        /\ \A j \in DOMAIN rows' \ {k} : j \in DOMAIN rows /\ rows'[j] = rows[j]
    BY <2>1, PutFacts
  <2>5. RowIsLatest'
    BY <2>1, <2>4, <2>p DEF IInv, RowIsLatest
  <2>6. LockCurrent'
    BY <1>0, <2>1, <2>2 DEF IInv, LockCurrent
  <2> QED
    BY <2>5, <2>6
<1>14. CASE HookNone(w)
  <2>1. lock'[w] = Free
    BY <1>0, <1>14, HookEnds DEF HookNone
  <2> QED
    BY <1>5, <1>14, <2>1 DEF HookNone
<1>15. CASE HookRaises(w)
  <2>1. lock'[w] = Free
    BY <1>0, <1>15, HookEnds DEF HookRaises
  <2> QED
    BY <1>5, <1>15, <2>1 DEF HookRaises
<1>16. CASE Stop(w)
  <2>1. lock'[w] \in {Free, lock[w]}
    BY <1>0, <1>16 DEF Stop, LocalsTyped
  <2> QED
    BY <1>5, <1>16, <2>1 DEF Stop
<1>17. CASE Start(w)
  BY <1>3, <1>17 DEF Start
<1>18. CASE Restart(w)
  <2>1. lock'[w] = Free
    BY <1>0, <1>18 DEF Restart, LocalsTyped
  <2>2. CASE deployment.durable
    BY <1>5, <1>18, <2>1, <2>2 DEF Restart
  <2>3. CASE ~deployment.durable
    <3>1. rows' = Without(rows, Keys)
      BY <1>18, <2>3 DEF Restart
    <3>2. DOMAIN rows' = {}
      BY <1>0, <3>1, WithoutTyped DEF RowsTyped
    <3>3. \A v \in Workers : lock'[v] = Free
      <4>1. \A v \in deployment.workers : v = w
        BY <2>3, StoreAssumption DEF IInv, Types, Deployment
      <4>2. \A v \in Workers \ {w} : lock[v] = Free
        BY <4>1 DEF IInv, Absent
      <4> QED
        BY <1>0, <2>1, <4>2
    <3> QED
      BY <3>2, <3>3 DEF LockCurrent, RowIsLatest
  <2> QED
    BY <2>2, <2>3
<1> QED
  BY <1>0, <1>1, <1>2, <1>7, <1>8, <1>9, <1>10, <1>11, <1>12, <1>13, <1>14, <1>15,
     <1>16, <1>17, <1>18 DEF Step, Get, List

LEMMA Inductive == IInv /\ [Next]_vars => IInv'
<1> SUFFICES ASSUME IInv, [Next]_vars PROVE IInv'
  OBVIOUS
<1>0. Types /\ deployment.workers \subseteq Workers
  BY Deployed DEF IInv
<1>1. ASSUME NEW w \in deployment.workers, Step(w), deployment' = deployment
      PROVE  IInv'
  <2>1. Types' /\ Apart(w)
    BY <1>0, <1>1, StepTyped DEF IInv
  <2>2. LockCurrent' /\ RowIsLatest'
    BY <1>0, <1>1, <2>1, StepCurrent
  <2>3. Absent'
    BY <1>0, <1>1, <2>1 DEF IInv, Absent, Apart
  <2> QED
    BY <2>1, <2>2, <2>3 DEF IInv
<1>2. ASSUME Tick, deployment' = deployment PROVE IInv'
  <2>1. /\ Types' /\ DOMAIN rows' = DOMAIN rows
        /\ \A k \in DOMAIN rows : rows'[k].ver = rows[k].ver
    BY <1>0, <1>2, TickTyped
  <2>2. UNCHANGED <<lock, written, overtaken>>
    BY <1>2 DEF Tick
  <2>3. LockCurrent' /\ RowIsLatest'
    BY <2>1, <2>2, Kept
  <2> QED
    BY <1>2, <2>1, <2>2, <2>3 DEF IInv, Absent
<1>3. CASE UNCHANGED vars
  BY <1>3 DEF vars, state, local, IInv, Types, RowsTyped, LocalsTyped, HistoryTyped,
              LockCurrent, Absent, RowIsLatest
<1> QED
  BY <1>1, <1>2, <1>3 DEF Next

LEMMA Invariant == Spec => []IInv
<1>1. ASSUME Init PROVE IInv
  <2>1. LocalsTyped /\ HistoryTyped
    BY <1>1, FreeIdle DEF Init, LocalsTyped, HistoryTyped
  <2>2. RowsTyped /\ DOMAIN rows = {}
    BY <1>1 DEF Init, RowsTyped
  <2> QED
    BY <1>1, <2>1, <2>2 DEF Init, IInv, Types, LockCurrent, Absent, RowIsLatest
<1> QED
  BY <1>1, Inductive, PTL DEF Spec

-----------------------------------------------------------------------------
(* Theorems.                                                               *)

\* Rows, locks, sweeps and sleeps stay well typed, whatever hooks do.
THEOREM TypeCorrect == Spec => []TypeOK
<1>1. IInv => TypeOK
  BY DEF IInv, Types, RowsTyped, LocalsTyped, HistoryTyped, TypeOK, Locks, Sweeps
<1> QED
  BY <1>1, Invariant, PTL

\* Whatever hooks, stops and restarts do, for any number of workers on one
\* database: a row that is present holds the data last saved under its key, and
\* a deleted row does not come back, unless one worker wrote the key while
\* another one was between reading and writing it.  Within a worker the lock,
\* held across the hook, is what makes it so (LockCurrent).
THEOREM NoSaveUndone == Spec => []RowIsLatest
<1>1. IInv => RowIsLatest
  BY DEF IInv
<1> QED
  BY <1>1, Invariant, PTL

\* A worker that is alone on its database (or has its rows in memory) is never
\* overtaken, so that the exception above does not arise.
THEOREM AloneNotOvertaken ==
  ASSUME \A v, w \in Workers : v = w
  PROVE  Spec => [](overtaken = {})
<1> DEFINE Never == overtaken = {}
<1>1. Init => Never
  BY DEF Init
<1>2. IInv /\ Never /\ [Next]_vars => Never'
  <2> SUFFICES ASSUME IInv, overtaken = {}, [Next]_vars PROVE overtaken' = {}
    OBVIOUS
  <2>1. ASSUME NEW w \in deployment.workers, Step(w) PROVE overtaken' = {}
    <3>1. Workers \ {w} = {}
      BY Deployed DEF IInv
    <3> QED
      BY <2>1, <3>1
      DEF Step, Save, Delete, Overtake, Get, List, Look, Drop, ClientRefresh, SweepStart,
          SweepDrop, SweepRefresh, HookOk, HookNone, HookRaises, Stop, Start, Restart
  <2>2. CASE Tick
    BY <2>2 DEF Tick
  <2>3. CASE UNCHANGED vars
    BY <2>3 DEF vars, state
  <2> QED
    BY <2>1, <2>2, <2>3 DEF Next
<1>3. Spec => []Never
  <2> HIDE DEF Never
  <2> QED
    BY <1>1, <1>2, Invariant, PTL DEF Spec
<1> QED
  BY <1>3

-----------------------------------------------------------------------------
(* The sweep of the placeholder hook.                                      *)

\* What a worker is about to delete is still expired, unless another worker
\* wrote it meanwhile; it is none of the rows that its sweep has still to
\* refresh, and no client's refresh is under way together with a sweep.
SnapshotHolds ==
  \A w \in Workers :
    /\ \A k \in Condemned(w) \ overtaken : k \in DOMAIN rows => Expired(k)
    /\ sweep[w].stale \cap sweep[w].due = {}
    /\ lock[w].by = "sweep" => lock[w].key = sweep[w].at /\ sweep[w].at \in sweep[w].due
    /\ lock[w].by = "client" => sweep[w] = Idle

\* The same of one worker, whose rows are condemned by what stands for its
\* snapshot after the step.
Holds(w) ==
  /\ sweep'[w].stale \cap sweep'[w].due = {}
  /\ lock'[w].by = "sweep" => lock'[w].key = sweep'[w].at /\ sweep'[w].at \in sweep'[w].due
  /\ lock'[w].by = "client" => sweep'[w] = Idle

\* A step of w that condemns only expired rows of the store, and makes no row
\* fresh that another worker condemned.
LEMMA SnapshotLemma ==
  ASSUME NEW w \in Workers, SnapshotHolds, Apart(w), Holds(w),
         \A v \in Workers \ {w} : \A k \in Condemned(v) \ overtaken' :
           k \in DOMAIN rows' =>
             k \in DOMAIN rows /\ k \notin overtaken /\ rows'[k].left = rows[k].left,
         \A k \in (doomed'[w] \cup sweep'[w].stale) \ overtaken' :
           k \in DOMAIN rows' => rows'[k].left = 0
  PROVE  SnapshotHolds'
<1>1. ASSUME NEW v \in Workers
      PROVE  /\ \A k \in (doomed'[v] \cup sweep'[v].stale) \ overtaken' :
                  k \in DOMAIN rows' => rows'[k].left = 0
             /\ sweep'[v].stale \cap sweep'[v].due = {}
             /\ lock'[v].by = "sweep" =>
                  lock'[v].key = sweep'[v].at /\ sweep'[v].at \in sweep'[v].due
             /\ lock'[v].by = "client" => sweep'[v] = Idle
  <2>1. CASE v = w
    BY <2>1 DEF Holds
  <2>2. CASE v # w
    <3>1. /\ doomed'[v] = doomed[v] /\ sweep'[v] = sweep[v] /\ lock'[v] = lock[v]
      BY <2>2 DEF Apart
    <3>2. \A k \in Condemned(v) \ overtaken : k \in DOMAIN rows => rows[k].left = 0
      BY DEF SnapshotHolds, Expired
    <3>3. \A k \in Condemned(v) \ overtaken' : k \in DOMAIN rows' => rows'[k].left = 0
      BY <2>2, <3>2
    <3> QED
      BY <3>1, <3>3 DEF SnapshotHolds, Condemned
  <2> QED
    BY <2>1, <2>2
<1> QED
  BY <1>1 DEF SnapshotHolds, Condemned, Expired

\* Rows that a step leaves as they are, or takes out, disturb nobody's snapshot.
LEMMA SnapshotKept ==
  ASSUME NEW w \in Workers, SnapshotHolds, Apart(w), Holds(w), overtaken' = overtaken,
         \A k \in DOMAIN rows' : k \in DOMAIN rows /\ rows'[k] = rows[k],
         \A k \in (doomed'[w] \cup sweep'[w].stale) :
           k \in Condemned(w) \/ (k \in DOMAIN rows => Expired(k))
  PROVE  SnapshotHolds'
<1>1. \A k \in Condemned(w) \ overtaken : k \in DOMAIN rows => Expired(k)
  BY DEF SnapshotHolds
<1>2. \A k \in (doomed'[w] \cup sweep'[w].stale) \ overtaken' :
        k \in DOMAIN rows' => rows'[k].left = 0
  BY <1>1 DEF Expired
<1> QED
  BY <1>2, SnapshotLemma

\* What a write by a client of w does to the snapshots of the others.
LEMMA OvertakeFacts ==
  ASSUME NEW w \in Workers, NEW k, Overtake(w, k)
  PROVE  /\ \A j : j # k => (j \in overtaken' <=> j \in overtaken)
         /\ \A v \in Workers \ {w} : k \in Condemned(v) => k \in overtaken'
BY DEF Overtake, InHand

LEMMA SnapshotStep ==
  ASSUME IInv, SnapshotHolds, ~deployment.awaits, NEW w \in Workers, Step(w), Apart(w)
  PROVE  SnapshotHolds' /\ (deployment.durable => OnlyExpiredDropped)
<1>0. /\ Types /\ RowsTyped /\ LocalsTyped /\ HistoryTyped
      /\ deployment.keys \subseteq Keys
  BY Deployed DEF IInv, Types
<1>k. /\ sweep[w].stale \in SUBSET Keys /\ sweep[w].due \in SUBSET Keys
      /\ sweep[w].stale \cap sweep[w].due = {}
      /\ Condemned(w) = doomed[w] \cup sweep[w].stale
  BY <1>0 DEF LocalsTyped, Sweeps, SnapshotHolds, Condemned
<1>m. MayRun(w) => lock[w] = Free /\ sweep[w] = Idle /\ doomed[w] = {}
  BY DEF MayRun, Busy
<1>f. Free.by # "client" /\ Free.by # "sweep" /\ Idle.stale = {} /\ Idle.due = {}
  BY FreeIdle
<1>c. Locked(w) => Condemned(w) = {}
  BY <1>k, <1>m, <1>f DEF Locked
<1>1. ASSUME NEW k \in Keys, NEW ttl \in TTLs, Save(w, k, ttl)
      PROVE  SnapshotHolds' /\ OnlyExpiredDropped
  <2>1. PICK waited \in Delays(ttl) :
          rows' = Put(rows, k, [ver |-> written[k] + 1, left |-> ttl - waited])
    BY <1>1 DEF Save
  <2> DEFINE r == [ver |-> written[k] + 1, left |-> ttl - waited]
  <2>r. rows' = Put(rows, k, r)
    BY <2>1
  <2> HIDE DEF r
  <2>2. /\ DOMAIN rows' = DOMAIN rows \cup {k}
        /\ \A j \in DOMAIN rows' \ {k} : j \in DOMAIN rows /\ rows'[j] = rows[j]
    BY <2>r, PutFacts
  <2>3. /\ Locked(w) /\ Overtake(w, k) /\ UNCHANGED <<lock, doomed, sweep>>
    BY <1>1 DEF Save, local
  <2>4. Holds(w)
    BY <1>m, <1>f, <2>3 DEF Holds, Locked
  <2>5. SnapshotHolds'
    BY <1>k, <1>c, <2>2, <2>3, <2>4, OvertakeFacts, SnapshotLemma
  <2> QED
    BY <2>2, <2>5 DEF OnlyExpiredDropped
<1>2. ASSUME NEW k \in Keys, k \in Deletable, Delete(w, k)
      PROVE  SnapshotHolds' /\ OnlyExpiredDropped
  <2>1. /\ DOMAIN rows' = DOMAIN rows \ {k}
        /\ \A j \in DOMAIN rows' : rows'[j] = rows[j]
    BY <1>0, <1>2, WithoutTyped DEF Delete
  <2>3. /\ Locked(w) /\ Overtake(w, k) /\ UNCHANGED <<lock, doomed, sweep>>
    BY <1>2 DEF Delete, local
  <2>4. Holds(w)
    BY <1>m, <1>f, <2>3 DEF Holds, Locked
  <2>5. SnapshotHolds'
    BY <1>k, <1>c, <2>1, <2>3, <2>4, OvertakeFacts, SnapshotLemma
  <2> QED
    BY <1>2, <2>1, <2>5 DEF OnlyExpiredDropped
<1>3. ASSUME overtaken' = overtaken, rows' = rows, Holds(w),
             \A k \in (doomed'[w] \cup sweep'[w].stale) :
               k \in Condemned(w) \/ (k \in DOMAIN rows => Expired(k))
      PROVE  SnapshotHolds' /\ OnlyExpiredDropped
  BY <1>3, SnapshotKept DEF OnlyExpiredDropped
<1>4. ASSUME overtaken' = overtaken, NEW k \in Condemned(w), rows' = Without(rows, {k}),
             Holds(w), doomed'[w] \cup sweep'[w].stale \subseteq Condemned(w)
      PROVE  SnapshotHolds' /\ OnlyExpiredDropped
  <2>1. /\ DOMAIN rows' = DOMAIN rows \ {k}
        /\ \A j \in DOMAIN rows' : rows'[j] = rows[j]
    BY <1>0, <1>4, WithoutTyped
  <2>2. SnapshotHolds'
    BY <1>4, <2>1, SnapshotKept
  <2>3. k \notin overtaken /\ k \in DOMAIN rows => Expired(k)
    BY <1>4 DEF SnapshotHolds
  <2> QED
    BY <2>1, <2>2, <2>3 DEF OnlyExpiredDropped
<1>5. ASSUME NEW ks, Look(w, ks) PROVE SnapshotHolds' /\ OnlyExpiredDropped
  <2>1. \A k \in ExpiredOf(ks) : k \in DOMAIN rows => Expired(k)
    BY <1>0, ExpiredFacts
  <2>2. /\ Locked(w) /\ UNCHANGED <<rows, lock, sweep, overtaken>>
        /\ doomed'[w] = ExpiredOf(ks)
    BY <1>0, <1>5 DEF Look, LocalsTyped
  <2>3. Holds(w)
    BY <1>m, <1>f, <2>2 DEF Holds, Locked
  <2> QED
    BY <1>3, <1>k, <2>1, <2>2, <2>3
<1>6. CASE Drop(w)
  <2>1. PICK k \in doomed[w] :
          rows' = Without(rows, {k}) /\ doomed' = [doomed EXCEPT ![w] = @ \ {k}]
    BY <1>6 DEF Drop
  <2>2. /\ UNCHANGED <<lock, sweep, overtaken>> /\ doomed'[w] \subseteq doomed[w]
    BY <1>0, <1>6, <2>1 DEF Drop, LocalsTyped
  <2>3. Holds(w)
    BY <2>2 DEF Holds, SnapshotHolds
  <2> QED
    BY <1>4, <1>k, <2>1, <2>2, <2>3
<1>7. ASSUME NEW k \in Keys, ClientRefresh(w, k) PROVE SnapshotHolds' /\ OnlyExpiredDropped
  <2>1. Locked(w) /\ UNCHANGED <<rows, sweep, overtaken>> /\ sweep[w] = Idle
    BY <1>7, <1>m DEF ClientRefresh, Locked
  <2>2. CASE NeedsHook(k) /\ CallHook(w, "client", k) /\ UNCHANGED doomed
    <3>1. lock'[w].by = "client"
      BY <1>0, <2>2, HookFacts DEF NeedsHook
    <3>2. Holds(w)
      BY <1>f, <2>1, <3>1 DEF Holds
    <3> QED
      BY <1>3, <1>k, <2>1, <2>2, <3>2
  <2>3. CASE doomed' = [doomed EXCEPT ![w] = ExpiredOf({k})] /\ UNCHANGED lock
    <3>1. \A j \in ExpiredOf({k}) : j \in DOMAIN rows => Expired(j)
      BY <1>0, ExpiredFacts
    <3>2. doomed'[w] = ExpiredOf({k})
      BY <1>0, <2>3 DEF LocalsTyped
    <3>3. Holds(w)
      BY <1>m, <1>f, <2>1, <2>3 DEF Holds, Locked
    <3> QED
      BY <1>3, <1>k, <2>1, <3>1, <3>2, <3>3
  <2> QED
    BY <1>7, <2>2, <2>3 DEF ClientRefresh
<1>8. CASE SweepStart(w)
  <2> DEFINE due == {k \in DOMAIN rows : NeedsHook(k)}
             stale == ExpiredOf(Keys)
  <2>1. /\ stale \in SUBSET Keys /\ due \in SUBSET Keys /\ stale \cap due = {}
        /\ \A k \in stale : Expired(k)
    BY <1>0, ExpiredFacts DEF RowsTyped, NeedsHook
  <2>2. SweepOn(w, stale, due) /\ UNCHANGED <<rows, lock, doomed, overtaken>> /\ MayRun(w)
    BY <1>8 DEF SweepStart, Awake
  <2> HIDE DEF due, stale
  <2>3. sweep'[w].stale = stale /\ sweep'[w].due = due
    BY <1>0, <2>1, <2>2, SweepFacts
  <2>4. Holds(w)
    BY <1>m, <1>f, <2>1, <2>2, <2>3 DEF Holds
  <2> QED
    BY <1>3, <1>k, <2>1, <2>2, <2>3, <2>4
<1>9. CASE SweepDrop(w)
  <2> DEFINE k == sweep[w].at
             stale == sweep[w].stale \ {k}
  <2>1. /\ k \in sweep[w].stale /\ rows' = Without(rows, {k})
        /\ SweepOn(w, stale, sweep[w].due) /\ UNCHANGED <<lock, doomed, overtaken>>
    BY <1>9 DEF SweepDrop
  <2>2. stale \in SUBSET Keys /\ stale \cap sweep[w].due = {}
    BY <1>k
  <2>5. lock[w].by # "sweep" /\ lock[w].by # "client"
    BY <1>k, <1>f, <2>1 DEF SnapshotHolds
  <2> HIDE DEF k, stale
  <2>3. sweep'[w].stale = stale /\ sweep'[w].due = sweep[w].due
    BY <1>0, <1>k, <2>1, <2>2, SweepFacts
  <2>4. Holds(w)
    BY <2>1, <2>2, <2>3, <2>5 DEF Holds
  <2>6. stale \subseteq Condemned(w) /\ k \in Condemned(w)
    BY <1>k, <2>1 DEF stale
  <2> QED
    BY <1>4, <1>k, <2>1, <2>3, <2>4, <2>6
<1>10. CASE SweepRefresh(w)
  <2> DEFINE k == sweep[w].at
  <2>1. /\ k \in sweep[w].due /\ lock[w] = Free
        /\ UNCHANGED <<rows, doomed, overtaken>>
    BY <1>10 DEF SweepRefresh
  <2>2. CASE NeedsHook(k) /\ CallHook(w, "sweep", k) /\ UNCHANGED sweep
    <3>1. lock'[w].by = "sweep" /\ lock'[w].key = k
      BY <1>0, <2>2, HookFacts DEF NeedsHook
    <3>2. Holds(w)
      BY <1>k, <2>1, <2>2, <3>1 DEF Holds
    <3> QED
      BY <1>3, <1>k, <2>1, <2>2, <3>2
  <2>3. CASE /\ ExpiredOf({k}) # {}
             /\ sweep' = [sweep EXCEPT ![w].stale = @ \cup {k}, ![w].due = @ \ {k}]
             /\ UNCHANGED lock
    <3>1. Expired(k)
      BY <1>0, <2>3, ExpiredFacts
    <3>2. sweep'[w].stale = sweep[w].stale \cup {k} /\ sweep'[w].due = sweep[w].due \ {k}
      BY <1>0, <2>3 DEF LocalsTyped, Sweeps
    <3>3. Holds(w)
      BY <1>k, <1>f, <2>1, <2>3, <3>2 DEF Holds
    <3> QED
      BY <1>3, <1>k, <2>1, <3>1, <3>2, <3>3
  <2>4. CASE SweepOn(w, sweep[w].stale, sweep[w].due \ {k}) /\ UNCHANGED lock
    <3>1. sweep[w].stale \cap (sweep[w].due \ {k}) = {}
      BY <1>k
    <3>2. sweep'[w].stale = sweep[w].stale /\ sweep'[w].due = sweep[w].due \ {k}
      BY <1>0, <2>4, SweepPasses
    <3>3. Holds(w)
      BY <1>f, <2>1, <2>4, <3>1, <3>2 DEF Holds
    <3> QED
      BY <1>3, <1>k, <2>1, <3>2, <3>3
  <2> QED
    BY <1>10, <2>2, <2>3, <2>4 DEF SweepRefresh
<1>11. ASSUME Release(w), GoOn(w)
       PROVE  Holds(w) /\ sweep'[w].stale = sweep[w].stale
  <2>1. lock'[w] = Free
    BY <1>0, <1>11, HookEnds
  <2>2. CASE UNCHANGED sweep
    BY <1>k, <1>f, <2>1, <2>2 DEF Holds
  <2>3. CASE SweepOn(w, sweep[w].stale, sweep[w].due \ {sweep[w].at})
    <3>1. sweep[w].stale \cap (sweep[w].due \ {sweep[w].at}) = {}
      BY <1>k
    <3>2. /\ sweep'[w].stale = sweep[w].stale
          /\ sweep'[w].due = sweep[w].due \ {sweep[w].at}
      BY <1>0, <2>3, SweepPasses
    <3> QED
      <4>1. sweep'[w].stale \cap sweep'[w].due = {}
        BY <3>1, <3>2
      <4>2. lock'[w].by # "sweep" /\ lock'[w].by # "client"
        BY <1>f, <2>1
      <4> QED
        BY <3>2, <4>1, <4>2 DEF Holds
  <2> QED
    BY <1>11, <2>2, <2>3 DEF GoOn
<1>12. CASE HookOk(w)
  <2> DEFINE k == lock[w].key
             r == [ver |-> lock[w].ver, left |-> DefaultTTL]
  <2>1. /\ rows' = Put(rows, k, r) /\ Release(w) /\ GoOn(w) /\ UNCHANGED doomed
        /\ overtaken' = IF \E v \in Workers \ {w} : k \in Condemned(v)
                        THEN overtaken \cup {k} ELSE overtaken
    BY <1>12 DEF HookOk
  <2>2. Holds(w) /\ sweep'[w].stale = sweep[w].stale
    BY <1>11, <2>1
  <2>3. k \notin sweep[w].stale /\ doomed[w] = {}
    BY <1>k, <1>f, <2>1 DEF SnapshotHolds, Release, GoOn, Busy
  <2> HIDE DEF k, r
  <2>4. /\ DOMAIN rows' = DOMAIN rows \cup {k}
        /\ \A j \in DOMAIN rows' \ {k} : j \in DOMAIN rows /\ rows'[j] = rows[j]
    BY <2>1, PutFacts
  <2>5. \A j \in sweep[w].stale \ overtaken : j \in DOMAIN rows => rows[j].left = 0
    BY <1>k DEF SnapshotHolds, Expired
  <2>6. \A j \in (doomed'[w] \cup sweep'[w].stale) \ overtaken' :
           j \in DOMAIN rows' => rows'[j].left = 0
    BY <2>1, <2>2, <2>3, <2>4, <2>5
  <2>7. \A v \in Workers \ {w} : \A j \in Condemned(v) \ overtaken' :
           j \in DOMAIN rows' =>
             j \in DOMAIN rows /\ j \notin overtaken /\ rows'[j].left = rows[j].left
    BY <2>1, <2>4
  <2>8. SnapshotHolds'
    BY <2>2, <2>6, <2>7, SnapshotLemma
  <2> QED
    BY <2>4, <2>8 DEF OnlyExpiredDropped
<1>13. CASE HookNone(w)
  <2>1. Holds(w) /\ sweep'[w].stale = sweep[w].stale
    BY <1>11, <1>13 DEF HookNone
  <2> QED
    BY <1>3, <1>13, <1>k, <2>1 DEF HookNone
<1>14. CASE HookRaises(w)
  <2>1. lock'[w] = Free /\ UNCHANGED <<rows, doomed, overtaken>>
    BY <1>0, <1>14, HookEnds DEF HookRaises
  <2>2. sweep'[w] = sweep[w] \/ sweep'[w] = Idle
    BY <1>0, <1>14 DEF HookRaises, LocalsTyped
  <2>3. Holds(w)
    BY <1>k, <1>f, <2>1, <2>2 DEF Holds
  <2> QED
    BY <1>3, <1>k, <1>f, <2>1, <2>2, <2>3
<1>15. CASE Stop(w)
  <2>1. /\ UNCHANGED <<rows, doomed, overtaken>> /\ sweep'[w] = Idle
        /\ lock'[w] = Free
    BY <1>0, <1>15, <1>m DEF Stop, LocalsTyped
  <2>2. Holds(w)
    BY <1>f, <2>1 DEF Holds
  <2> QED
    BY <1>3, <1>k, <1>f, <2>1, <2>2
<1>16. CASE Start(w)
  <2>1. UNCHANGED <<rows, doomed, sweep, lock, overtaken>>
    BY <1>16 DEF Start
  <2>2. Holds(w)
    BY <2>1 DEF Holds, SnapshotHolds
  <2> QED
    BY <1>3, <1>k, <2>1, <2>2
<1>17. CASE Restart(w)
  <2>1. sweep'[w] = Idle /\ lock'[w] = Free /\ doomed'[w] = {}
    BY <1>0, <1>17 DEF Restart, LocalsTyped
  <2>2. Holds(w)
    BY <1>f, <2>1 DEF Holds
  <2>3. CASE deployment.durable
    <3>1. UNCHANGED <<rows, overtaken>>
      BY <1>17, <2>3 DEF Restart
    <3> QED
      BY <1>3, <1>f, <2>1, <2>2, <3>1
  <2>4. CASE ~deployment.durable
    <3>1. DOMAIN rows' = {}
      BY <1>0, <1>17, <2>4, WithoutTyped DEF Restart, RowsTyped
    <3>2. SnapshotHolds'
      BY <2>2, <3>1, SnapshotLemma
    <3> QED
      BY <2>4, <3>2
  <2> QED
    BY <2>3, <2>4
<1> QED
  BY <1>0, <1>1, <1>2, <1>5, <1>6, <1>7, <1>8, <1>9, <1>10, <1>12, <1>13, <1>14,
     <1>15, <1>16, <1>17 DEF Step, Get, List

LEMMA SnapshotTick ==
  ASSUME Types, SnapshotHolds, Tick, deployment' = deployment
  PROVE  SnapshotHolds' /\ OnlyExpiredDropped
<1>1. /\ DOMAIN rows' = DOMAIN rows
      /\ \A k \in DOMAIN rows :
           rows'[k].left = IF rows[k].left > 0 THEN rows[k].left - 1 ELSE 0
      /\ UNCHANGED <<lock, doomed, sweep, overtaken>>
  BY TickTyped DEF Tick
<1>2. \A k \in DOMAIN rows : rows[k].left = 0 => rows'[k].left = 0
  BY <1>1
<1> QED
  BY <1>1, <1>2 DEF SnapshotHolds, OnlyExpiredDropped, Condemned, Expired

\* With a hook that does not suspend, the operations of a worker do not get in
\* the way of its sweep, although _refresh_expiring deletes rows without the
\* lock.  In SQLite, for any number of workers: what leaves the store without an
\* explicit delete is expired, or was written by another worker since the one
\* that deletes it has read it.
THEOREM SweepIsAtomic == Spec => ShippedSweepAtomic
<1> DEFINE S == ~deployment.awaits => SnapshotHolds
           A == deployment.durable /\ ~deployment.awaits => OnlyExpiredDropped
<1>1. Init => S
  BY DEF Init, SnapshotHolds, Condemned, Idle, Free, None
<1>2. IInv /\ S /\ [Next]_vars => S' /\ [A]_vars
  <2> SUFFICES ASSUME IInv, S, [Next]_vars PROVE S' /\ [A]_vars
    OBVIOUS
  <2>0. Types /\ deployment.workers \subseteq Workers
    BY Deployed DEF IInv
  <2>1. ASSUME NEW w \in deployment.workers, Step(w), deployment' = deployment
        PROVE  S' /\ A
    <3>1. Apart(w)
      BY <2>0, <2>1, StepTyped DEF IInv
    <3> QED
      BY <2>0, <2>1, <3>1, SnapshotStep
  <2>2. ASSUME Tick, deployment' = deployment PROVE S' /\ A
    BY <2>0, <2>2, SnapshotTick
  <2>3. CASE UNCHANGED vars
    BY <2>3 DEF vars, state, local, SnapshotHolds, Condemned, Expired
  <2> QED
    BY <2>1, <2>2, <2>3 DEF Next
<1> HIDE DEF S
<1> QED
  BY <1>1, <1>2, Invariant, PTL DEF Spec, ShippedSweepAtomic

-----------------------------------------------------------------------------
(* The sweep of a healthy deployment.                                      *)

\* What worker w keeps up in a deployment in which nothing goes wrong: a row
\* outlives the sleep of its loop, and while its sweep is under way it outlives
\* the next sleep, or the sweep has still to come to it.  No row is ever
\* condemned.
InTime(w) ==
  /\ task[w]
  /\ Condemned(w) = {}
  /\ sweep[w] # Idle => sweep[w].at \in sweep[w].due
  /\ lock[w].by = "sweep" => lock[w].key = sweep[w].at /\ sweep[w] # Idle
  /\ \A k \in DOMAIN rows :
       IF sweep[w] = Idle THEN rows[k].left > sleep[w]
       ELSE /\ rows[k].left > 0
            /\ rows[k].left > CheckInterval \/ k \in sweep[w].due

AllInTime == \A w \in deployment.workers : InTime(w)

\* The constants are such that a row saved, refreshed or passed over by a sweep
\* outlives the sleep that follows.
Paced ==
  /\ CheckInterval < RefreshWindow
  /\ CheckInterval < DefaultTTL
  /\ \A ttl \in TTLs : CheckInterval < ttl

\* Rows that outlive any sleep are no trouble to the other workers.
LEMMA OthersInTime ==
  ASSUME Types, AllInTime, NEW w \in deployment.workers, Apart(w), InTime(w)',
         deployment' = deployment,
         \A k \in DOMAIN rows' :
           \/ k \in DOMAIN rows /\ rows'[k] = rows[k]
           \/ rows'[k].left \in Nat /\ rows'[k].left > CheckInterval
  PROVE  AllInTime'
<1>1. ASSUME NEW v \in deployment.workers, v # w PROVE InTime(v)'
  <2>1. /\ InTime(v) /\ v \in Workers /\ sleep[v] \in 0 .. CheckInterval
        /\ CheckInterval \in Nat
    BY Deployed, StoreAssumption DEF AllInTime, Types, LocalsTyped
  <2>2. /\ lock'[v] = lock[v] /\ doomed'[v] = doomed[v] /\ sweep'[v] = sweep[v]
        /\ sleep'[v] = sleep[v] /\ task'[v] = task[v]
    BY <1>1, <2>1 DEF Apart
  <2>3. \A k \in DOMAIN rows' :
          IF sweep[v] = Idle THEN rows'[k].left > sleep[v]
          ELSE /\ rows'[k].left > 0
               /\ rows'[k].left > CheckInterval \/ k \in sweep[v].due
    BY <2>1 DEF InTime
  <2> QED
    BY <2>1, <2>2, <2>3 DEF InTime, Condemned
<1> QED
  BY <1>1 DEF AllInTime

\* A sweep without stale rows goes on, in a store whose rows outlive the next
\* sleep but for those it has still to come to.
LEMMA SweepInTime ==
  ASSUME LocalsTyped, NEW w \in Workers, NEW due \in SUBSET Keys,
         SweepOn(w, {}, due), task'[w], doomed'[w] = {}, lock'[w].by # "sweep",
         \A k \in DOMAIN rows' :
           /\ rows'[k].left \in Nat /\ rows'[k].left > 0
           /\ rows'[k].left > CheckInterval \/ k \in due
  PROVE  InTime(w)'
<1>1. /\ sweep'[w].stale = {} /\ sweep'[w].due = due
      /\ \/ {} \cup due = {} /\ sweep'[w] = Idle /\ sleep'[w] = CheckInterval
         \/ sweep'[w].at \in {} \cup due /\ sweep'[w] # Idle
  BY SweepFacts
<1> QED
  BY <1>1 DEF InTime, Condemned

LEMMA InTimeStep ==
  ASSUME Paced, IInv, deployment.faults = {}, AllInTime,
         NEW w \in deployment.workers, Step(w), Apart(w), Types', deployment' = deployment
  PROVE  AllInTime'
<1>0. /\ Types /\ RowsTyped /\ LocalsTyped /\ w \in Workers /\ InTime(w)
      /\ deployment.keys \subseteq Keys /\ LocalsTyped'
  BY Deployed DEF IInv, Types, AllInTime
<1>k. /\ sweep[w].due \in SUBSET Keys /\ sweep[w].stale = {} /\ doomed[w] = {}
      /\ sleep[w] \in Nat /\ sleep[w] <= CheckInterval /\ CheckInterval \in Nat
      /\ DefaultTTL \in Nat /\ RefreshWindow \in Nat /\ TTLs \subseteq Nat
      /\ \A k \in DOMAIN rows : k \in Keys /\ rows[k].left \in Nat
      /\ task[w]
  BY <1>0, StoreAssumption DEF LocalsTyped, Sweeps, RowsTyped, Row, InTime, Condemned
<1>p. \A k \in DOMAIN rows : rows[k].left > 0
  BY <1>0, <1>k DEF InTime
<1>e. \A ks : ExpiredOf(ks) = {}
  BY <1>p DEF ExpiredOf, Expired
<1>f. Free.by # "sweep" /\ Free.by # "client"
  BY FreeIdle
<1>1. ASSUME \A k \in DOMAIN rows' :
               \/ k \in DOMAIN rows /\ rows'[k] = rows[k]
               \/ rows'[k].left \in Nat /\ rows'[k].left > CheckInterval,
             doomed'[w] = {}, lock'[w] = lock[w] \/ lock'[w].by # "sweep",
             UNCHANGED <<sweep, sleep, task>>
      PROVE  AllInTime'
  <2>1. \A k \in DOMAIN rows' :
          IF sweep[w] = Idle THEN rows'[k].left > sleep[w]
          ELSE /\ rows'[k].left > 0
               /\ rows'[k].left > CheckInterval \/ k \in sweep[w].due
    BY <1>0, <1>1, <1>k DEF InTime
  <2>2. InTime(w)'
    BY <1>0, <1>1, <1>k, <2>1 DEF InTime, Condemned
  <2> QED
    BY <1>0, <1>1, <2>2, OthersInTime
<1>2. ASSUME NEW k \in Keys, NEW ttl \in TTLs, Save(w, k, ttl) PROVE AllInTime'
  <2>1. PICK waited \in Delays(ttl) :
          rows' = Put(rows, k, [ver |-> written[k] + 1, left |-> ttl - waited])
    BY <1>2 DEF Save
  <2>2. waited = 0
    BY DEF Delays
  <2> DEFINE r == [ver |-> written[k] + 1, left |-> ttl - waited]
  <2>3. r.left \in Nat /\ r.left > CheckInterval
    BY <1>k, <2>2 DEF Paced
  <2>r. rows' = Put(rows, k, r)
    BY <2>1
  <2> HIDE DEF r
  <2>4. \A j \in DOMAIN rows' : \/ j \in DOMAIN rows /\ rows'[j] = rows[j]
                                \/ rows'[j].left \in Nat /\ rows'[j].left > CheckInterval
    BY <2>3, <2>r, PutFacts
  <2> QED
    BY <1>1, <1>2, <1>k, <2>4 DEF Save, local
<1>3. ASSUME NEW k \in Keys, Delete(w, k) PROVE AllInTime'
  <2>1. \A j \in DOMAIN rows' : j \in DOMAIN rows /\ rows'[j] = rows[j]
    BY <1>0, <1>3, WithoutTyped DEF Delete
  <2> QED
    BY <1>1, <1>3, <1>k, <2>1 DEF Delete, local
<1>4. ASSUME NEW ks, Look(w, ks) PROVE AllInTime'
  <2>1. doomed'[w] = {}
    BY <1>0, <1>4, <1>e DEF Look, LocalsTyped
  <2> QED
    BY <1>1, <1>4, <2>1 DEF Look
<1>5. ~Drop(w)
  BY <1>k DEF Drop
<1>6. ASSUME NEW k \in Keys, ClientRefresh(w, k) PROVE AllInTime'
  <2>1. UNCHANGED <<rows, sweep, sleep, task>>
    BY <1>6 DEF ClientRefresh
  <2>2. CASE NeedsHook(k) /\ CallHook(w, "client", k) /\ UNCHANGED doomed
    <3>1. lock'[w].by # "sweep"
      BY <1>0, <2>2, HookFacts DEF NeedsHook
    <3> QED
      BY <1>1, <1>k, <2>1, <2>2, <3>1
  <2>3. CASE doomed' = [doomed EXCEPT ![w] = ExpiredOf({k})] /\ UNCHANGED lock
    <3>1. doomed'[w] = {}
      BY <1>0, <1>e, <2>3 DEF LocalsTyped
    <3> QED
      BY <1>1, <2>1, <2>3, <3>1
  <2> QED
    BY <1>6, <2>2, <2>3 DEF ClientRefresh
<1>7. ASSUME NEW due \in SUBSET Keys, SweepOn(w, {}, due), UNCHANGED <<doomed, task>>,
             lock'[w].by # "sweep",
             \A k \in DOMAIN rows' :
               /\ \/ k \in DOMAIN rows /\ rows'[k] = rows[k]
                  \/ rows'[k].left \in Nat /\ rows'[k].left > CheckInterval
               /\ rows'[k].left > CheckInterval \/ k \in due
      PROVE  AllInTime'
  <2>1. \A k \in DOMAIN rows' :
           /\ rows'[k].left \in Nat /\ rows'[k].left > 0
           /\ rows'[k].left > CheckInterval \/ k \in due
    BY <1>7, <1>k, <1>p
  <2>2. InTime(w)'
    BY <1>0, <1>k, <1>7, <2>1, SweepInTime
  <2> QED
    BY <1>0, <1>7, <2>2, OthersInTime
<1>8. CASE SweepStart(w)
  <2> DEFINE due == {k \in DOMAIN rows : NeedsHook(k)}
  <2>1. /\ SweepOn(w, ExpiredOf(Keys), due) /\ UNCHANGED <<rows, lock, doomed, task>>
        /\ sweep[w] = Idle
    BY <1>8 DEF SweepStart, Awake
  <2>2. /\ due \in SUBSET Keys
        /\ \A k \in DOMAIN rows : rows[k].left > CheckInterval \/ k \in due
    BY <1>k, <1>p DEF NeedsHook, Expired, InWindow, Paced
  <2>3. lock'[w].by # "sweep"
    BY <1>0, <2>1 DEF InTime
  <2> HIDE DEF due
  <2> QED
    BY <1>7, <1>e, <2>1, <2>2, <2>3
<1>9. ~SweepDrop(w)
  BY <1>k DEF SweepDrop
<1>10. CASE SweepRefresh(w)
  <2> DEFINE at == sweep[w].at
  <2>1. /\ at \in sweep[w].due /\ lock[w] = Free /\ sweep[w] # Idle
        /\ UNCHANGED <<rows, doomed, task>>
    BY <1>10 DEF SweepRefresh, Idle
  <2>2. CASE /\ NeedsHook(at) /\ CallHook(w, "sweep", at) /\ UNCHANGED <<sweep, sleep>>
    <3>1. lock'[w].key = at
      BY <1>0, <2>2, HookFacts DEF NeedsHook
    <3>2. InTime(w)'
      BY <1>0, <2>1, <2>2, <3>1 DEF InTime, Condemned
    <3> QED
      BY <1>0, <2>1, <3>2, OthersInTime
  <2>3. CASE /\ ~NeedsHook(at) /\ SweepOn(w, sweep[w].stale, sweep[w].due \ {at})
             /\ UNCHANGED lock
    <3>1. at \in DOMAIN rows => rows[at].left > CheckInterval
      BY <1>k, <1>p, <2>3 DEF NeedsHook, Expired, InWindow, Paced
    <3>2. \A k \in DOMAIN rows :
            rows[k].left > CheckInterval \/ k \in sweep[w].due \ {at}
      BY <1>0, <1>k, <2>1, <3>1 DEF InTime
    <3>3. sweep[w].due \ {at} \in SUBSET Keys
      BY <1>k
    <3> HIDE DEF at
    <3> QED
      BY <1>7, <1>f, <1>k, <2>1, <2>3, <3>2, <3>3
  <2> QED
    BY <1>10, <1>e, <2>2, <2>3 DEF SweepRefresh
<1>11. CASE HookOk(w)
  <2> DEFINE k == lock[w].key
             r == [ver |-> lock[w].ver, left |-> DefaultTTL]
             due == sweep[w].due \ {sweep[w].at}
  <2>1. /\ lock'[w].by # "sweep" /\ UNCHANGED <<doomed, task>> /\ lock[w] # Free
    BY <1>0, <1>11, <1>f, HookEnds DEF HookOk, Release
  <2>2. r.left \in Nat /\ r.left > CheckInterval /\ rows' = Put(rows, k, r)
    BY <1>11, <1>k DEF HookOk, Paced
  <2>d. due \in SUBSET Keys
    BY <1>k
  <2>a. lock[w].by = "sweep" => k = sweep[w].at /\ sweep[w] # Idle
    BY <1>0 DEF InTime
  <2>g. \/ UNCHANGED <<sweep, sleep>>
        \/ lock[w].by = "sweep" /\ SweepOn(w, {}, due)
    BY <1>11, <1>k DEF HookOk, GoOn
  <2> HIDE DEF k, r
  <2>3. \A j \in DOMAIN rows' : IF j = k THEN rows'[j] = r
                                ELSE j \in DOMAIN rows /\ rows'[j] = rows[j]
    BY <2>2, PutFacts
  <2>4. CASE UNCHANGED <<sweep, sleep>>
    BY <1>1, <1>k, <2>1, <2>2, <2>3, <2>4
  <2>5. CASE lock[w].by = "sweep" /\ SweepOn(w, {}, due)
    <3>1. \A j \in DOMAIN rows : rows[j].left > CheckInterval \/ j \in due \/ j = k
      BY <1>0, <2>5, <2>a DEF InTime
    <3>2. \A j \in DOMAIN rows' :
               /\ \/ j \in DOMAIN rows /\ rows'[j] = rows[j]
                  \/ rows'[j].left \in Nat /\ rows'[j].left > CheckInterval
               /\ rows'[j].left > CheckInterval \/ j \in due
      BY <2>2, <2>3, <3>1
    <3> HIDE DEF due
    <3> QED
      BY <1>7, <2>1, <2>5, <2>d, <3>2
  <2> QED
    BY <2>4, <2>5, <2>g
<1>12. ~HookNone(w) /\ ~HookRaises(w) /\ ~Stop(w) /\ ~Restart(w)
  BY DEF HookNone, HookRaises, Stop, Restart
<1>13. ~Start(w)
  BY <1>k DEF Start
<1> QED
  BY <1>0, <1>2, <1>3, <1>4, <1>5, <1>6, <1>8, <1>9, <1>10, <1>11, <1>12, <1>13
  DEF Step, Get, List

LEMMA InTimeTick ==
  ASSUME Types, deployment.faults = {}, AllInTime, Tick, deployment' = deployment
  PROVE  AllInTime'
<1>1. ASSUME NEW w \in deployment.workers PROVE InTime(w)'
  <2>1. /\ InTime(w) /\ w \in Workers /\ sleep[w] \in Nat /\ LocalsTyped /\ RowsTyped
    BY Deployed, StoreAssumption DEF AllInTime, Types, LocalsTyped
  <2>2. lock[w] = Free /\ sweep[w] = Idle /\ sleep[w] > 0
    BY <2>1 DEF Tick, Waits, Locked, Asleep, InTime
  <2>3. sleep'[w] = sleep[w] - 1 /\ UNCHANGED <<lock, doomed, sweep, task>>
    BY <2>1, <2>2 DEF Tick, Asleep, InTime
  <2>4. /\ DOMAIN rows' = DOMAIN rows
        /\ \A k \in DOMAIN rows :
             rows'[k].left = IF rows[k].left > 0 THEN rows[k].left - 1 ELSE 0
    BY TickTyped
  <2>5. \A k \in DOMAIN rows : rows[k].left \in Nat /\ rows[k].left > sleep[w]
    BY <2>1, <2>2 DEF RowsTyped, Row, InTime
  <2>6. \A k \in DOMAIN rows' : rows'[k].left > sleep'[w]
    BY <2>1, <2>2, <2>3, <2>4, <2>5
  <2> QED
    BY <2>1, <2>2, <2>3, <2>6 DEF InTime, Condemned
<1> QED
  BY <1>1 DEF AllInTime

\* Why _REFRESH_WINDOW is wider than _CHECK_INTERVAL: with hooks that are prompt
\* and succeed, no row expires between two sweeps, whichever sessions are saved,
\* deleted and refreshed meanwhile and by which worker, for all constants that
\* are Paced (the code has 300 < 600 < 3600 seconds).
THEOREM NoRowExpires ==
  ASSUME Paced
  PROVE  Spec => []KeptAlive
<1> DEFINE H == deployment.faults = {} => AllInTime
<1>1. Init => H
  <2> SUFFICES ASSUME Init PROVE AllInTime
    OBVIOUS
  <2>1. LocalsTyped /\ deployment.workers \subseteq Workers
    BY FreeIdle, StoreAssumption DEF Init, LocalsTyped, Deployment
  <2> QED
    BY <2>1, FreeIdle DEF Init, AllInTime, InTime, Condemned
<1>2. IInv /\ H /\ [Next]_vars => H'
  <2> SUFFICES ASSUME IInv, H, [Next]_vars PROVE H'
    OBVIOUS
  <2>0. Types /\ LockCurrent /\ deployment.workers \subseteq Workers
    BY Deployed DEF IInv
  <2>1. ASSUME NEW w \in deployment.workers, Step(w), deployment' = deployment PROVE H'
    <3>1. Types' /\ Apart(w)
      BY <2>0, <2>1, StepTyped
    <3> QED
      BY <2>1, <3>1, InTimeStep
  <2>2. ASSUME Tick, deployment' = deployment PROVE H'
    BY <2>0, <2>2, InTimeTick
  <2>3. CASE UNCHANGED vars
    BY <2>3 DEF vars, state, local, AllInTime, InTime, Condemned
  <2> QED
    BY <2>1, <2>2, <2>3 DEF Next
<1>3. IInv /\ H => KeptAlive
  <2> SUFFICES ASSUME IInv, AllInTime, NEW k \in DOMAIN rows PROVE rows[k].left > 0
    BY DEF KeptAlive
  <2>1. PICK w \in deployment.workers : InTime(w) /\ w \in Workers
    BY Deployed DEF IInv, AllInTime
  <2>2. sleep[w] \in Nat /\ rows[k].left \in Nat
    BY <2>1 DEF IInv, Types, LocalsTyped, RowsTyped, Row
  <2> QED
    BY <2>1, <2>2 DEF InTime
<1> HIDE DEF H
<1> QED
  BY <1>1, <1>2, <1>3, Invariant, PTL DEF Spec
=============================================================================
