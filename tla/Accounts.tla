------------------------------ MODULE Accounts -------------------------------
(***************************************************************************)
(* router/multi_account.py: AccountManager, the accounts of the bridge, kept *)
(* in memory and in SQLite, with a background task that lets rate-limited    *)
(* accounts recover.  Every worker process has a manager of its own, and all *)
(* of them use the same table, which they read when they start.              *)
(*                                                                         *)
(* No method awaits, and all of them run on the event loop: within a worker  *)
(* a method is not interrupted.  But each of its statements of SQLite is a   *)
(* step, for a statement of another worker may come between two of them, a   *)
(* call may raise after memory was changed, and a process may end.           *)
(*                                                                         *)
(* Accounts are numbered in the order of the dict, which no property        *)
(* depends on.  Usage counts, weights and URLs are left out: strategies      *)
(* other than round_robin pick any active account.  "expired" is a status    *)
(* that is treated exactly like "error".  The time since a status changed is *)
(* read for rate-limited accounts only, and counts while a process is down,  *)
(* too.                                                                     *)
(***************************************************************************)
EXTENDS Naturals, Sequences, FiniteSets

CONSTANTS
  Workers,      \* the worker processes
  Ids,          \* account ids
  Files,        \* the contents accounts.yaml may have when it is read: ids
  Cooldown,     \* cooldown_seconds, in clock ticks
  Interval,     \* recovery_interval
  Deployments   \* the deployments considered, records of type Deployment

\* A deployment: may calls of SQLite raise, which workers run, and which
\* accounts do the clients and the file name?
Deployment == [flaky : BOOLEAN, workers : SUBSET Workers, ids : SUBSET Ids]

ASSUME AccountsAssumption ==
  /\ Ids \subseteq Nat
  /\ IsFiniteSet(Ids)
  /\ Files \subseteq Seq(Ids)
  /\ {Cooldown, Interval} \subseteq Nat \ {0}
  /\ Deployments \subseteq Deployment

VARIABLES
  deployment, \* never changes
  up,         \* per worker: is the process running?
  accounts,   \* per worker, _accounts: id -> [status, age]
  rrIndex,    \* per worker, _rr_index
  sleep,      \* per worker: until the recovery task is due; 0 when it is
  job,        \* per worker: the method that is between two statements of SQLite
              \* [kind, rest], rest being what it has yet to load
  rows,       \* the table: id -> [status, age]
  blocked,    \* history: how long each worker has to let each account rest yet
  stored,     \* history: the same for what is in the table
  turns,      \* history, per worker: how often each account was picked by
              \* round_robin since the active ones last changed, counted from
              \* the least
  foreign     \* history, per worker: the accounts whose row another worker has
              \* changed since this one read or wrote it

table == <<rows, stored, foreign>>
state == <<up, accounts, rrIndex, sleep, job, blocked, turns, table>>
vars  == <<deployment, state>>

\* Ages beyond the last moment of a recovery need not be told apart.
MaxAge  == Cooldown + Interval
Status  == {"active", "rate_limited", "error"}
Account == [status : Status, age : 0 .. MaxAge]

TypeOK ==
  /\ deployment \in Deployments
  /\ up \in [Workers -> BOOLEAN]
  /\ DOMAIN accounts = Workers
  /\ \A w \in Workers : /\ DOMAIN accounts[w] \subseteq Ids
                        /\ accounts[w] \in [DOMAIN accounts[w] -> Account]
  /\ rrIndex \in [Workers -> 0 .. Cardinality(Ids)]
  /\ sleep \in [Workers -> 0 .. Interval]
  /\ job \in [Workers -> [kind : {"none", "sweep", "get", "start", "reload"},
                          rest : Seq(Ids)]]
  /\ DOMAIN rows \subseteq Ids
  /\ rows \in [DOMAIN rows -> Account]
  /\ blocked \in [Workers -> [Ids -> 0 .. Cooldown]]
  /\ stored \in [Ids -> 0 .. Cooldown]
  /\ turns \in [Workers -> [Ids -> Nat]]
  /\ foreign \in [Workers -> SUBSET Ids]

-----------------------------------------------------------------------------
Fresh       == [status |-> "active", age |-> 0]
Empty       == [a \in {} |-> Fresh]
Never       == [a \in Ids |-> 0]
Free        == [kind |-> "none", rest |-> << >>]
Limited(f)  == {a \in DOMAIN f : f[a].status = "rate_limited"}
Healthy(f)  == {a \in DOMAIN f : f[a].status = "active"}

\* Mutated forms: recovery one tick too early, one tick too late, and not for
\* the accounts that come after one in error.
DueEarly(f)  == {a \in Limited(f) : f[a].age >= Cooldown - 1}
DueLate(f)   == {a \in Limited(f) : f[a].age > Cooldown}
DueBreaks(f) == {a \in Limited(f) :
                   /\ f[a].age >= Cooldown
                   /\ \A b \in DOMAIN f : b < a => f[b].status # "error"}

\* The limited accounts whose cooldown is over.
Due(f)      == {a \in Limited(f) : f[a].age >= Cooldown}

\* f with the account or row r at a, and f without a.
Put(f, a, r)  == [b \in DOMAIN f \cup {a} |-> IF b = a THEN r ELSE f[b]]
Without(f, a) == [b \in DOMAIN f \ {a} |-> f[b]]

\* The turns of w start anew when its active accounts change.
NewTurns(w) ==
  turns' = IF Healthy(accounts'[w]) = Healthy(accounts[w]) THEN turns
           ELSE [turns EXCEPT ![w] = Never]

\* A method of w begins; another one is not under way.
Ready(w) == up[w] /\ job[w] = Free

-----------------------------------------------------------------------------
(* Statements of SQLite, each with its commit.                             *)

\* Worker w has written or deleted the row of a.
Written(w, a) ==
  foreign' = [v \in Workers |-> IF v = w THEN foreign[v] \ {a}
                                ELSE IF rows' = rows THEN foreign[v]
                                ELSE foreign[v] \cup {a}]

\* upsert: the row becomes r, with rest to go.
Upsert(w, a, r, rest) ==
  /\ rows' = Put(rows, a, r)
  /\ stored' = [stored EXCEPT ![a] = rest]
  /\ Written(w, a)

\* update_status, which has no effect without a row.
UpdateStatus(w, a, st, rest) ==
  \/ a \in DOMAIN rows /\ Upsert(w, a, [status |-> st, age |-> 0], rest)
  \/ a \notin DOMAIN rows /\ UNCHANGED table

\* delete.
DeleteRow(w, a) ==
  /\ rows' = Without(rows, a)
  /\ stored' = [stored EXCEPT ![a] = 0]
  /\ Written(w, a)

\* A write that raises may be without effect, or still be committed with the
\* next one.
Raises(Write)   == deployment.flaky /\ (Write \/ UNCHANGED table)
Attempts(Write) == Write \/ Raises(Write)

-----------------------------------------------------------------------------
\* add_account, which returns False for an account that is in memory.
Add(w, a) ==
  /\ Ready(w)
  /\ a \notin DOMAIN accounts[w]
  /\ accounts' = [accounts EXCEPT ![w] = Put(@, a, Fresh)]
  /\ Attempts(Upsert(w, a, Fresh, 0))
  /\ NewTurns(w)
  /\ UNCHANGED <<up, rrIndex, sleep, job, blocked>>

\* remove_account.
Remove(w, a) ==
  /\ Ready(w)
  /\ a \in DOMAIN accounts[w]
  /\ accounts' = [accounts EXCEPT ![w] = Without(@, a)]
  /\ blocked' = [blocked EXCEPT ![w][a] = 0]
  /\ Attempts(DeleteRow(w, a))
  /\ NewTurns(w)
  /\ UNCHANGED <<up, rrIndex, sleep, job>>

\* mark_account_status.  A rate limit is in force from then on; any other
\* status ends it.
Rest(st) == IF st = "rate_limited" THEN Cooldown ELSE 0
Mark(w, a, st) ==
  /\ Ready(w)
  /\ a \in DOMAIN accounts[w]
  /\ accounts' = [accounts EXCEPT ![w][a] = [status |-> st, age |-> 0]]
  /\ blocked' = [blocked EXCEPT ![w][a] = Rest(st)]
  /\ Attempts(UpdateStatus(w, a, st, Rest(st)))
  /\ NewTurns(w)
  /\ UNCHANGED <<up, rrIndex, sleep, job>>

-----------------------------------------------------------------------------
(* _try_recover_accounts, called by the recovery task ("sweep") and by        *)
(* get_account ("get").                                                     *)

\* A recovery of this kind begins or goes on.
Recovering(w, kind) ==
  /\ up[w]
  /\ job[w].kind \in {"none", kind}
  /\ kind = "sweep" => sleep[w] = 0

\* The account that is due next recovers.
RecoversNext(w, a) ==
  /\ a \in Due(accounts[w])
  /\ \A b \in Due(accounts[w]) : a <= b
  /\ accounts' = [accounts EXCEPT ![w][a] = Fresh]
  /\ NewTurns(w)
  /\ UNCHANGED <<up, rrIndex, blocked>>

\* Mutated form: recoveries are not stored.
RecoverInMemory(w, kind, a) ==
  /\ Recovering(w, kind)
  /\ RecoversNext(w, a)
  /\ job' = [job EXCEPT ![w].kind = kind]
  /\ UNCHANGED <<sleep, table>>

\* One account recovers, and the recovery goes on.
Recover(w, kind, a) ==
  /\ Recovering(w, kind)
  /\ RecoversNext(w, a)
  /\ UpdateStatus(w, a, "active", 0)
  /\ job' = [job EXCEPT ![w].kind = kind]
  /\ UNCHANGED sleep

\* One account recovers in memory, and the call for its row raises.  The
\* recovery task goes on, get_account does not.
RecoverRaises(w, kind, a) ==
  /\ Recovering(w, kind)
  /\ RecoversNext(w, a)
  /\ Raises(UpdateStatus(w, a, "active", 0))
  /\ job' = [job EXCEPT ![w] = Free]
  /\ sleep' = [sleep EXCEPT ![w] = IF kind = "sweep" THEN Interval ELSE @]

\* The recovery task has nothing left to do, and sleeps.
SweepEnds(w) ==
  /\ Recovering(w, "sweep")
  /\ Due(accounts[w]) = {}
  /\ sleep' = [sleep EXCEPT ![w] = Interval]
  /\ job' = [job EXCEPT ![w] = Free]
  /\ UNCHANGED <<up, accounts, rrIndex, blocked, turns, table>>

\* The turns of w after round_robin picked a from the accounts in active.
TurnsAfter(w, a, active) ==
  LET now == [turns[w] EXCEPT ![a] = @ + 1]
  IN  IF \A b \in active : now[b] > 0
      THEN [b \in Ids |-> IF b \in active THEN now[b] - 1 ELSE 0]
      ELSE now

\* Mutated form: the index does not advance.
PickNextStuck(w, active) ==
  \E a \in active :
    /\ Cardinality({b \in active : b < a}) = rrIndex[w] % Cardinality(active)
    /\ rrIndex' = [rrIndex EXCEPT ![w] = @ % Cardinality(active)]
    /\ turns' = [turns EXCEPT ![w] = TurnsAfter(w, a, active)]

\* round_robin among the active accounts.
PickNext(w, active) ==
  \E a \in active :
    /\ Cardinality({b \in active : b < a}) = rrIndex[w] % Cardinality(active)
    /\ rrIndex' = [rrIndex EXCEPT ![w] = (@ % Cardinality(active)) + 1]
    /\ turns' = [turns EXCEPT ![w] = TurnsAfter(w, a, active)]

\* get_account after its recovery: round_robin, or another strategy, or nothing
\* to choose from (None).  (increment_usage may raise after the choice: the
\* index has moved.)
Get(w) ==
  /\ Recovering(w, "get")
  /\ Due(accounts[w]) = {}
  /\ PickNext(w, Healthy(accounts[w])) \/ UNCHANGED <<rrIndex, turns>>
  /\ job' = [job EXCEPT ![w] = Free]
  /\ UNCHANGED <<up, accounts, sleep, blocked, table>>

-----------------------------------------------------------------------------
(* The file, and the processes.                                            *)

\* The rest of a file is to be loaded.
Loading(kind, rest) == IF rest = << >> THEN Free ELSE [kind |-> kind, rest |-> rest]

\* accounts.yaml is read, and the loop of _load_config_accounts begins.
ReadFile(w, kind) ==
  \E file \in Files :
    /\ {file[n] : n \in DOMAIN file} \subseteq deployment.ids
    /\ job' = [job EXCEPT ![w] = Loading(kind, file)]

\* reload_config.
Reload(w) ==
  /\ Ready(w)
  /\ ReadFile(w, "reload")
  /\ UNCHANGED <<up, accounts, rrIndex, sleep, blocked, turns, table>>

\* A process starts: the table is read, then the file; when that is done, the
\* recovery task is created and due at once.
Start(w) ==
  /\ ~up[w]
  /\ up' = [up EXCEPT ![w] = TRUE]
  /\ accounts' = [accounts EXCEPT ![w] = rows]
  /\ blocked' = [blocked EXCEPT ![w] = stored]
  /\ foreign' = [foreign EXCEPT ![w] = {}]
  /\ sleep' = [sleep EXCEPT ![w] = 0]
  /\ ReadFile(w, "start")
  /\ UNCHANGED <<rrIndex, rows, stored, turns>>

\* The account of the file that comes next, as it is in memory, where it is
\* added first if it is missing.
Known(w, a) == IF a \in DOMAIN accounts[w] THEN accounts[w][a] ELSE Fresh
LoadsNext(w, a) ==
  /\ accounts' = [accounts EXCEPT ![w] = Put(@, a, Known(w, a))]
  /\ NewTurns(w)
  /\ UNCHANGED <<up, rrIndex, sleep, blocked>>

\* It is written to the table, and the loop goes on.
Load(w) ==
  /\ up[w]
  /\ job[w].rest # << >>
  /\ LET a == Head(job[w].rest)
     IN  LoadsNext(w, a) /\ Upsert(w, a, Known(w, a), blocked[w][a])
  /\ job' = [job EXCEPT ![w] = Loading(@.kind, Tail(@.rest))]

\* The process ends, and its memory with it.
Ends(w) ==
  /\ up' = [up EXCEPT ![w] = FALSE]
  /\ accounts' = [accounts EXCEPT ![w] = Empty]
  /\ rrIndex' = [rrIndex EXCEPT ![w] = 0]
  /\ sleep' = [sleep EXCEPT ![w] = 0]
  /\ job' = [job EXCEPT ![w] = Free]
  /\ blocked' = [blocked EXCEPT ![w] = Never]
  /\ turns' = [turns EXCEPT ![w] = Never]

\* The write raises: a reload is over, and a process does not start.
LoadRaises(w) ==
  /\ up[w]
  /\ job[w].rest # << >>
  /\ LET a == Head(job[w].rest)
     IN  /\ Raises(Upsert(w, a, Known(w, a), blocked[w][a]))
         /\ \/ job[w].kind = "start" /\ Ends(w)
            \/ /\ job[w].kind = "reload"
               /\ LoadsNext(w, a)
               /\ job' = [job EXCEPT ![w] = Free]

\* The process ends, in whatever way and at any point.
Stop(w) ==
  /\ up[w]
  /\ Ends(w)
  /\ UNCHANGED table

-----------------------------------------------------------------------------
Aged(f) ==
  [a \in DOMAIN f |->
     IF a \in Limited(f) /\ f[a].age < MaxAge THEN [f[a] EXCEPT !.age = @ + 1] ELSE f[a]]
Shorter(f) == [a \in Ids |-> IF f[a] > 0 THEN f[a] - 1 ELSE 0]

\* May time pass as far as w is concerned?  A recovery is decided at once, and
\* the recovery task, when it is due, runs first.
Waits(w) ==
  \/ ~up[w]
  \/ job[w].kind = "start"
  \/ job[w].kind \in {"none", "reload"} /\ sleep[w] > 0

Tick ==
  /\ \A w \in Workers : Waits(w)
  /\ accounts' = [w \in Workers |-> Aged(accounts[w])]
  /\ rows' = Aged(rows)
  /\ sleep' = [w \in Workers |-> IF sleep[w] > 0 THEN sleep[w] - 1 ELSE 0]
  /\ blocked' = [w \in Workers |-> Shorter(blocked[w])]
  /\ stored' = Shorter(stored)
  /\ UNCHANGED <<up, rrIndex, job, turns, foreign>>

-----------------------------------------------------------------------------
\* The first start, on an empty table, lies ahead.
Init ==
  /\ deployment \in Deployments
  /\ up = [w \in Workers |-> FALSE]
  /\ accounts = [w \in Workers |-> Empty]
  /\ rrIndex = [w \in Workers |-> 0]
  /\ sleep = [w \in Workers |-> 0]
  /\ job = [w \in Workers |-> Free]
  /\ rows = Empty
  /\ blocked = [w \in Workers |-> Never]
  /\ stored = Never
  /\ turns = [w \in Workers |-> Never]
  /\ foreign = [w \in Workers |-> {}]

Step(w) ==
  \/ \E a \in deployment.ids :
       \/ Add(w, a)
       \/ Remove(w, a)
       \/ \E st \in Status : Mark(w, a, st)
       \/ \E kind \in {"sweep", "get"} : Recover(w, kind, a) \/ RecoverRaises(w, kind, a)
  \/ SweepEnds(w)
  \/ Get(w)
  \/ Reload(w)
  \/ Load(w)
  \/ LoadRaises(w)
  \/ Start(w)
  \/ Stop(w)

Next ==
  /\ UNCHANGED deployment
  /\ (\E w \in deployment.workers : Step(w)) \/ Tick

Spec == Init /\ [][Next]_vars

\* Another step of a method that has begun, other than the recovery task.
Proceeds(w) ==
  \/ Load(w) \/ LoadRaises(w)
  \/ /\ job[w].kind = "get"
     /\ Get(w) \/ \E a \in Ids : Recover(w, "get", a) \/ RecoverRaises(w, "get", a)

\* Time passes, and a method that has begun ends.  The event loop runs the
\* recovery task when it is due, and the recovery does not raise for ever.
FairSpec ==
  /\ Spec
  /\ SF_state(Tick)
  /\ \A w \in Workers :
       /\ WF_state(Proceeds(w))
       /\ []<>Recovering(w, "sweep") => []<><<SweepEnds(w)>>_state

-----------------------------------------------------------------------------
(* Properties                                                              *)

\* A rate limit that was reported is respected: until its cooldown is over,
\* removed or marked otherwise, the account is not among those that get_account
\* of this worker chooses from, and, if the limit is in the table, nor of any
\* worker that starts later, whatever reloads, sweeps of other accounts and
\* failing writes there are.
LimitsRespected ==
  \A w \in Workers, a \in Ids :
    a \in DOMAIN accounts[w] /\ blocked[w][a] > 0 => accounts[w][a].status # "active"

\* As long as SQLite works, a limited account is active again before its
\* cooldown and one interval of the recovery task have passed; time during
\* which the process was down counts.
RecoveredInTime ==
  \A w \in Workers :
    up[w] /\ ~deployment.flaky /\ sleep[w] > 0 =>
      \A a \in Limited(accounts[w]) : accounts[w][a].age + sleep[w] < Cooldown + Interval

\* As long as SQLite works, a worker's memory of an account is what the table
\* has, unless another worker has changed the row since.
TableMirrorsMemory ==
  \A w \in Workers, a \in Ids :
    up[w] /\ ~deployment.flaky /\ a \notin foreign[w] =>
      /\ a \in DOMAIN accounts[w] <=> a \in DOMAIN rows
      /\ a \in DOMAIN rows => rows[a] = accounts[w][a]

\* round_robin takes turns: while the set of active accounts stays as it is, no
\* account is picked twice more than another.
TurnsTaken == \A w \in Workers : \A a \in DOMAIN accounts[w] : turns[w][a] <= 1

\* Even if writes fail now and then, a limited account recovers, unless it is
\* limited again or the process stops.  (If they kept failing, accounts that are
\* limited again and again could keep the others from their turn.)
RecoversEventually ==
  \A w \in Workers, a \in Ids :
    up[w] /\ a \in Limited(accounts[w]) ~>
      ~up[w] \/ a \notin Limited(accounts[w]) \/ accounts[w][a].age = 0
=============================================================================
