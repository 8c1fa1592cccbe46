---------------------------- MODULE SessionStore -----------------------------
(***************************************************************************)
(* router/session.py: SessionManager, the key-value store with TTLs behind  *)
(* the session pool and the /v1/sessions endpoints, and its background task *)
(* that refreshes rows close to expiry.                                    *)
(*                                                                         *)
(* Public coroutines run under SessionManager._lock; refresh_session keeps  *)
(* the lock across `await _do_refresh`, the hook a deployment overrides to  *)
(* re-authenticate with the bridge.  The background sweep works on a        *)
(* snapshot of the rows and deletes expired ones without the lock.          *)
(*                                                                         *)
(* A row is abstracted to the version of its data and the time it has left. *)
(***************************************************************************)
EXTENDS Naturals, FiniteSets

CONSTANTS
  Workers,        \* the worker processes
  Keys,
  Deletable,      \* the keys on which delete_session is called
  TTLs,           \* the ttl arguments of save_session
  DefaultTTL,     \* _DEFAULT_TTL
  RefreshWindow,  \* _REFRESH_WINDOW
  CheckInterval,  \* _CHECK_INTERVAL
  Deployments,    \* the deployments considered, records of type Deployment
  MaxSaves        \* bound of the model: saves per key

None == "none"

\* What goes wrong: hooks that are slow, fail (return None) or raise, a
\* background task that is stopped, a process that restarts.
Fault == {"slow", "fail", "raise", "stop", "restart"}

\* A deployment: what may go wrong in it, whether its _do_refresh suspends (the
\* placeholder does not), whether its rows are in SQLite or in memory, the
\* worker processes that run, and the keys that their clients use.  A dict is
\* not shared, so that with rows in memory one worker stands for each.
Deployment ==
  {d \in [faults : SUBSET Fault, awaits : BOOLEAN, durable : BOOLEAN,
          workers : SUBSET Workers, keys : SUBSET Keys] :
     /\ d.workers # {}
     /\ d.durable \/ \A v, w \in d.workers : v = w}

ASSUME StoreAssumption ==
  /\ None \notin Keys
  /\ Deletable \subseteq Keys
  /\ TTLs \subseteq Nat \ {0}
  /\ {DefaultTTL, RefreshWindow, CheckInterval} \subseteq Nat \ {0}
  /\ Deployments \subseteq Deployment
  /\ MaxSaves \in Nat

VARIABLES
  deployment,  \* never changes
  rows,     \* key -> [ver, left], on the keys that have a row
  lock,     \* per worker, the refresh that holds _lock: [by, key, ver]; by =
            \* None if no refresh does
  doomed,   \* per worker, the keys a client operation has read as expired and
            \* is about to delete
  sweep,    \* per worker, _refresh_expiring: [at, stale, due], the rest of its
            \* snapshot and the key of it that comes next; at = None between
            \* two sweeps
  queued,   \* per worker: coroutines may be queued on the lock ahead of the sweep
  sleep,    \* per worker: time until the background loop wakes up
  task,     \* per worker: is the background task running?
  written,  \* history: the version last written by save_session, 0 for none
            \* or after an explicit delete
  overtaken \* history: keys that a worker has written while another one was
            \* about to write back or to delete what it had read before

local == <<lock, doomed, sweep, queued, sleep, task>>
state == <<rows, local, written, overtaken>>

vars == <<deployment, state>>

Row  == [ver : Nat, left : Nat]
Free == [by |-> None, key |-> None, ver |-> 0]
Idle == [at |-> None, stale |-> {}, due |-> {}]

TypeOK ==
  /\ deployment \in Deployments
  /\ DOMAIN rows \subseteq Keys
  /\ rows \in [DOMAIN rows -> Row]
  /\ lock \in [Workers -> [by : {None, "client", "sweep"},
                           key : Keys \cup {None}, ver : Nat]]
  /\ doomed \in [Workers -> SUBSET Keys]
  /\ sweep \in [Workers -> [at : Keys \cup {None},
                            stale : SUBSET Keys, due : SUBSET Keys]]
  /\ queued \in [Workers -> BOOLEAN]
  /\ sleep \in [Workers -> 0 .. CheckInterval]
  /\ task \in [Workers -> BOOLEAN]
  /\ written \in [Keys -> Nat]
  /\ overtaken \subseteq Keys

-----------------------------------------------------------------------------
Put(f, x, v)  == [y \in DOMAIN f \cup {x} |-> IF y = x THEN v ELSE f[y]]
Without(f, S) == [y \in DOMAIN f \ S |-> f[y]]

Expired(k)  == rows[k].left = 0

\* Mutated form: a row is refreshed one tick too late.
InWindowLate(k) == rows[k].left + 1 < RefreshWindow

InWindow(k) == rows[k].left < RefreshWindow

\* The keys whose rows a worker is going to delete without looking again, and
\* all those on which it acts by what it has read before.
Condemned(w) == doomed[w] \cup sweep[w].stale
InHand(w)    == Condemned(w) \cup {lock[w].key}

\* A coroutine of w is between two statements, and gives no way to others.
Busy(w) == doomed[w] # {} \/ sweep[w].at \in sweep[w].stale

\* A coroutine of w other than its sweep can run.  An uncontended lock is taken
\* without yielding, so a sweep that finds it free goes on at once; and with a
\* hook that does not suspend, a refresh and the sweep around it never yield.
\* The statements of another worker may come between any two of w.
MayRun(w) ==
  /\ ~Busy(w)
  /\ IF deployment.awaits
     THEN sweep[w] # Idle /\ lock[w] = Free => queued[w]
     ELSE lock[w] = Free /\ sweep[w] = Idle

\* A public coroutine of w gets the lock.
Locked(w) == MayRun(w) /\ lock[w] = Free

-----------------------------------------------------------------------------
\* What a save may have waited for the lock after it computed expires_at.
Delays(ttl) == IF "slow" \in deployment.faults THEN 0 .. ttl ELSE {0}

\* Worker w writes or deletes the row of k by order of a client.
Overtake(w, k) ==
  overtaken' = IF \E v \in Workers \ {w} : k \in InHand(v)
               THEN overtaken \cup {k} ELSE overtaken \ {k}

\* Mutated form: save_session does not wait for the lock.
SaveUnlocked(w, k, ttl) ==
  /\ MayRun(w)
  /\ written[k] < MaxSaves
  /\ written' = [written EXCEPT ![k] = @ + 1]
  /\ rows' = Put(rows, k, [ver |-> written[k] + 1, left |-> ttl])
  /\ Overtake(w, k)
  /\ UNCHANGED local

\* save_session: replaces the row, whatever it held.
Save(w, k, ttl) ==
  /\ Locked(w)
  /\ written[k] < MaxSaves
  /\ written' = [written EXCEPT ![k] = @ + 1]
  /\ \E waited \in Delays(ttl) :
       rows' = Put(rows, k, [ver |-> written[k] + 1, left |-> ttl - waited])
  /\ Overtake(w, k)
  /\ UNCHANGED local

\* delete_session.
Delete(w, k) ==
  /\ Locked(w)
  /\ rows' = Without(rows, {k})
  /\ written' = [written EXCEPT ![k] = 0]
  /\ Overtake(w, k)
  /\ UNCHANGED local

\* The expired ones among the keys of ks that have a row.
ExpiredOf(ks) == {k \in ks \cap DOMAIN rows : Expired(k)}

\* get_session and list_sessions select rows and go on to delete the expired
\* ones (otherwise get_session only touches last_used).
Look(w, ks) ==
  /\ Locked(w)
  /\ doomed' = [doomed EXCEPT ![w] = ExpiredOf(ks)]
  /\ UNCHANGED <<rows, lock, sweep, queued, sleep, task, written, overtaken>>

Get(w, k) == Look(w, {k})
List(w)   == Look(w, Keys)

\* _raw_delete of a row that was read as expired, by a client operation.
Drop(w) ==
  /\ \E k \in doomed[w] :
       /\ rows' = Without(rows, {k})
       /\ doomed' = [doomed EXCEPT ![w] = @ \ {k}]
  /\ UNCHANGED <<lock, sweep, queued, sleep, task, written, overtaken>>

\* A refresh calls the hook on a row in the window that is not expired.
NeedsHook(k) == k \in DOMAIN rows /\ ~Expired(k) /\ InWindow(k)
CallHook(w, who, k) ==
  lock' = [lock EXCEPT ![w] = [by |-> who, key |-> k, ver |-> rows[k].ver]]

\* refresh_session called by a client (POST /v1/sessions/refresh), up to the
\* hook.
ClientRefresh(w, k) ==
  /\ Locked(w)
  /\ \/ NeedsHook(k) /\ CallHook(w, "client", k) /\ UNCHANGED doomed
     \/ /\ ~NeedsHook(k)
        /\ doomed' = [doomed EXCEPT ![w] = ExpiredOf({k})]
        /\ UNCHANGED lock
  /\ UNCHANGED <<rows, sweep, queued, sleep, task, written, overtaken>>

-----------------------------------------------------------------------------
(* The background task.                                                    *)

\* A sweep goes on with the rest of its snapshot, whose order is arbitrary, or
\* is over and the loop sleeps.
SweepOn(w, stale, due) ==
  \/ /\ stale \cup due = {}
     /\ sweep' = [sweep EXCEPT ![w] = Idle]
     /\ sleep' = [sleep EXCEPT ![w] = CheckInterval]
  \/ /\ \E k \in stale \cup due :
          sweep' = [sweep EXCEPT ![w] = [at |-> k, stale |-> stale, due |-> due]]
     /\ UNCHANGED sleep

\* The loop of w wakes up.
Awake(w) == MayRun(w) /\ task[w] /\ sweep[w] = Idle /\ sleep[w] = 0

\* Mutated forms: rows in the refresh window count as expired, and expired
\* rows are not looked for.
SweepStartEager(w) ==
  /\ Awake(w)
  /\ SweepOn(w, {k \in DOMAIN rows : InWindow(k)}, {})
  /\ UNCHANGED <<rows, lock, doomed, queued, task, written, overtaken>>
SweepStartBlind(w) ==
  /\ Awake(w)
  /\ SweepOn(w, {}, {k \in DOMAIN rows : NeedsHook(k)})
  /\ UNCHANGED <<rows, lock, doomed, queued, task, written, overtaken>>

\* _refresh_expiring starts: the snapshot is taken without the lock.
SweepStart(w) ==
  /\ Awake(w)
  /\ SweepOn(w, ExpiredOf(Keys), {k \in DOMAIN rows : NeedsHook(k)})
  /\ UNCHANGED <<rows, lock, doomed, queued, task, written, overtaken>>

\* _raw_delete by the sweep, on the word of its snapshot.
SweepDrop(w) ==
  /\ doomed[w] = {}
  /\ sweep[w].at \in sweep[w].stale
  /\ rows' = Without(rows, {sweep[w].at})
  /\ SweepOn(w, sweep[w].stale \ {sweep[w].at}, sweep[w].due)
  /\ UNCHANGED <<lock, doomed, queued, task, written, overtaken>>

\* refresh_session called by the sweep, up to the hook.  A row that has expired
\* since the snapshot is deleted like the stale ones; without a hook call the
\* sweep goes on.
SweepRefresh(w) ==
  /\ ~Busy(w)
  /\ sweep[w].at \in sweep[w].due
  /\ lock[w] = Free
  /\ \/ /\ NeedsHook(sweep[w].at)
        /\ CallHook(w, "sweep", sweep[w].at)
        /\ UNCHANGED <<sweep, sleep>>
     \/ /\ ExpiredOf({sweep[w].at}) # {}
        /\ sweep' = [sweep EXCEPT ![w].stale = @ \cup {sweep[w].at},
                                  ![w].due = @ \ {sweep[w].at}]
        /\ UNCHANGED <<lock, sleep>>
     \/ /\ ~NeedsHook(sweep[w].at)
        /\ ExpiredOf({sweep[w].at}) = {}
        /\ SweepOn(w, sweep[w].stale, sweep[w].due \ {sweep[w].at})
        /\ UNCHANGED lock
  /\ UNCHANGED <<rows, doomed, queued, task, written, overtaken>>

\* The hook of a refresh ends, and coroutines that came meanwhile are queued.
Release(w) ==
  /\ lock[w] # Free
  /\ ~Busy(w)
  /\ lock' = [lock EXCEPT ![w] = Free]
  /\ queued' = [queued EXCEPT ![w] = TRUE]

\* After the hook of a sweep, the sweep goes on; that of a client leaves it
\* alone.
GoOn(w) ==
  \/ lock[w].by = "client" /\ UNCHANGED <<sweep, sleep>>
  \/ /\ lock[w].by = "sweep"
     /\ SweepOn(w, sweep[w].stale, sweep[w].due \ {sweep[w].at})

\* _do_refresh returns new data: the row is written with a fresh TTL.
HookOk(w) ==
  LET k == lock[w].key
  IN /\ Release(w)
     /\ rows' = Put(rows, k, [ver |-> lock[w].ver, left |-> DefaultTTL])
     /\ overtaken' = IF \E v \in Workers \ {w} : k \in Condemned(v)
                     THEN overtaken \cup {k} ELSE overtaken
     /\ GoOn(w)
     /\ UNCHANGED <<doomed, task, written>>

\* _do_refresh returns None: nothing is written.
HookNone(w) ==
  /\ "fail" \in deployment.faults
  /\ Release(w)
  /\ GoOn(w)
  /\ UNCHANGED <<rows, doomed, task, written, overtaken>>

\* _do_refresh raises: a sweep is abandoned and the loop sleeps again.
HookRaises(w) ==
  /\ "raise" \in deployment.faults
  /\ Release(w)
  /\ \/ lock[w].by = "client" /\ UNCHANGED <<sweep, sleep>>
     \/ /\ lock[w].by = "sweep"
        /\ sweep' = [sweep EXCEPT ![w] = Idle]
        /\ sleep' = [sleep EXCEPT ![w] = CheckInterval]
  /\ UNCHANGED <<rows, doomed, task, written, overtaken>>

\* stop_background_refresh: the task is cancelled wherever it waits, which
\* abandons its sweep and releases the lock if its refresh held it.
Stop(w) ==
  /\ "stop" \in deployment.faults
  /\ MayRun(w)
  /\ task[w]
  /\ task' = [task EXCEPT ![w] = FALSE]
  /\ sweep' = [sweep EXCEPT ![w] = Idle]
  /\ lock' = [lock EXCEPT ![w] = IF @.by = "sweep" THEN Free ELSE @]
  /\ UNCHANGED <<rows, doomed, queued, sleep, written, overtaken>>

\* start_background_refresh; a no-op when the task is there.
Start(w) ==
  /\ MayRun(w)
  /\ ~task[w]
  /\ task' = [task EXCEPT ![w] = TRUE]
  /\ sleep' = [sleep EXCEPT ![w] = CheckInterval]
  /\ UNCHANGED <<rows, lock, doomed, sweep, queued, written, overtaken>>

-----------------------------------------------------------------------------
(* The processes and the clock.                                            *)

\* A worker dies at any point and is started anew.
Restart(w) ==
  /\ "restart" \in deployment.faults
  /\ IF deployment.durable
     THEN UNCHANGED <<rows, written, overtaken>>
     ELSE /\ rows' = Without(rows, Keys)
          /\ written' = [k \in Keys |-> 0]
          /\ overtaken' = {}
  /\ lock' = [lock EXCEPT ![w] = Free]
  /\ doomed' = [doomed EXCEPT ![w] = {}]
  /\ sweep' = [sweep EXCEPT ![w] = Idle]
  /\ queued' = [queued EXCEPT ![w] = FALSE]
  /\ task' = [task EXCEPT ![w] = TRUE]
  /\ sleep' = [sleep EXCEPT ![w] = CheckInterval]

\* Does the loop of w sleep?
Asleep(w) == task[w] /\ sweep[w] = Idle

\* May time pass as far as w is concerned?  Not while it runs or its loop is due
\* to run; inside a hook, suspended or not, only if hooks are slow.
Waits(w) ==
  /\ IF "slow" \in deployment.faults /\ lock[w] # Free THEN ~Busy(w) ELSE Locked(w)
  /\ "slow" \in deployment.faults \/ sweep[w] = Idle
  /\ Asleep(w) => sleep[w] > 0

Tick ==
  /\ \A w \in deployment.workers : Waits(w)
  /\ rows' = [k \in DOMAIN rows |->
                [rows[k] EXCEPT !.left = IF @ > 0 THEN @ - 1 ELSE 0]]
  /\ sleep' = [w \in Workers |->
                 IF w \in deployment.workers /\ Asleep(w)
                 THEN sleep[w] - 1 ELSE sleep[w]]
  /\ queued' = [w \in Workers |-> queued[w] /\ lock[w] # Free]
  /\ UNCHANGED <<lock, doomed, sweep, task, written, overtaken>>

-----------------------------------------------------------------------------
Init ==
  /\ deployment \in Deployments
  /\ rows = [k \in {} |-> [ver |-> 0, left |-> 0]]
  /\ lock = [w \in Workers |-> Free]
  /\ doomed = [w \in Workers |-> {}]
  /\ sweep = [w \in Workers |-> Idle]
  /\ queued = [w \in Workers |-> FALSE]
  /\ sleep = [w \in Workers |-> CheckInterval]
  /\ task = [w \in Workers |-> TRUE]
  /\ written = [k \in Keys |-> 0]
  /\ overtaken = {}

Step(w) ==
  \/ \E k \in deployment.keys :
       \/ \E ttl \in TTLs : Save(w, k, ttl)
       \/ k \in Deletable /\ Delete(w, k)
       \/ Get(w, k)
       \/ ClientRefresh(w, k)
  \/ List(w)
  \/ Drop(w)
  \/ SweepStart(w)
  \/ SweepDrop(w)
  \/ SweepRefresh(w)
  \/ HookOk(w)
  \/ HookNone(w)
  \/ HookRaises(w)
  \/ Stop(w)
  \/ Start(w)
  \/ Restart(w)

Next ==
  /\ UNCHANGED deployment
  /\ (\E w \in deployment.workers : Step(w)) \/ Tick

Spec == Init /\ [][Next]_vars

\* Time passes, and the background loop of each worker runs when its sleep is
\* over: the event loop serves ready tasks in order, and asyncio.Lock its
\* waiters, so that clients that keep coming delay a sweep but do not keep it
\* out for ever.  A hook that was called ends one way or the other.
FairSpec ==
  /\ Spec
  /\ \A w \in Workers :
       /\ SF_state(w \in deployment.workers
                   /\ (SweepStart(w) \/ SweepDrop(w) \/ SweepRefresh(w)))
       /\ WF_state(w \in deployment.workers
                   /\ (Drop(w) \/ HookOk(w) \/ HookNone(w) \/ HookRaises(w)))
  /\ SF_state(Tick)

-----------------------------------------------------------------------------
(* Properties                                                              *)

\* Refreshes never undo a save or a delete: although a refresh writes back
\* data it read before awaiting the hook, a row that is present holds the data
\* last saved under its key, and a deleted row does not come back.  The lock
\* sees to it within a worker; of two workers, one can undo what the other did
\* in the middle of its refresh, and only then (overtaken).
RowIsLatest ==
  \A k \in DOMAIN rows \ overtaken : rows[k].ver = written[k] /\ written[k] > 0

\* With a prompt hook that succeeds, the interval of the loop and the refresh
\* window are such that no row ever expires between two sweeps.
KeptAlive ==
  deployment.faults = {} => \A k \in DOMAIN rows : rows[k].left > 0

\* In this step, only expired rows leave the store without an explicit delete,
\* and rows that another worker wrote in the middle of a lookup or a sweep.
OnlyExpiredDropped ==
  \A k \in DOMAIN rows \ (Deletable \cup overtaken) :
    k \notin DOMAIN rows' => Expired(k)

\* With the placeholder hook, which never suspends, sweeps do not interfere with
\* the operations of their own worker although they do not hold the lock: what
\* leaves the store without an explicit delete is expired when it does, unless
\* another worker wrote it since it was read.  (In memory, a restart loses the
\* others too.)
ShippedSweepAtomic ==
  [][deployment.durable /\ ~deployment.awaits => OnlyExpiredDropped]_vars

\* While the background tasks run, no row lingers near its expiry: even if
\* hooks are slow and return None, it is eventually refreshed or removed.  (Not
\* so if hooks raise: the exception abandons the rest of the sweep.)
NoRowLingers ==
  \A k \in Keys :
    /\ deployment.faults \subseteq {"slow", "fail"}
    /\ k \in DOMAIN rows
    /\ InWindow(k)
    ~> k \notin DOMAIN rows \/ ~InWindow(k)
=============================================================================
