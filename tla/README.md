# TLA+ verification of the DeepSeek hybrid router

The repository is a FastAPI service (`src/router`) with the interface of the
OpenAI API. It classifies a chat request, sends it to one of several providers
(a browser-driven DeepSeek bridge, DeepInfra, Alibaba), falls back along a
chain when one fails, and may split a large request into sub-tasks that run in
parallel on a pool of bridge sessions. This directory models the parts of it
that keep state between steps, checks them with TLC and proves theorems about
them with TLAPS.

A worker process runs everything on one asyncio event loop: between two `await`s
a coroutine is not interrupted. Actions are therefore the stretches of code
between suspension points (an `await` that may really suspend, or a lock), and
what can happen in between is what other actions do. The systemd unit
`deepseek-hybrid-router.service` starts two worker processes, the Dockerfile
one. Workers share the files (`costs.db`, `sessions.db`, the account table,
`routing.yaml`) and nothing else: pool, pending confirmations, account memory,
health and rules exist once per worker. Where a component's file is shared, its
model has several workers (`SessionStore`, `Accounts`, `Chat`), and a statement
of another worker may come between any two of one worker's.

## 1. Inventory

| Part | State | Operations | Talks to |
|---|---|---|---|
| session pool, `session_pool.py` | `_sessions`, `_rr_index` | acquire, release, rotate, cleanup, health check, mark error, close | session store (rows `pool:<id>`), executor |
| session store, `session.py` | rows with a TTL (SQLite or a dict), one lock, a background task | save, get, list, delete, refresh, sweep, start/stop | pool, `/v1/sessions` |
| parallel executor, `parallel_executor.py` | per call: layers, semaphore, attempts, results | execute | pool, adapter |
| fallback manager, `fallback.py` | health per provider (cooldown), the chain | execute, mark_unhealthy | adapters, chat endpoint |
| confirmation, `confirmation/owui.py` | `_pending`, `_events` | ask, respond, list | Open WebUI, `/v1/confirmation/*` |
| account manager, `multi_account.py` | accounts in memory and in SQLite, round-robin index, recovery task | add, get, mark, remove, recover, reload | `/v1/accounts` |
| adaptive manager and auto tuner, `adaptive_manager.py` | window of outcomes, limits, tuner flag, task and loops | record, reset, evaluate, recommend, apply, start, stop | chat endpoint (records only) |
| router, `routing.py` | rules in memory, `routing.yaml`, adapter cache | route, get_fallback_chain, reload_config | chat endpoint |
| cost tracker, `cost.py` | usage rows, pooled SQLite connections and their transactions | record_usage, reports, check_budget | chat endpoint, `/v1/costs/*` |
| chat endpoint, `main.py` | per request: its place, its records, its reply | chat_completions, reload, reports | all of the above |
| task splitter, `task_splitter.py` | none | detect, split (rules or language model) | executor |
| context manager, `context_manager.py` | stored results, list of files | record_result, prepare, inject | pipeline |
| aggregator, `result_aggregator.py` | none | order, conflicts, merging (rules or language model), reply | pipeline |
| analyzer, metrics, logging, request models, adapters | counters or none | | |

A request that is to be split goes splitter -> executor (which borrows a session
from the pool for each attempt) -> context manager -> aggregator; any other goes
router -> fallback manager -> adapters. The pool persists its sessions in the
store, whose background task refreshes or drops the rows. Answers are recorded
for the adaptive manager and billed by the cost tracker.

What is hard, and what makes each part correct:

* **Pool.** Clients share a session and count its messages only when they
  release it; states change by five operations while sessions are lent; rows of
  the store expire on their own; a restart forgets the pool but not its rows.
  Correct: only usable sessions are lent and none that ceased to be usable comes
  back; limits are overshot by no more than the clients that share the session;
  memory and rows agree.
* **Store.** A refresh reads, awaits a hook and writes back; the sweep works on
  a snapshot, partly without the lock; the task may be cancelled anywhere; and
  the lock is one of asyncio, while every worker refreshes the same
  `sessions.db`. Correct: a refresh undoes no save or delete of its own worker,
  only expired rows vanish, rows in use are kept alive; what one worker may do to
  another is confined to the keys they wrote at the same time.
* **Executor.** Sub-tasks of a layer run concurrently; every attempt can fail in
  four places; ids and dependencies are written by a language model. Correct:
  dependencies first, each sub-task once, sessions always returned, an answer in
  every case.
* **Fallback.** Health is shared by calls that are at different places of
  their chains, and changes while they sleep. Correct: a resting provider is
  left alone, none in working order is passed over, every call ends.
* **Confirmation.** The answer races the timeout and the cancellation of the
  request. Correct: an accepted answer counts, nothing else is accepted, the
  list of open questions is exact, every question ends.
* **Accounts.** Memory and rows are written one after the other and several
  rows per operation; recovery depends on stamps that survive restarts; each
  worker reads the table when it starts and goes by its memory from then on.
  Correct: a rate-limited account rests for its cooldown and then comes back;
  rows mirror memory, but for what another worker wrote.
* **Adaptive manager.** `stop` suspends while it awaits the old loop, and a start
  in between makes a new one; the same window is evaluated again by every cycle;
  the rules exist in two copies. Correct: limits move only as advised, do not
  flap, reach their floor in spite of rounding; a tuner that says it runs, runs.
* **Chat endpoint, router, cost tracker.** Four ways through the endpoint, each
  of which can fall through to another after work was done; SQLite shared by
  workers, with transactions that outlive the call that began them; rules
  replaced under running requests. Correct: records, rows and replies agree, a
  failed write does bounded harm, a worker keeps a route.
* **Pipeline.** Plans come from rules over arbitrary texts or from a language
  model; sub-tasks fail, answer nothing or answer what cannot be read. Correct:
  plans can be run, sections come in an order that the dependencies allow, no
  sub-task, failure or conflict is forgotten on the way to the reply.

## 2. The modules

| Module | Models | Kind |
|---|---|---|
| `SessionLending` | what a pool promises its clients | abstract specification |
| `SessionPool` | `session_pool.py` | component; implements `SessionLending` |
| `SessionStore` | `session.py` | component |
| `DagRun` | what running a graph of sub-tasks promises | abstract specification |
| `ParallelExecutor` | `parallel_executor.py` | component; implements `DagRun` |
| `Fallback` | `fallback.py` | component |
| `Dialog` | what asking a user promises | abstract specification |
| `Confirmation` | `confirmation/owui.py` | component; implements `Dialog` |
| `Accounts` | `multi_account.py` | component |
| `Adaptive` | `adaptive_manager.py` | component |
| `Service` | the worker processes | shared constants |
| `Router`, `CostTracker` | `routing.py`, `cost.py` | components, composed in `Chat` |
| `Chat` | `chat_completions` in `main.py` | composition |
| `Lists` | `sorted()` and list comprehensions as the two below use them | algorithms |
| `TaskSplitting`, `ResultAggregation` | `task_splitter.py`, `result_aggregator.py` | algorithms |
| `Pipeline` | the session-manager flow with `context_manager.py` | composition of the two |
| `...Proofs` | | theorems |
| `MC...` | | instances for TLC |

Definitions marked "Mutated form" are not part of the specifications. Each is
a plausible bug; substituted for the definition it varies, it makes the
property it is meant for fail (`PROJECT.json`, "mutants").

### SessionPool

`sessions` is `_sessions`, restricted to state, message count and age;
`nextId` stands for the fresh uuid of the next session, so that creation order
is the order of ids; `rrIndex` is `_rr_index`; `rows` is what the store holds
under `pool:<id>`; `held` is what each client has borrowed. Every public
coroutine runs under `SessionPool._lock` and is one action, with the persistence
it ends with: `AcquireActive`, `AcquireCreate`, `AcquireRotate` and
`AcquireExhausted` are the branches of `acquire_session`, `Release`, `Rotate`,
`CleanupExpired`, `HealthCheckAll`, `MarkError` and `Close` the other
operations, `CleanupFails` the exception inside `cleanup_expired`. `Restart`
constructs a new pool (nothing is read back), `LoseRow` is everything that can
remove a row behind the pool's back, `Tick` the clock. An operation may find the
store failing, at most `MaxOutages` times (`outages`): each save then succeeds or
is swallowed by the code (`Persisted`); a failing delete is not swallowed.

### SessionStore

`rows` maps a key to the version of its data and the time it has left; all
workers share it. The rest is per worker: `lock` is `_lock` together with what a
refresh that awaits `_do_refresh` has read; `sweep` is the rest of the snapshot of
the background sweep, with the key that comes next; `doomed` are the keys that a
client operation has read as expired and goes on to delete; `sleep` and `task` are
the loop and whether it exists; `queued` holds a sweep that waits for the lock.

A client operation needs its worker's lock to be free. Within a worker nothing
comes between two statements of SQLite (`Busy`), but those of another worker do,
so that each is a step: `Save` and `Delete` are one; `Get` and `List` select
(`Look`), and `Drop` deletes what they found expired; `ClientRefresh` and
`SweepRefresh` go up to the hook, whose end (`HookOk`, `HookNone`, `HookRaises`)
writes back; `SweepStart` takes the snapshot, `SweepDrop` deletes on its word.

A *deployment* says what may go wrong (slow, failing or raising hooks, stops,
restarts), whether `_do_refresh` suspends (the placeholder in the repository does
not; the docstring invites overriding it), whether the rows are in SQLite, which
workers run and which keys their clients use. `written` and `overtaken` are
history: the last version saved under a key, and the keys that a worker has
written while another one was about to write back or to delete what it had read
before.

### ParallelExecutor

One call of `execute`. `tasks` is its argument, `finished` the ids of the
layers that are over, `pc[t]` where the coroutine of an id is: waiting for the
semaphore, acquiring, sending, releasing after a success, releasing after a
failure, or done. The layers are computed as `_topological_layers` does, on the
graph `GraphOf(tasks)` (of repeated ids the last counts, and every occurrence
decrements). A timeout of a send and an error are the same failure. `lent`
counts sessions.

### Fallback

Concurrent calls of `execute`. `call[c]` is the place of call c in the loop over
its chain: the entry, the attempt, and how long it waits; `cooldown` is
`ProviderHealth` per manager. `ManagerOf` says which calls share a manager: the
class allows sharing, `main.py` makes a manager per request. `rest`, `late` and
`faulty` are history: how long a provider has to rest whoever asks, attempts
each call sent to a resting provider, and providers that have failed or were
marked.
Streams differ from other calls only in that the stream is returned unread,
which the model does not distinguish.

### Confirmation

One call of `confirm_routing` per request, answers by `respond` at any time.
`at[r]` is the coroutine's place; "expired" is the interval between the moment
`wait_for`'s timer fires and the coroutine's next turn, in which other
coroutines run. `accepted` is history: the option for which `respond` returned
True. `live` is the negation of `simulation_mode`.

### Accounts

`accounts` is the `_accounts` of every worker and `rows` the table they share,
both reduced to a status and the time since it was set (`status_changed_at`,
read for rate-limited accounts only). No method awaits, so that within a worker
each runs to its end; but other workers' statements come between two of its own,
and the process may end there. Therefore an action is at most one statement of
SQLite with the code around it, and `job` is the method of a worker that has
more to go: `Add`, `Remove` and `Mark` have one; a recovery, by its task or by
`get_account`, is a `Recover` for each account that is due, and ends in
`SweepEnds` or `Get` (the other strategies pick any active account; only
round_robin keeps state); `Start` (the constructor followed by `start_recovery`)
and `Reload` read the file, and a `Load` stores each account of it. `Stop` is a
shutdown or a crash.

A statement may raise after memory was changed (if the deployment is `flaky`):
`Attempts`, `RecoverRaises` and `LoadRaises` say where this leaves things. A call
that raises may have written its row, for the statement's transaction stays open
and is committed with the next one. The rest is history: `blocked`, the rest that
an account still needs as far as a worker was told; `stored`, the same for the
row; `foreign`, the accounts whose row another worker has changed since this one
read or wrote it; `turns`, who had a turn.

### Adaptive

`buffer` is the tracker's deque of outcomes, reduced to success, truncation and
duration, `limits` the manager's copy of the pool configuration. `Evaluated` is
`evaluate`, `Advice` the kinds of advice of `get_recommendations`; the floats of
the code are compared as integers. The tuner is `running` (`_running`), `handle`
(`_task`) and the asyncio tasks it ever made (`loops`); `stop` is the two actions
around its `await` (`Stop`, `StopReturns`), a cycle is `Wake`, the arrival of the
CancelledError is `Cancelled`. `sinceCut` is history: records since a limit was
last lowered. The router itself never constructs the tuner.

### Router, CostTracker, Chat

`Router` keeps `file`, what `routing.yaml` holds, and `rules`, what each worker
has loaded. `Routable` is `route` followed by `get_fallback_chain` and the
construction of the adapters; the three do not suspend, so that a reload falls
before or after them. `Reload` changes one worker; it assigns nothing when the
file cannot be read, and does assign null rules before counting them raises.

`CostTracker` keeps the number of `rows`, and for every worker the connection at
the head of its pool (`turn`) and the transaction each connection is in (`tx`):
none, begun by an INSERT that raised, or with the snapshot of its first read.
`writer` is a worker whose commit takes longer than SQLite's busy timeout of 5 s
(the call is synchronous: that worker does nothing else). The outcomes of
`record_usage` are `RecordSucceeds`, `RecordStalls` with its two ends,
`RecordFails` (disk), `RecordTimesOut` (another worker has the lock) and
`RecordRefused` (the connection reads from an old snapshot); `Read` is a report,
`Dashboard` the one that uses four connections.

`Chat` composes them: `req[r]` is the place of a request in `chat_completions`,
its worker, the records and rows it made, and the reply. Splitter, executor,
aggregator and fallback manager return or raise here; what they do inside is in
the other modules. `Restart` ends a worker at any point, also inside a commit,
which then is done or rolled back. `badRules` is history: an edit left the file
without a usable route.

### TaskSplitting, ResultAggregation, Pipeline

A text is a sequence of words of four kinds (file paths, step marks, complexity
phrases, others); a sub-task is told an interval of them. `NeedsSplitting`,
`IsComplex`, `SuggestedCount`, the three strategies (`SplitByFile`,
`SplitBySteps`, `SplitByTokens`) and the choice of the hybrid splitter follow
the code. An answer of a sub-task is the files it mentions, whether it speaks of
changing them, and its directives. `OrderIds` is `_order_by_dependencies`, with
the identifiers that are in a cycle at the end; `Conflicts` is
`ConflictDetector`; `MergeByRules` and `MergeByLLM` are the two aggregators.

`Pipeline` runs one request after another through detect, split, execute, record
and merge, in two flows: the endpoint's, with the hybrid classes, and that of
the rules alone, as the tests use them. The outcome of the executor is any
function from identifiers to answers, silence, unreadable choices or failure.
`RecordAll` is the loop over `record_result`.

## 3. What the runs check

| Run | Instance | Shows |
|---|---|---|
| `SessionPool` | 2 interchangeable clients, `max_sessions` 2, 3 sessions ever created, limit 2, TTL 0, 1 explicit rotation, 1 operation that finds the store failing | the pool implements `SessionLending`, store failing or not (`LendsOnlyUsable`); a session is overshot by at most one message per other client (`OvershootBound`); at most one session is ACTIVE unless `rotate_session` is called (`OneActiveSession`); a used-up session is never lent (`ActiveUnderLimit`); rows mirror memory (`RowsMirrorPool`); round-robin is fair (`RoundRobinFair`) |
| `SessionStore` | TTLs 2 and 3, window 2, interval 1, 20 deployments: one worker with 2 keys, with rows in memory or in SQLite; two workers on one database, with 1 key, and with 2 keys if the hook is the one in the repository | no refresh undoes a save or delete, except of a key that another worker wrote in the middle of it (`RowIsLatest`); prompt sweeps keep all rows alive (`KeptAlive`); with the placeholder, the unlocked sweep is atomic within its worker (`ShippedSweepAtomic`); no row lingers near its expiry (`NoRowLingers`) |
| `ParallelExecutor` | every graph over 3 sub-tasks, with self-loops, cycles and an unknown id; lists of 0 and 1; 2 at a time, 2 retries | execute implements `DagRun` (`RunsDag`); it raises exactly for cycles (`CycleExact`); sessions go back on every path (`SessionsReturned`); failures are counted right (`RetriesReported`); it always answers (`Answers`) |
| `Fallback` | 2 calls on one manager; chains a-b, a-b-a, a | no call turns to a resting provider (`StartsOnlyOnRested`); a call sends to a resting one at most `MaxRetries - 1` times (`LateSendsBounded`); a call raises only if all its providers failed or were marked (`NoNeedlessFailure`); every call ends (`Ends`) |
| `FallbackPerRequest` | a manager per call | violated: `StartsOnlyOnRested` (finding) |
| `Confirmation` | 2 requests, live or simulated, cancelled or not | implements `Dialog` (`KeepsDialog`); the list of open questions is exact (`ListsOpenQuestions`); every question ends (`QuestionsEnd`) |
| `ConfirmationLateAnswer` | the same | violated: `AcceptedCounts` (finding) |
| `Accounts` | cooldown 2, interval 2, 3 versions of the file; one worker with 2 accounts, SQLite raising or not; two workers with 1 account | a rate limit is respected by the worker it was reported to, and if stored by those that start later (`LimitsRespected`); it ends in time (`RecoveredInTime`) and, with writes that fail now and then, in the end (`RecoversEventually`); memory and table agree, except where another worker wrote since (`TableMirrorsMemory`); round_robin takes turns (`TurnsTaken`) |
| `Adaptive` | window 4 of a buffer of 5, 3 kinds of outcome, limits 20 to 24 and 3 to 4, 2 controllers, 2 loops | what the tuner does is what the dashboard advises (`AdviceMatches`); a limit is not raised right after it was lowered (`NoFlapping`); a running tuner has a loop that wakes (`RunningIsAlive`); lasting truncation brings the limit to its floor (`ReachesFloor`) |
| `Chat` | 2 workers, 3 interchangeable requests, 2 connections each, 1 stalled commit, 1 edit of the file, 1 restart | records, usage rows and replies agree on every path (`Accounted`); open transactions are bounded by the writes that timed out (`PoisonBounded`); no request is without a route unless the file had none (`RoutesKept`) |
| `Pipeline` | texts of up to 3 words and 3 longer ones; 378 plans of a language model; 2 answers that conflict, silence, unreadable choices, failure | plans of the rules run as they stand and lose no text (`PlansRunnable`); sections come in dependency order (`PartsInOrder`); no sub-task or failure is forgotten (`AllTold`); conflicts are named exactly (`ConflictsTold`); the context is complete (`ContextKept`) |
| `PipelineSplit` | the same | violated: `CarriesRequest` (finding) |

**Bounds.** Two clients suffice for every race in the pool, because actions are
atomic and a race is between a holder and one other; two sessions are needed for
round-robin, and a third for the victim that `acquire_session` rotates when two
are in the pool and none is ACTIVE; limit 2 distinguishes a used from a used-up
session; with TTL 0 a session is fresh, then past its TTL; one outage of the
store falls into any operation. `MaxCreated`, `MaxPicks`, `MaxRotations` and
`MaxOutages` stop the model, not the program. In the store, TTL 2 and 3 around a
window of 2 give rows outside it, inside it and expired; two keys are needed for
a snapshot that goes stale while the other is refreshed. Two workers race for
one key: what one reads, the other replaces. In the executor, three sub-tasks
give chains, forks, joins and all cycles up to length three. In the fallback, a
cooldown of 3 is outlasted by some backoffs and not by others. Of two accounts
one can recover or be written while the other raises; marks fall at any moment
between two turns of the recovery task, so that with a cooldown and an interval
of 2 it comes at the end of a cooldown and one tick after it; the files add an
account, reorder them, or leave them out; what two workers do to each other they
do to one row. Confirmations do not interact; two of them show that.

In the adaptive manager a window of 4 reaches every verdict and is smaller than
the buffer; `AdviceFloor` 3 lies inside it; from 24 the cuts go to 21 and then to
the floor 20, from 20 a raise goes to 22; two loops are one that is being stopped
and one started meanwhile. In `Chat` a worker pair is needed for one to wait for
the lock of the other, two connections for one to be poisoned and one not, three
requests for a stall, a time-out and a request after both; one edit is a good file
that turns bad in each possible way. The words of `Pipeline` weigh 2500 tokens, so
that two exceed the threshold of 4000 and four make a text complex; the longer
texts have fewer words than chunks, a preface before the steps, and a long step.
Plans repeat, permute or invent identifiers and have cycles.

`SessionPool` (clients) and `Chat` (requests, workers) use symmetry; both check
safety only.

**Deadlock** is checked, except in the runs of the executor and the
confirmation, which end when everything has been answered.

**Fairness.** The event loop runs every ready coroutine, `asyncio.Lock` and
`Semaphore` serve waiters in order, timers go off: weak fairness of the
coroutines' next steps and of time. Every call of an adapter or of the webhook
ends since httpx has timeouts. In the store, clients may keep taking the lock,
and the sweep, served in order, gets it still: strong fairness. Nothing is
assumed of clients, of answers or of success. In the account manager a method
that has begun ends (weak, `Proceeds`), and SQLite does not raise at the recovery
task for ever: if the task runs again and again, so it comes to the end of its
accounts (`SweepEnds`). This is needed: the loop stops at the first account whose
write fails, and accounts that are limited again and again could otherwise keep
later ones from their turn. Time is strongly fair there and in the store, because
requests that keep coming interrupt its passing but do not stop it. In
`Adaptive`, sleeping loops wake, cancellations arrive and `stop` returns (weak);
nothing is assumed of requests or controllers. In `Chat` requests proceed (weak).

## 4. What is proved

All theorems are about the specifications that the runs check, for all values of
the constants that satisfy the named assumptions (no bound on clients, limits,
graphs, chains, delays, workers, requests, connections, windows). TLC checked the
inductive invariants first. Type invariants are proved (`TypeCorrect` in every
module of proofs) and not checked by the runs.

* `SessionPoolProofs`: `OneActiveSession`, `OvershootBound`, `ActiveUnderLimit`,
  `RowsMirrorPool` (inductive with the types), `RoundRobinFair`, and that the pool
  implements `SessionLending`. For the limits the
  invariant adds to the type invariant that held sessions were issued and, for
  every session, that an ACTIVE one is under its limit and that messages plus
  holders are at most `MaxMessages - 1` plus the number of clients. The first
  conjunct makes the second inductive: only a session under its limit is lent,
  and a release turns a holder into a message. For the fairness the invariant
  (`RoundOnArc`) puts the usable sessions on a circle in the order in which
  `acquire_session` lists them: those already picked in a round are an arc of it
  that ends where the index points, and a new round begins when the arc would
  close, so that the next pick lies outside it.
* `SessionStoreProofs`: `RowIsLatest`, for any number of workers; its invariant
  adds that a refresh inside its hook, which holds its worker's lock, has read
  the version last written, unless the key was overtaken (`LockCurrent`): within
  a worker the lock keeps what was read true until it is written back. That a
  worker alone on its store is never overtaken is `AloneNotOvertaken`, and then
  both theorems hold without the exception. `ShippedSweepAtomic`, which is not a
  matter of the lock: with a hook that does not suspend, what a snapshot or a
  lookup calls expired still is when it is deleted, unless the key was overtaken
  (`SnapshotHolds`). And `KeptAlive`, whoever else works on the store, for every
  interval that is shorter than the window and the TTLs (`Paced`, the
  hypothesis): a row outlives the sleep of the loop, and in the middle of a
  sweep it outlives the next sleep or is still to be visited (`InTime`).
* `ParallelExecutorProofs`: `SessionsReturned`, `RetriesReported`, and, for
  lists that name no id twice, `DependenciesFirst`, `CycleExact`, that no layer
  is empty, and that the executor implements `DagRun`. The invariant says where
  a coroutine may be given the layers that are over (`Placed`), how its failures
  relate to its place (`Counted`), and that entered coroutines fit the semaphore
  (`Bounded`). For the cycles, two inductions on the number of the layer: a set
  of sub-tasks that wait for each other is disjoint from every layer, and layers
  that stop short leave such a set behind. Unique ids are a hypothesis because
  the theorems are false without it (section 5).
* `ProviderProofs`, of the fallback manager: `NoNeedlessFailure`, and, if all
  calls share a manager (`OneManager`), `StartsOnlyOnRested` and
  `LateSendsBounded`. The invariant is that resting providers are faulty and that
  every entry a call has left behind is of a faulty provider (`PassedOver`); with
  one manager, the cooldown is the rest due (`Mirrored`), and the late sends of a
  call are among the retries it has made at that entry (`LateCounted`). Without
  the hypothesis they are false: see the finding of `FallbackPerRequest`.
* `ProviderProofs`, of the confirmation: `ListsOpenQuestions`, that it
  implements `Dialog`, and that in simulation mode an accepted answer is the one
  returned. The invariant (`Asked`) ties a request's record to where its
  coroutine is.
* `AccountsProofs`: `LimitsRespected`, `RecoveredInTime`, `TableMirrorsMemory`,
  `TurnsTaken`, for any number of workers. The invariant (`Resting`) is that an
  account with rest due as far as a worker knows is limited in that worker's
  memory, and one with rest due as far as the table knows is limited in the table,
  and that its age there plus that rest is at most the cooldown, so that neither a
  recovery nor a restart finds it due; `Forgotten` says that a stopped process has
  an empty memory. `AloneTableExact`: the table of a worker that has it to itself
  has no foreign rows and equals its memory after every statement. Turns are an
  arc of the active accounts, as in the pool (`InTurn`); whatever changes the set
  of active accounts begins a round.
* `AdaptiveProofs`: `LimitsBounded` (limits that start inside the bounds of the
  code stay inside), `RunningIsAlive`, `AdviceMatches`, `NoFlapping`.
  `RunningIsAlive` is inductive with the types: whoever makes a loop end does so
  after `running` was cleared, and a start makes a new loop whatever the handle
  holds. `AdviceMatches` follows from arithmetic on the counts of the window. For
  `NoFlapping` the invariant (`CutsRemembered`) bounds from below what is left in
  the window of the bad records that called for the last cut: a full window loses
  at most one of them to each new record, one that still fills loses none and is
  only diluted. Its hypotheses are that the window fits the buffer and that a
  full window turns after at most 8 records for the messages and 17 for the
  sessions (the code's 20 in 100: 6 and 5). The bounds are needed: a window of 40
  that holds 3 records, one of them truncated, calls for a cut and 8 good records
  later for a raise.
* `ChatProofs`: `Accounted`, `PoisonBounded`, `RoutesKept`. The invariant gives,
  for every place of a request, the records and rows made so far (nothing before
  the chain or the aggregator has answered, one record inside a commit; `Books`);
  bounds the open transactions of a worker by its time-outs; and says that, until
  an edit leaves the file without a route, the file and the rules of every worker
  have one (`RoutesLoaded`).
* `PipelineProofs`: `PlansRunnable`, `PartsInOrder`, `AllTold`, `ConflictsTold`,
  `ContextKept`, for all texts, plans of a language model and answers. The
  invariant (`Sound`) is short: a plan is well formed and, in the flow of the
  rules, is the one they make of the text; the results answer it; the context is
  what recording them leaves; the reply was merged from them. The work is in
  lemmas about the algorithms: the chunks, files and steps of a split cut the text
  into consecutive pieces of which every word is in exactly one (`Pieces`); the
  order of the identifiers always takes the least one that is released
  (`Sorted`), and stops short only of a cycle; the sets of files that
  two answers share are those the conflicts name (`Told`).

The refinements are proved as implication of initial states and steps. What a
recursive function computes (the layers, the order, the context, the boundaries
of chunks) is proved by induction in the form of a least counterexample in a set
of naturals, since a principle of induction with a parameter for the formula is
not available to the prover. Every invariant and every action property that a
passing run checks is thereby proved. Model-checked only: liveness (`Answers`,
`Ends`, `QuestionsEnd`, `NoRowLingers`, `RecoversEventually`, `ReachesFloor`),
which the prover does not handle.

## 5. Findings

The three violated runs, with their quotes, are in `PROJECT.json`:

* the hybrid splitter hands the rules an empty text (`PipelineSplit`);
* an answer that comes between the timeout and the coroutine's turn is
  acknowledged and dropped (`ConfirmationLateAnswer`);
* health does not outlive a request (`FallbackPerRequest`).

Seen while modelling, and not made into a run:

* Pool. Rotation keeps the old session in the pool (`session_pool.py:366`), which
  grows without bound; `docs/session-manager.md:296` promises at most
  `max_sessions` in memory.
* Pool. `docs/session-manager.md:136` calls ERROR unrecoverable; `release_session`
  turns an ERROR session FULL at its limit (`session_pool.py:215`), after which it
  may be rotated. It is never lent again, so no property breaks.
* Pool. `session_pool.py:9-11` says that its state survives restarts; rows are
  written and never read back.
* Pool. `docs/performance-optimization.md:331-335` counts on parallel sessions; as
  `OneActiveSession` shows, the sub-tasks share one.
* Store. With a `_do_refresh` that suspends, the sweep deletes without the lock
  rows that were saved anew after its snapshot (`session.py:242`;
  `ShippedSweepAtomic` is about the hook in the repository, which does not
  suspend).
* Store. `_lock` is one of asyncio, in one process, and `--workers 2` runs two on
  one `sessions.db`. A save or a delete by one worker between the SELECT and the
  INSERT OR REPLACE of the other's refresh (`session.py:150-171`) is undone; a row
  saved anew between the other's snapshot or lookup and its DELETE
  (`session.py:100-107`, `185-190`, `238-242`) is lost. With the hook in the
  repository the gap is a few statements wide, with one that awaits the bridge as
  wide as that call. These keys are the exceptions (`overtaken`) of `RowIsLatest`
  and `ShippedSweepAtomic`, which show that nothing else goes wrong.
* Executor. A list that names an id twice breaks the order of the layers
  (`parallel_executor.py:378`): every occurrence decrements, the last one's
  dependencies count. A language model writes the ids, and nothing checks them.
* Executor. `docs/session-manager.md:125` promises a backoff between retries of a
  sub-task; the executor retries at once.
* Fallback. `mark_unhealthy` says that it removes a provider from the chain; calls
  that are in a pause between attempts go on with it (bounded by
  `LateSendsBounded`).
* Confirmation. `owui.py:82-84` describes polling; `_poll_response` is called only
  if the event is not set after the wait for it succeeded, which cannot be.
* Accounts. `remove_account` deletes the row; an account that `accounts.yaml`
  lists is back, active, after the next restart or reload.
* Accounts. A worker reads the table only when it starts
  (`multi_account.py:249-254`): what one worker adds, removes or marks the other
  does not know of, and `get_account` there goes on choosing from its own
  memory. `_load_config_accounts` writes the memory of its worker into the table
  (line 290), and so may reset a status that another worker has stored, although
  line 286 says that the file does "not reset status". These rows are the
  exception (`foreign`) of `TableMirrorsMemory`, and `LimitsRespected` speaks of
  the worker that was told of the limit and of those that start while the table
  has it.
* Accounts. `mark_account_status` ignores whether `update_status` found a row
  (`multi_account.py:414`): after an `add_account` whose write raised, marking
  the account returns True and a restart forgets the mark. After a restart
  `LimitsRespected` is about the limits that are in the table.
* Router. `docs/configuration.md:314` reloads "the router" with one request; one
  worker process of several gets it. A `routing_rules:` with nothing under it is
  assigned before the reload raises, and every later request is an error.
* Costs. `record_usage` does not roll back (`cost.py:164`): an INSERT that
  times out leaves its transaction open, the next read on that connection freezes
  its snapshot, and then every turn of that connection refuses its row and shows
  old totals until the process ends. `PoisonBounded` says how far this goes, not
  that it does not happen.
* Costs. An error of SQLite after the provider has answered is no RuntimeError
  (`main.py:473`): the client gets an internal server error for an answer that
  was recorded as a success.
* Costs. Streams are neither recorded nor billed, merged answers are not billed,
  and an answer of a fallback provider is billed to the primary one, whose class
  `main.py:470` names.
* Adaptive. Nothing in the router constructs `AutoTuner`; `apply_recommendations`
  replaces the manager's own configuration, which the pool does not read again.
  A system without requests counts as one without truncation, and its limits rise.
* Pipeline. `docs/session-manager.md:331` lets a request whose sub-tasks all fail
  fall through to a single provider; `main.py:319-340` returns the aggregation.
* Pipeline. Results of earlier sub-tasks are to be injected into later prompts
  (`docs/session-manager.md:151-158`); `main.py:303` prepares all prompts before
  any sub-task runs, and drops what it gets.
* Pipeline. `docs/session-manager.md:100` splits at two *distinct* file paths; the
  detector counts mentions. `:109` has the rules tried first; the hybrid asks the
  model first (as `:114` says).
* Pipeline. A sub-task's description is cut at 300 characters and its context at
  1000 (left out of the model), so that long chunks are told in part.
* Pipeline. The text merged by a language model omits failures and conflicts; only
  the metadata of the reply name them (which is what `AllTold` and
  `ConflictsTold` are about).

## 6. Not modelled

* Adapters, logging, request models and metrics are input and output without
  decisions of their own. The analyzer is a pure scoring; its outcome, the type of
  a request, decides nothing but which rule is read. `confirmation/cli.py` is a
  blocking prompt that nothing calls.
* Endpoints that only read, or that wrap an operation of a modelled component.
* Of the store with several workers: a statement that finds the database locked
  by another worker for longer than SQLite waits, and raises (the cost tracker's
  model has this; in the store a client gets an error, and the sweep is abandoned
  as after a hook that raises, but rows may then linger). Of the accounts with
  several workers: two workers with a SQLite that raises are covered by the proofs
  but not by the run; a transaction that a raising call has left open is one that
  the other workers would wait for, and is modelled by its outcomes only.
* The pool's rows under several workers. Each worker's pool saves under ids of its
  own, and `SessionPool` has one worker on the store; another worker's background
  refresh of such a row, overlapping with a save, could write an older message
  count back (the first store entry of section 5 on workers), which
  `RowsMirrorPool` does not cover.
* In the cost tracker, an error of SQLite other than a lock that is not had in
  time is taken to leave no transaction open, as a full disk does.
* Inside the modelled parts: the text of prompts and messages, the layout of
  sections, the fields of statistics, latencies, prices, budgets and the columns
  of reports, `inject_context` (its result is dropped), the `__main__`
  demonstrations.

## 7. What is left

1. Several calls of `execute` at once on one pool: each has a semaphore of its
   own, so that the sessions in use are bounded by neither.
2. Budgets: `check_budget` reads what other requests have not yet written.
3. The analyzer's scoring, as an algorithm over features.
4. A bound on the growth of the pool by rotations (section 5). The code keeps
   none, so that it would be a property of how clients use the pool.
