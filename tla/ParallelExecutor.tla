-------------------------- MODULE ParallelExecutor ---------------------------
(***************************************************************************)
(* router/parallel_executor.py: one call of ParallelExecutor.execute, its   *)
(* topological layers, and the coroutines that run the sub-tasks of a layer *)
(* behind a semaphore, each with its attempts.                              *)
(*                                                                         *)
(* The sub-tasks come from a splitter; LLMTaskSplitter passes on whatever   *)
(* ids and dependencies a model wrote, so they may be cyclic, name unknown  *)
(* ids or repeat an id.  A repeated dependency is counted and discharged    *)
(* twice, so the dependencies are a set.                                    *)
(*                                                                         *)
(* The pool either lends a session or raises; release_session never raises. *)
(* A timeout of adapter.send and an error of it are both a failed attempt.  *)
(***************************************************************************)
EXTENDS Naturals, Sequences, FiniteSets

CONSTANTS
  Inputs,          \* the lists of sub-tasks, sequences of [id, deps]
  MaxRetries,      \* max_retries
  MaxConcurrency   \* max_concurrency

ASSUME ExecutorAssumption ==
  /\ \A ts \in Inputs :
       /\ ts \in Seq([id : Nat, deps : SUBSET Nat])
       /\ \A i \in DOMAIN ts : IsFiniteSet(ts[i].deps)
  /\ MaxRetries \in Nat
  /\ MaxConcurrency \in Nat \ {0}

VARIABLES
  tasks,      \* the argument sub_tasks
  stage,      \* where execute is: "called", "running", "returned" or "raised"
  finished,   \* the keys of results_map: ids of the layers that are over
  pc,         \* where the coroutine of each id is
  failures,   \* its failed attempts, retries_used
  succeeded,  \* the ids whose result is a success
  lent        \* sessions acquired and not yet released

vars == <<tasks, stage, finished, pc, failures, succeeded, lent>>

-----------------------------------------------------------------------------
(* _topological_layers.                                                    *)

\* The dependencies by id (all_ids, task_map, valid_deps): of sub-tasks with the
\* same id the last one counts, and dependencies on unknown ids are ignored.
GraphOf(ts) ==
  LET ids == {ts[i].id : i \in DOMAIN ts}
      Last(t) == CHOOSE i \in DOMAIN ts :
                   /\ ts[i].id = t
                   /\ \A j \in DOMAIN ts : ts[j].id = t => j <= i
  IN  [t \in ids |-> ts[Last(t)].deps \cap ids]

Ids     == DOMAIN GraphOf(tasks)
Deps(t) == GraphOf(tasks)[t]

\* The decrements of in_degree[id] once the ids of done have been processed:
\* dependents has an entry for every sub-task with that id.
Discharged(id, done) ==
  {p \in (DOMAIN tasks) \X done :
     tasks[p[1]].id = id /\ p[2] \in tasks[p[1]].deps}

\* Mutated form: dependencies on unknown ids count too.
LayerCountingUnknown(done) ==
  {id \in Ids \ done :
     \E i \in DOMAIN tasks :
       /\ tasks[i].id = id
       /\ Cardinality(tasks[i].deps) = Cardinality(Discharged(id, done))}

\* The layer that follows when the ids of done are in the layers before it.
Layer(done) ==
  {id \in Ids \ done :
     Cardinality(Deps(id)) = Cardinality(Discharged(id, done))}

\* The ids in the first n layers.
Layered[n \in Nat] ==
  IF n = 0 THEN {} ELSE Layered[n - 1] \cup Layer(Layered[n - 1])

\* Kahn's algorithm runs out of ready sub-tasks before it has placed them all.
CycleDetected == Layered[Cardinality(Ids)] # Ids

-----------------------------------------------------------------------------
PC == {"idle", "queued", "acquire", "send", "release", "recover", "done"}

TypeOK ==
  /\ tasks \in Inputs
  /\ stage \in {"called", "running", "returned", "raised"}
  /\ finished \subseteq Ids
  /\ pc \in [Ids -> PC]
  /\ failures \in [Ids -> 0 .. MaxRetries + 1]
  /\ succeeded \subseteq Ids
  /\ lent \in Nat

\* The coroutines inside the semaphore, which is held over all attempts.
Entered == {t \in Ids : pc[t] \in {"acquire", "send", "release", "recover"}}

Goto(t, place) == pc' = [pc EXCEPT ![t] = place]

-----------------------------------------------------------------------------
\* execute up to its first await: the layers are computed before anything runs.
Begin ==
  /\ stage = "called"
  /\ \/ /\ CycleDetected
        /\ stage' = "raised"
        /\ UNCHANGED pc
     \/ /\ ~CycleDetected
        /\ stage' = IF Ids = {} THEN "returned" ELSE "running"
        /\ pc' = [t \in Ids |-> IF t \in Layer({}) THEN "queued" ELSE "idle"]
  /\ UNCHANGED <<tasks, finished, failures, succeeded, lent>>

\* _execute_with_semaphore.
Enter(t) ==
  /\ pc[t] = "queued"
  /\ Cardinality(Entered) < MaxConcurrency
  /\ Goto(t, "acquire")
  /\ UNCHANGED <<tasks, stage, finished, failures, succeeded, lent>>

\* The pool lends a session and adapter.send is called.
Acquired(t) ==
  /\ pc[t] = "acquire"
  /\ lent' = lent + 1
  /\ Goto(t, "send")
  /\ UNCHANGED <<tasks, stage, finished, failures, succeeded>>

\* Mutated form: one retry too many.
AttemptFailsOnceMore(t) ==
  /\ failures' = [failures EXCEPT ![t] = @ + 1]
  /\ Goto(t, IF failures[t] <= MaxRetries THEN "acquire" ELSE "done")
  /\ UNCHANGED <<tasks, stage, finished, succeeded>>

\* An attempt is over without a result: retry at once, or give up.
AttemptFails(t) ==
  /\ failures' = [failures EXCEPT ![t] = @ + 1]
  /\ Goto(t, IF failures[t] < MaxRetries THEN "acquire" ELSE "done")
  /\ UNCHANGED <<tasks, stage, finished, succeeded>>

\* acquire_session raises: nothing to release.
AcquireFails(t) ==
  /\ pc[t] = "acquire"
  /\ AttemptFails(t)
  /\ UNCHANGED lent

\* adapter.send returns, raises or is cancelled by the timeout.
SendEnds(t) ==
  /\ pc[t] = "send"
  /\ Goto(t, "release") \/ Goto(t, "recover")
  /\ UNCHANGED <<tasks, stage, finished, failures, succeeded, lent>>

\* release_session after a response: the sub-task has its result.
Release(t) ==
  /\ pc[t] = "release"
  /\ lent' = lent - 1
  /\ succeeded' = succeeded \cup {t}
  /\ Goto(t, "done")
  /\ UNCHANGED <<tasks, stage, finished, failures>>

\* Mutated forms: no finally clause; a retry that is not counted.
RecoverLeaks(t) ==
  /\ pc[t] = "recover"
  /\ AttemptFails(t)
  /\ UNCHANGED lent
RecoverUncounted(t) ==
  /\ pc[t] = "recover"
  /\ lent' = lent - 1
  /\ Goto(t, "acquire")
  /\ UNCHANGED <<tasks, stage, finished, failures, succeeded>>

\* release_session in the finally clause after a failure.
Recover(t) ==
  /\ pc[t] = "recover"
  /\ lent' = lent - 1
  /\ AttemptFails(t)

\* Mutated form: the first result of a layer starts the next one.
LayerEndsEarly ==
  LET over == finished \cup Layer(finished)
  IN /\ stage = "running"
     /\ \E t \in Layer(finished) : pc[t] = "done"
     /\ finished' = over
     /\ stage' = IF over = Ids THEN "returned" ELSE "running"
     /\ pc' = [t \in Ids |-> IF t \in Layer(over) THEN "queued" ELSE pc[t]]
     /\ UNCHANGED <<tasks, failures, succeeded, lent>>

\* asyncio.gather has the results of the whole layer; the next layer starts, or
\* execute returns.
LayerEnds ==
  LET over == finished \cup Layer(finished)
  IN /\ stage = "running"
     /\ \A t \in Layer(finished) : pc[t] = "done"
     /\ finished' = over
     /\ stage' = IF over = Ids THEN "returned" ELSE "running"
     /\ pc' = [t \in Ids |-> IF t \in Layer(over) THEN "queued" ELSE pc[t]]
     /\ UNCHANGED <<tasks, failures, succeeded, lent>>

-----------------------------------------------------------------------------
Init ==
  /\ tasks \in Inputs
  /\ stage = "called"
  /\ finished = {}
  /\ pc = [t \in Ids |-> "idle"]
  /\ failures = [t \in Ids |-> 0]
  /\ succeeded = {}
  /\ lent = 0

Step(t) ==
  \/ Enter(t)
  \/ Acquired(t)
  \/ AcquireFails(t)
  \/ SendEnds(t)
  \/ Release(t)
  \/ Recover(t)

Next ==
  \/ Begin
  \/ \E t \in Ids : Step(t)
  \/ LayerEnds

Spec == Init /\ [][Next]_vars

AllIds == UNION {DOMAIN GraphOf(ts) : ts \in Inputs}

\* Ready coroutines run, waiters of the semaphore and of the pool's lock are
\* served in order, and wait_for ends every send.
FairSpec ==
  /\ Spec
  /\ WF_vars(Begin)
  /\ \A t \in AllIds : WF_vars(t \in Ids /\ Step(t))
  /\ WF_vars(LayerEnds)

-----------------------------------------------------------------------------
(* Properties                                                              *)

\* No list names an id twice (TaskSplitter numbers its sub-tasks; LLMTaskSplitter
\* takes ids as they come).
UniqueIds ==
  \A ts \in Inputs : \A i, j \in DOMAIN ts : ts[i].id = ts[j].id => i = j

\* A sub-task is sent only when everything it depends on has its result ("Layer
\* N contains sub-tasks whose dependencies are all in layers < N").
DependenciesFirst ==
  \A t \in Entered : Deps(t) \subseteq finished

\* The outcome of each sub-task, and that of execute, as the caller sees them.
Status ==
  [t \in Ids |->
     IF pc[t] \in {"idle", "queued"} THEN "new"
     ELSE IF pc[t] # "done" THEN "started"
     ELSE IF t \in succeeded THEN "ok" ELSE "failed"]
Answer ==
  IF stage = "returned" THEN "returned"
  ELSE IF stage = "raised" THEN "refused" ELSE "none"

Dag == INSTANCE DagRun WITH Graphs <- {GraphOf(ts) : ts \in Inputs},
                            deps <- GraphOf(tasks),
                            status <- Status,
                            answer <- Answer

\* The executor implements DagRun: no sub-task starts before its dependencies
\* have an outcome, none runs twice, and execute returns once all have one.
\* (Of repeated ids only the last sub-task counts.)
RunsDag == Dag!Spec

\* execute raises exactly for cyclic dependencies: sub-tasks of which each waits
\* for another one of them.
CycleExact ==
  LET Cyclic == \E S \in (SUBSET Ids) \ {{}} : \A t \in S : Deps(t) \cap S # {}
  IN  stage # "called" => (stage = "raised" <=> Cyclic)

\* Whatever fails, every session that was acquired is released once and no more
\* than MaxConcurrency are out at a time; none is out when execute is over.
SessionsReturned ==
  /\ lent <= MaxConcurrency
  /\ lent = Cardinality({t \in Ids : pc[t] \in {"send", "release", "recover"}})
  /\ stage # "running" => lent = 0

\* A success counts the failed attempts before it, and a sub-task fails only
\* after MaxRetries retries: the results tell how often the bridge was asked.
RetriesReported ==
  \A t \in Ids : pc[t] = "done" =>
    IF t \in succeeded THEN failures[t] <= MaxRetries
                       ELSE failures[t] = MaxRetries + 1

\* Every call of execute returns or raises.
Answers == <>(stage \in {"returned", "raised"})
=============================================================================
