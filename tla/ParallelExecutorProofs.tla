----------------------- MODULE ParallelExecutorProofs ------------------------
(***************************************************************************)
(* Proofs about ParallelExecutor: for every list of sub-tasks, every number *)
(* of retries and every concurrency.                                        *)
(***************************************************************************)
EXTENDS ParallelExecutor, TLAPS, FiniteSetTheorems, WellFoundedInduction

\* The coroutines that hold a session.
Out == {t \in Ids : pc[t] \in {"send", "release", "recover"}}

\* Where a coroutine may be, given the layers that are over.
Placed ==
  /\ stage \in {"called", "raised"} => finished = {} /\ \A t \in Ids : pc[t] = "idle"
  /\ stage = "returned" => \A t \in Ids : pc[t] = "done"
  /\ \A t \in finished : pc[t] = "done"
  /\ \A t \in Ids : pc[t] # "idle" => t \in finished \cup Layer(finished)
  /\ \A t \in succeeded : pc[t] = "done"

\* How the failures of a coroutine relate to where it is.
Counted ==
  \A t \in Ids :
    /\ pc[t] \in {"idle", "queued"} => failures[t] = 0
    /\ pc[t] # "done" => failures[t] <= MaxRetries
    /\ pc[t] = "done" => IF t \in succeeded THEN failures[t] <= MaxRetries
                                            ELSE failures[t] = MaxRetries + 1

\* The semaphore and the sessions.
Bounded ==
  /\ Cardinality(Entered) <= MaxConcurrency
  /\ lent = Cardinality(Out)

-----------------------------------------------------------------------------
(* Lemmas on the input and its layers.                                     *)

\* A list of sub-tasks has finitely many ids.
LEMMA IdsFinite ==
  ASSUME NEW ts \in Inputs
  PROVE  IsFiniteSet(DOMAIN GraphOf(ts))
<1> DEFINE ids == {ts[i].id : i \in DOMAIN ts}
           f   == [i \in DOMAIN ts |-> ts[i].id]
<1>1. DOMAIN ts = 1 .. Len(ts) /\ Len(ts) \in Nat
  BY ExecutorAssumption
<1>2. IsFiniteSet(DOMAIN ts)
  BY <1>1, FS_Interval
<1>3. f \in Surjection(DOMAIN ts, ids)
  BY DEF Surjection
<1>4. IsFiniteSet(ids)
  BY <1>2, <1>3, FS_Surjection
<1> QED
  BY <1>4 DEF GraphOf

\* With unique ids the dependencies of an id are those of its sub-task.
LEMMA UniqueDeps ==
  ASSUME UniqueIds, tasks \in Inputs, NEW i \in DOMAIN tasks
  PROVE  /\ tasks[i].id \in Ids
         /\ Deps(tasks[i].id) = tasks[i].deps \cap Ids
<1> DEFINE t == tasks[i].id
           P(j) == /\ tasks[j].id = t
                   /\ \A k \in DOMAIN tasks : tasks[k].id = t => k <= j
           last == CHOOSE j \in DOMAIN tasks : P(j)
<1>1. \A k \in DOMAIN tasks : tasks[k].id = t => k = i
  BY DEF UniqueIds
<1>2. DOMAIN tasks = 1 .. Len(tasks) /\ Len(tasks) \in Nat
  BY ExecutorAssumption
<1>3. P(i)
  BY <1>1, <1>2
<1>4. last = i
  <2>1. last \in DOMAIN tasks /\ P(last)
    BY <1>3
  <2> QED
    BY <1>1, <2>1
<1>5. DOMAIN GraphOf(tasks) = {tasks[j].id : j \in DOMAIN tasks}
  BY DEF GraphOf
<1>6. GraphOf(tasks)[t] = tasks[last].deps \cap {tasks[j].id : j \in DOMAIN tasks}
  BY DEF GraphOf
<1> QED
  BY <1>4, <1>5, <1>6 DEF Ids, Deps

\* With unique ids the counters of Kahn's algorithm do their job: an id is in a
\* layer only if all it depends on is in the layers before it.
LEMMA LayerReady ==
  ASSUME UniqueIds, tasks \in Inputs, NEW done \in SUBSET Ids, NEW t \in Layer(done)
  PROVE  Deps(t) \subseteq done
<1>1. PICK i \in DOMAIN tasks : tasks[i].id = t
  BY DEF Layer, Ids, GraphOf
<1>2. Deps(t) = tasks[i].deps \cap Ids
  BY <1>1, UniqueDeps
<1>3. IsFiniteSet(Deps(t))
  BY <1>2, IdsFinite, FS_Subset DEF Ids
<1> DEFINE ds == Discharged(t, done)
           met == Deps(t) \cap done
           f  == [p \in ds |-> p[2]]
<1>4. \A p \in ds : p = <<i, p[2]>> /\ p[2] \in met
  <2> SUFFICES ASSUME NEW p \in ds PROVE p = <<i, p[2]>> /\ p[2] \in met
    OBVIOUS
  <2>1. PICK j \in DOMAIN tasks, d \in done :
          p = <<j, d>> /\ tasks[j].id = t /\ d \in tasks[j].deps
    BY DEF Discharged
  <2>2. j = i
    BY <1>1, <2>1 DEF UniqueIds
  <2> QED
    BY <1>2, <2>1, <2>2
<1>5. f \in Injection(ds, met)
  BY <1>4 DEF Injection, IsInjective
<1>6. IsFiniteSet(met)
  BY <1>3, FS_Subset
<1>7. Cardinality(ds) <= Cardinality(met)
  BY <1>5, <1>6, FS_Injection
<1>8. Cardinality(ds) = Cardinality(Deps(t))
  BY DEF Layer
<1>9. Cardinality(met) <= Cardinality(Deps(t))
      /\ (Cardinality(Deps(t)) = Cardinality(met) => Deps(t) = met)
  BY <1>3, FS_Subset
<1>10. Cardinality(met) \in Nat /\ Cardinality(Deps(t)) \in Nat
  BY <1>3, <1>6, FS_CardinalityType
<1>11. Deps(t) = met
  BY <1>7, <1>8, <1>9, <1>10
<1> QED
  BY <1>11

\* The input never changes, and neither do its ids.
LEMMA SameTasks == [Next]_vars => tasks' = tasks /\ Ids' = Ids
<1> SUFFICES ASSUME [Next]_vars PROVE tasks' = tasks /\ Ids' = Ids
  OBVIOUS
<1>1. tasks' = tasks
  BY DEF Next, vars, Begin, Step, Enter, Acquired, AcquireFails, AttemptFails,
         SendEnds, Release, Recover, LayerEnds
<1> QED
  BY <1>1 DEF Ids, GraphOf

\* Nor do the layers.
LEMMA SameLayers ==
  ASSUME tasks' = tasks, NEW done, finished' = done
  PROVE  Layer(finished)' = Layer(done)
BY DEF Layer, Discharged, Ids, Deps, GraphOf

\* A layer consists of ids that are not in the layers before it.
LEMMA LayerNew ==
  ASSUME NEW done
  PROVE  Layer(done) \subseteq Ids \ done
BY DEF Layer

-----------------------------------------------------------------------------
(* Type correctness.                                                       *)

\* Every action keeps the state well typed, but for the count of sessions.
Typed ==
  /\ tasks \in Inputs
  /\ stage \in {"called", "running", "returned", "raised"}
  /\ finished \subseteq Ids
  /\ pc \in [Ids -> PC]
  /\ failures \in [Ids -> Nat]
  /\ succeeded \subseteq Ids

LEMMA TypedStep == Typed /\ [Next]_vars => Typed'
<1> SUFFICES ASSUME Typed, [Next]_vars PROVE Typed'
  OBVIOUS
<1> USE DEF Typed
<1>1. tasks' = tasks /\ Ids' = Ids
  BY SameTasks
<1>2. CASE Begin
  BY <1>1, <1>2 DEF Begin, PC
<1>3. ASSUME NEW t \in Ids, AttemptFails(t) PROVE Typed'
  BY <1>1, <1>3 DEF AttemptFails, Goto, PC
<1>4. ASSUME NEW t \in Ids, Step(t) PROVE Typed'
  BY <1>1, <1>3, <1>4
  DEF Step, Enter, Acquired, AcquireFails, SendEnds, Release, Recover, Goto, PC
<1>5. CASE LayerEnds
  BY <1>1, <1>5, LayerNew DEF LayerEnds, PC
<1>6. CASE UNCHANGED vars
  BY <1>1, <1>6 DEF vars
<1> QED
  BY <1>2, <1>4, <1>5, <1>6 DEF Next

-----------------------------------------------------------------------------
(* Coroutines run only in their layer.                                     *)

\* A step of one coroutine changes its place only, and leaves it neither idle
\* nor queued; only a coroutine that is neither idle nor done has one.
LEMMA StepMoves ==
  ASSUME Typed, NEW t \in Ids, Step(t)
  PROVE  /\ \E place \in PC \ {"idle", "queued"} :
              pc' = [pc EXCEPT ![t] = place]
         /\ pc[t] \notin {"idle", "done"}
         /\ UNCHANGED <<tasks, stage, finished>>
         /\ \/ UNCHANGED succeeded
            \/ succeeded' = succeeded \cup {t} /\ pc'[t] = "done"
<1> USE DEF Typed
<1>1. CASE Enter(t)
  BY <1>1 DEF Enter, Goto, PC
<1>2. CASE Acquired(t)
  BY <1>2 DEF Acquired, Goto, PC
<1>3. CASE AcquireFails(t)
  BY <1>3 DEF AcquireFails, AttemptFails, Goto, PC
<1>4. CASE SendEnds(t)
  BY <1>4 DEF SendEnds, Goto, PC
<1>5. CASE Release(t)
  BY <1>5 DEF Release, Goto, PC
<1>6. CASE Recover(t)
  BY <1>6 DEF Recover, AttemptFails, Goto, PC
<1> QED
  BY <1>1, <1>2, <1>3, <1>4, <1>5, <1>6 DEF Step

LEMMA PlacedStep == Typed /\ Placed /\ [Next]_vars => Placed'
<1> SUFFICES ASSUME Typed, Placed, [Next]_vars PROVE Placed'
  OBVIOUS
<1> USE DEF Typed
<1>1. tasks' = tasks /\ Ids' = Ids
  BY SameTasks
<1>2. CASE Begin
  <2>1. finished = {} /\ finished' = {} /\ succeeded' = succeeded
        /\ \A t \in Ids : pc[t] = "idle"
    BY <1>2 DEF Begin, Placed
  <2>2. Layer(finished)' = Layer({})
    BY <1>1, <2>1, SameLayers
  <2>3. succeeded = {}
    BY <2>1 DEF Placed
  <2>4. CASE stage' = "raised" /\ UNCHANGED pc
    BY <1>1, <2>1, <2>3, <2>4 DEF Placed
  <2>5. CASE /\ stage' = IF Ids = {} THEN "returned" ELSE "running"
             /\ pc' = [t \in Ids |-> IF t \in Layer({}) THEN "queued" ELSE "idle"]
    BY <1>1, <2>1, <2>2, <2>3, <2>5 DEF Placed
  <2> QED
    BY <1>2, <2>4, <2>5 DEF Begin
<1>3. ASSUME NEW t \in Ids, Step(t) PROVE Placed'
  <2>1. PICK place \in PC \ {"idle", "queued"} : pc' = [pc EXCEPT ![t] = place]
    BY <1>3, StepMoves
  <2>2. /\ pc[t] \notin {"idle", "done"}
        /\ UNCHANGED <<tasks, stage, finished>>
        /\ \/ UNCHANGED succeeded
           \/ succeeded' = succeeded \cup {t} /\ pc'[t] = "done"
    BY <1>3, StepMoves
  <2>3. Layer(finished)' = Layer(finished)
    BY <2>2, SameLayers
  <2>4. t \in Layer(finished) /\ t \notin finished /\ t \notin succeeded
    BY <2>2 DEF Placed
  <2> QED
    BY <1>1, <2>1, <2>2, <2>3, <2>4 DEF Placed
<1>4. CASE LayerEnds
  <2> DEFINE over == finished \cup Layer(finished)
  <2>1. /\ stage = "running"
        /\ \A t \in Layer(finished) : pc[t] = "done"
        /\ finished' = over
        /\ stage' = IF over = Ids THEN "returned" ELSE "running"
        /\ pc' = [t \in Ids |-> IF t \in Layer(over) THEN "queued" ELSE pc[t]]
        /\ succeeded' = succeeded
    BY <1>4 DEF LayerEnds
  <2>2. Layer(finished)' = Layer(over)
    BY <1>1, <2>1, SameLayers
  <2>3. Layer(over) \subseteq Ids \ over
    BY LayerNew
  <2>4. \A t \in over : t \in Ids /\ pc'[t] = "done"
    BY <2>1, <2>3, LayerNew DEF Placed
  <2>5. \A t \in Ids : pc[t] # "idle" => t \in over
    BY DEF Placed
  <2>6. \A t \in succeeded : t \in over
    BY <2>5 DEF Placed
  <2> QED
    BY <1>1, <2>1, <2>2, <2>4, <2>5, <2>6 DEF Placed
<1>5. CASE UNCHANGED vars
  <2>1. Layer(finished)' = Layer(finished)
    BY <1>5, SameLayers DEF vars
  <2> QED
    BY <1>1, <1>5, <2>1 DEF Placed, vars
<1> QED
  BY <1>2, <1>3, <1>4, <1>5 DEF Next

-----------------------------------------------------------------------------
(* Attempts and sessions.                                                  *)

LEMMA CountedStep == Typed /\ Placed /\ Counted /\ [Next]_vars => Counted'
<1> SUFFICES ASSUME Typed, Placed, Counted, [Next]_vars PROVE Counted'
  OBVIOUS
<1> USE DEF Typed
<1>1. tasks' = tasks /\ Ids' = Ids
  BY SameTasks
<1>2. CASE Begin
  BY <1>1, <1>2, ExecutorAssumption DEF Begin, Placed, Counted
<1>3. ASSUME NEW t \in Ids, AttemptFails(t), pc[t] \in {"acquire", "recover"}
      PROVE  Counted'
  BY <1>1, <1>3, ExecutorAssumption DEF AttemptFails, Goto, Counted, Placed
<1>4. ASSUME NEW t \in Ids, Step(t), UNCHANGED failures, pc'[t] # "done",
             UNCHANGED succeeded
      PROVE  Counted'
  BY <1>1, <1>4, StepMoves DEF Counted
<1>5. ASSUME NEW t \in Ids, Release(t) PROVE Counted'
  BY <1>1, <1>5 DEF Release, Goto, Counted
<1>6. ASSUME NEW t \in Ids, Step(t) PROVE Counted'
  <2>1. CASE Enter(t) \/ Acquired(t) \/ SendEnds(t)
    BY <1>4, <1>6, <2>1 DEF Enter, Acquired, SendEnds, Goto
  <2>2. CASE AcquireFails(t) \/ Recover(t)
    BY <1>3, <2>2 DEF AcquireFails, Recover
  <2> QED
    BY <1>5, <1>6, <2>1, <2>2 DEF Step
<1>7. CASE LayerEnds
  <2>1. \A t \in Ids : pc'[t] # pc[t] => pc'[t] = "queued" /\ pc[t] = "idle"
    BY <1>7, LayerNew DEF LayerEnds, Placed
  <2> QED
    BY <1>1, <1>7, <2>1, ExecutorAssumption DEF LayerEnds, Counted
<1>8. CASE UNCHANGED vars
  BY <1>1, <1>8 DEF vars, Counted
<1> QED
  BY <1>2, <1>6, <1>7, <1>8 DEF Next

\* The coroutines that have entered, and those that hold a session, are few.
LEMMA SetsFinite ==
  ASSUME Typed
  PROVE  /\ IsFiniteSet(Entered) /\ Cardinality(Entered) \in Nat
         /\ IsFiniteSet(Out) /\ Cardinality(Out) \in Nat
         /\ Out \subseteq Entered /\ Cardinality(Out) <= Cardinality(Entered)
<1>1. IsFiniteSet(Ids)
  BY IdsFinite DEF Typed, Ids
<1>2. Out \subseteq Entered /\ Entered \subseteq Ids
  BY DEF Out, Entered
<1> QED
  BY <1>1, <1>2, FS_Subset, FS_CardinalityType

LEMMA BoundedStep == Typed /\ Placed /\ Bounded /\ [Next]_vars => Bounded'
<1> SUFFICES ASSUME Typed, Placed, Bounded, [Next]_vars PROVE Bounded'
  OBVIOUS
<1> USE DEF Typed
<1>1. tasks' = tasks /\ Ids' = Ids
  BY SameTasks
<1>2. ASSUME Entered' \subseteq Entered, Out' = Out, lent' = lent PROVE Bounded'
  BY <1>2, SetsFinite, FS_Subset, FS_CardinalityType, ExecutorAssumption
  DEF Bounded
<1>3. ASSUME NEW t \in Ids, Enter(t) PROVE Bounded'
  <2>1. Entered' = Entered \cup {t} /\ Out' = Out
    BY <1>1, <1>3 DEF Enter, Goto, Entered, Out
  <2>2. t \notin Entered
    BY <1>3 DEF Enter, Entered
  <2>3. Cardinality(Entered \cup {t}) = Cardinality(Entered) + 1
    BY <2>2, SetsFinite, FS_AddElement
  <2>4. Cardinality(Entered') = Cardinality(Entered) + 1
    BY <2>1, <2>3
  <2> QED
    BY <1>3, <2>1, <2>4, SetsFinite, ExecutorAssumption DEF Enter, Bounded
<1>4. ASSUME NEW t \in Ids, Acquired(t) PROVE Bounded'
  <2>1. Entered' = Entered /\ Out' = Out \cup {t} /\ t \notin Out
    BY <1>1, <1>4 DEF Acquired, Goto, Entered, Out
  <2> QED
    BY <1>4, <2>1, SetsFinite, FS_AddElement DEF Acquired, Bounded
<1>5. ASSUME NEW t \in Ids, AcquireFails(t) PROVE Bounded'
  <2>1. Entered' \subseteq Entered /\ Out' = Out
    BY <1>1, <1>5 DEF AcquireFails, AttemptFails, Goto, Entered, Out
  <2> QED
    BY <1>2, <1>5, <2>1 DEF AcquireFails
<1>6. ASSUME NEW t \in Ids, SendEnds(t) PROVE Bounded'
  <2>1. Entered' = Entered /\ Out' = Out
    BY <1>1, <1>6 DEF SendEnds, Goto, Entered, Out
  <2> QED
    BY <1>2, <1>6, <2>1 DEF SendEnds
<1>7. ASSUME NEW t \in Ids, Release(t) \/ Recover(t) PROVE Bounded'
  <2>1. Entered' \subseteq Entered /\ Out' = Out \ {t} /\ t \in Out
    BY <1>1, <1>7 DEF Release, Recover, AttemptFails, Goto, Entered, Out
  <2>2. Cardinality(Out') = Cardinality(Out) - 1
    BY <2>1, SetsFinite, FS_RemoveElement
  <2>3. lent' = lent - 1
    BY <1>7 DEF Release, Recover
  <2>4. Cardinality(Entered') <= Cardinality(Entered)
    BY <2>1, SetsFinite, FS_Subset
  <2>5. Cardinality(Entered') \in Nat
    BY <2>1, SetsFinite, FS_Subset, FS_CardinalityType
  <2> QED
    BY <2>2, <2>3, <2>4, <2>5, SetsFinite, ExecutorAssumption DEF Bounded
<1>8. CASE Begin
  <2>1. Entered' = Entered /\ Out' = Out
    BY <1>1, <1>8 DEF Begin, Placed, Entered, Out
  <2> QED
    BY <1>2, <1>8, <2>1 DEF Begin
<1>9. CASE LayerEnds
  <2>1. \A t \in Ids : pc'[t] # pc[t] => pc'[t] = "queued" /\ pc[t] = "idle"
    BY <1>9, LayerNew DEF LayerEnds, Placed
  <2>2. Entered' = Entered /\ Out' = Out
    BY <1>1, <2>1 DEF Entered, Out
  <2> QED
    BY <1>2, <1>9, <2>2 DEF LayerEnds
<1>10. CASE UNCHANGED vars
  BY <1>1, <1>2, <1>10 DEF vars, Entered, Out
<1> QED
  BY <1>3, <1>4, <1>5, <1>6, <1>7, <1>8, <1>9, <1>10 DEF Next, Step

-----------------------------------------------------------------------------
(* The theorems.                                                           *)

IInv == Typed /\ Placed /\ Counted /\ Bounded

LEMMA InitIInv == Init => IInv
<1> SUFFICES ASSUME Init PROVE IInv
  OBVIOUS
<1>1. Typed
  BY DEF Init, Typed, PC
<1>2. Placed /\ Counted
  BY ExecutorAssumption DEF Init, Placed, Counted
<1>3. Entered = {} /\ Out = {}
  BY DEF Init, Entered, Out
<1>4. Bounded
  BY <1>3, FS_EmptySet, ExecutorAssumption DEF Init, Bounded
<1> QED
  BY <1>1, <1>2, <1>4 DEF IInv

\* The inductive invariant.
THEOREM Invariance == Spec => []IInv
<1>1. IInv /\ [Next]_vars => IInv'
  BY TypedStep, PlacedStep, CountedStep, BoundedStep DEF IInv
<1> QED
  BY <1>1, InitIInv, PTL DEF Spec

\* TypeOK is an invariant: in particular no sub-task ever has more failed
\* attempts than max_retries + 1.
THEOREM TypeCorrect == Spec => []TypeOK
<1>1. IInv => TypeOK
  <2> SUFFICES ASSUME IInv PROVE TypeOK
    OBVIOUS
  <2>1. \A t \in Ids : failures[t] \in 0 .. MaxRetries + 1
    BY ExecutorAssumption DEF IInv, Typed, Counted
  <2>2. lent \in Nat
    BY SetsFinite DEF IInv, Bounded
  <2> QED
    BY <2>1, <2>2 DEF IInv, Typed, TypeOK
<1> QED
  BY <1>1, Invariance, PTL

\* Whatever fails, no session is leaked or released twice, and no more than
\* max_concurrency are out at a time.
THEOREM NoSessionLeaks == Spec => []SessionsReturned
<1>1. IInv => SessionsReturned
  <2> SUFFICES ASSUME IInv PROVE SessionsReturned
    OBVIOUS
  <2>1. lent = Cardinality(Out) /\ lent <= MaxConcurrency
    BY SetsFinite, ExecutorAssumption DEF IInv, Bounded
  <2>2. ASSUME stage # "running" PROVE lent = 0
    <3>1. Out = {}
      BY <2>2 DEF IInv, Placed, Typed, Out
    <3> QED
      BY <2>1, <3>1, FS_EmptySet
  <2> QED
    BY <2>1, <2>2 DEF SessionsReturned, Out
<1> QED
  BY <1>1, Invariance, PTL

\* The number of retries in a result is that of the failed attempts.
THEOREM RetriesCorrect == Spec => []RetriesReported
<1>1. IInv => RetriesReported
  BY DEF IInv, Counted, RetriesReported
<1> QED
  BY <1>1, Invariance, PTL

\* With unique ids a coroutine that is under way has its dependencies behind it.
LEMMA UnderWay ==
  ASSUME UniqueIds, IInv, NEW t \in Ids, pc[t] \notin {"idle", "done"}
  PROVE  Deps(t) \subseteq finished
<1>1. t \in Layer(finished)
  BY DEF IInv, Placed
<1> QED
  BY <1>1, LayerReady DEF IInv, Typed

\* With unique ids nothing is sent before what it depends on has a result.
THEOREM DependenciesRespected ==
  ASSUME UniqueIds PROVE Spec => []DependenciesFirst
<1>1. IInv => DependenciesFirst
  BY UnderWay DEF DependenciesFirst, Entered
<1> QED
  BY <1>1, Invariance, PTL

-----------------------------------------------------------------------------
(* The executor implements DagRun.                                         *)

\* The sub-tasks of DagRun are the ids.
LEMMA DagNames ==
  /\ DOMAIN GraphOf(tasks) = Ids
  /\ \A t \in Ids : GraphOf(tasks)[t] = Deps(t)
BY DEF Ids, Deps

\* One coroutine that goes from being queued to its first attempt starts; one
\* that is done is settled; other steps are not seen.
LEMMA CoroutineDag ==
  ASSUME UniqueIds, IInv, NEW t \in Ids, Step(t)
  PROVE  [Dag!Next]_(Dag!vars)
<1> USE DEF IInv, Typed
<1>1. tasks' = tasks /\ Ids' = Ids /\ Answer' = Answer
  BY StepMoves, SameTasks DEF Next, Answer
<1>2. PICK place \in PC \ {"idle", "queued"} : pc' = [pc EXCEPT ![t] = place]
  BY StepMoves
<1>3. /\ pc[t] \notin {"idle", "done"}
      /\ UNCHANGED <<stage, finished>>
      /\ \/ UNCHANGED succeeded
         \/ succeeded' = succeeded \cup {t} /\ pc'[t] = "done"
  BY StepMoves
<1>4. t \notin succeeded
  BY <1>3 DEF Placed
<1>5. Status' = [Status EXCEPT ![t] = Status'[t]]
  BY <1>1, <1>2, <1>3 DEF Status
<1>6. Status'[t] \in {"started", "ok", "failed"}
  BY <1>1, <1>2 DEF Status
<1>7. Status[t] = IF pc[t] = "queued" THEN "new" ELSE "started"
  BY <1>3 DEF Status, PC
<1>8. stage = "running"
  BY <1>3 DEF Placed
<1>9. CASE pc[t] = "queued"
  <2>1. place = "acquire"
    BY <1>2, <1>9
    DEF Step, Enter, Acquired, AcquireFails, SendEnds, Release, Recover, Goto
  <2>2. Status'[t] = "started"
    BY <1>1, <1>2, <2>1 DEF Status
  <2>3. \A d \in Deps(t) : d \in Ids /\ pc[d] = "done"
    BY <1>9, UnderWay DEF Placed
  <2>4. \A d \in Deps(t) : Status[d] \in {"ok", "failed"}
    BY <2>3 DEF Status
  <2>5. Dag!Start(t)
    BY <1>1, <1>5, <1>7, <1>8, <1>9, <2>2, <2>4, DagNames
    DEF Dag!Start, Dag!Settled, Answer
  <2> QED
    BY <2>5, DagNames DEF Dag!Next
<1>10. CASE pc[t] # "queued" /\ Status'[t] # "started"
  <2>1. Dag!Settle(t)
    BY <1>1, <1>5, <1>6, <1>7, <1>10 DEF Dag!Settle
  <2> QED
    BY <2>1, DagNames DEF Dag!Next
<1>11. CASE pc[t] # "queued" /\ Status'[t] = "started"
  <2>1. Status' = Status
    BY <1>5, <1>7, <1>11 DEF Status
  <2> QED
    BY <1>1, <2>1 DEF Dag!vars
<1> QED
  BY <1>9, <1>10, <1>11

\* Every step of the executor is a step of DagRun, or a stutter.
LEMMA DagStep ==
  ASSUME UniqueIds, IInv, [Next]_vars
  PROVE  [Dag!Next]_(Dag!vars)
<1> USE DEF IInv, Typed
<1>1. tasks' = tasks /\ Ids' = Ids
  BY SameTasks
<1>2. CASE Begin
  <2>1. \A t \in Ids : pc[t] = "idle"
    BY <1>2 DEF Begin, Placed
  <2>2. \A t \in Ids : pc'[t] \in {"idle", "queued"}
    BY <1>2, <2>1 DEF Begin
  <2>3. Status = [t \in Ids |-> "new"] /\ Status' = Status
    BY <1>1, <2>1, <2>2 DEF Status
  <2>4. CASE stage' = "raised"
    BY <1>1, <1>2, <2>3, <2>4, DagNames DEF Begin, Answer, Dag!Refuse, Dag!Next
  <2>5. CASE stage' = "running"
    BY <1>1, <1>2, <2>3, <2>5 DEF Begin, Answer, Dag!vars
  <2>6. CASE Ids = {} /\ stage' = "returned"
    <3>1. Dag!Return
      BY <1>1, <1>2, <2>3, <2>6, DagNames DEF Begin, Answer, Dag!Return
    <3> QED
      BY <3>1 DEF Dag!Next
  <2> QED
    BY <1>2, <2>4, <2>5, <2>6 DEF Begin
<1>3. CASE LayerEnds
  <2>1. /\ stage = "running"
        /\ stage' \in {"running", "returned"}
        /\ succeeded' = succeeded
        /\ \A t \in Ids : pc'[t] # pc[t] => pc'[t] = "queued" /\ pc[t] = "idle"
    BY <1>3, LayerNew DEF LayerEnds, Placed
  <2>2. Status' = Status
    BY <1>1, <2>1 DEF Status
  <2>3. CASE stage' = "running"
    BY <1>1, <2>1, <2>2, <2>3 DEF Answer, Dag!vars
  <2>4. CASE stage' = "returned"
    <3>1. Placed'
      BY PlacedStep
    <3>2. \A t \in Ids : pc'[t] = "done"
      BY <1>1, <2>4, <3>1 DEF Placed
    <3>3. \A t \in Ids : Status[t] \in {"ok", "failed"}
      BY <1>1, <2>2, <3>2 DEF Status
    <3>4. Dag!Return
      BY <1>1, <2>1, <2>2, <2>4, <3>3, DagNames
      DEF Answer, Dag!Return, Dag!Settled
    <3> QED
      BY <3>4 DEF Dag!Next
  <2> QED
    BY <2>1, <2>3, <2>4
<1>4. CASE UNCHANGED vars
  BY <1>1, <1>4 DEF vars, Dag!vars, Status, Answer
<1> QED
  BY <1>2, <1>3, <1>4, CoroutineDag DEF Next

\* With unique ids, the executor implements DagRun: it starts no sub-task before
\* its dependencies have an outcome, and answers once all have one.
THEOREM ImplementsDagRun ==
  ASSUME UniqueIds PROVE Spec => RunsDag
<1>1. Init => Dag!Init
  <2> SUFFICES ASSUME Init PROVE Dag!Init
    OBVIOUS
  <2>1. Status = [t \in Ids |-> "new"]
    BY DEF Init, Status
  <2>2. tasks \in Inputs /\ Answer = "none"
    BY DEF Init, Answer
  <2> QED
    BY <2>1, <2>2, DagNames DEF Dag!Init
<1>2. IInv /\ [Next]_vars => [Dag!Next]_(Dag!vars)
  BY DagStep
<1> QED
  BY <1>1, <1>2, Invariance, PTL DEF Spec, RunsDag, Dag!Spec

-----------------------------------------------------------------------------
(* Kahn's algorithm finds exactly the cycles.                              *)

\* Induction over the naturals, for a set of them.
LEMMA Induction ==
  ASSUME NEW T, 0 \in T, \A n \in Nat : n \in T => n + 1 \in T
  PROVE  Nat \subseteq T
<1> DEFINE Rest == Nat \ T
<1> SUFFICES ASSUME Rest # {} PROVE FALSE
  OBVIOUS
<1>1. \E x \in Rest : \A y \in Rest : ~ (<<y, x>> \in OpToRel(<, Nat))
  BY NatLessThanWellFounded, WFMin
<1>2. PICK x \in Rest : \A y \in Rest : ~ (y < x)
  BY <1>1 DEF OpToRel
<1>3. x # 0 /\ x - 1 \in Nat /\ x - 1 < x /\ (x - 1) + 1 = x
  BY <1>2
<1>4. x - 1 \in T
  BY <1>2, <1>3
<1> QED  BY <1>2, <1>3, <1>4

\* A function can be iterated: the recursive definition of its iterates has a
\* solution.
LEMMA Iterates ==
  ASSUME NEW X, NEW a \in X, NEW F \in [X -> X]
  PROVE  \E f \in [Nat -> X] :
           f = [n \in Nat |-> IF n = 0 THEN a ELSE F[f[n - 1]]]
<1> DEFINE Upto(n) == {g \in [0 .. n -> X] :
                         /\ g[0] = a
                         /\ \A k \in 1 .. n : g[k] = F[g[k - 1]]}
           Some(n) == CHOOSE g \in Upto(n) : TRUE
           f == [n \in Nat |-> Some(n)[n]]
<1>1. \A n \in Nat : Upto(n) # {}
  <2> DEFINE T == {n \in Nat : Upto(n) # {}}
  <2>1. 0 \in T
    <3>1. [k \in 0 .. 0 |-> a] \in Upto(0)
      OBVIOUS
    <3> QED  BY <3>1
  <2>2. ASSUME NEW n \in Nat, n \in T PROVE n + 1 \in T
    <3>1. PICK g \in Upto(n) : TRUE
      BY <2>2
    <3> DEFINE h == [k \in 0 .. n + 1 |-> IF k = n + 1 THEN F[g[n]] ELSE g[k]]
    <3>2. g \in [0 .. n -> X] /\ g[n] \in X
      BY <3>1
    <3>3. h \in [0 .. n + 1 -> X] /\ h[0] = a
      BY <3>1, <3>2
    <3>4. ASSUME NEW k \in 1 .. n + 1 PROVE h[k] = F[h[k - 1]]
      <4>1. h[k - 1] = g[k - 1]
        OBVIOUS
      <4>2. CASE k = n + 1
        BY <4>1, <4>2
      <4>3. CASE k # n + 1
        <5>1. k \in 1 .. n /\ h[k] = g[k]
          BY <4>3
        <5> HIDE DEF h
        <5> QED  BY <3>1, <4>1, <5>1
      <4> QED  BY <4>2, <4>3
    <3> HIDE DEF h
    <3>5. h \in Upto(n + 1)
      BY <3>3, <3>4
    <3> QED  BY <3>5
  <2> HIDE DEF T
  <2>3. Nat \subseteq T
    BY <2>1, <2>2, Induction
  <2> QED  BY <2>3 DEF T
<1>2. \A n \in Nat : Some(n) \in Upto(n)
  BY <1>1
<1>3. ASSUME NEW n \in Nat, NEW m \in Nat, NEW g \in Upto(n), NEW h \in Upto(m)
      PROVE  \A k \in Nat : k <= n /\ k <= m => g[k] = h[k]
  <2> DEFINE T == {k \in Nat : k <= n /\ k <= m => g[k] = h[k]}
  <2>1. 0 \in T
    OBVIOUS
  <2>2. ASSUME NEW k \in Nat, k \in T PROVE k + 1 \in T
    <3> SUFFICES ASSUME k + 1 <= n, k + 1 <= m PROVE g[k + 1] = h[k + 1]
      OBVIOUS
    <3>1. g[k] = h[k]
      BY <2>2
    <3>2. k + 1 \in 1 .. n /\ k + 1 \in 1 .. m /\ (k + 1) - 1 = k
      OBVIOUS
    <3>3. g[k + 1] = F[g[(k + 1) - 1]] /\ h[k + 1] = F[h[(k + 1) - 1]]
      BY <3>2
    <3> QED  BY <3>1, <3>2, <3>3
  <2> HIDE DEF T
  <2>3. Nat \subseteq T
    BY <2>1, <2>2, Induction
  <2> QED  BY <2>3 DEF T
<1> HIDE DEF Some
<1>4. f \in [Nat -> X]
  BY <1>2
<1>5. ASSUME NEW n \in Nat, n # 0 PROVE f[n] = F[f[n - 1]]
  <2>1. n - 1 \in Nat /\ n \in 1 .. n
    BY <1>5
  <2>2. Some(n)[n] = F[Some(n)[n - 1]]
    BY <1>2, <2>1
  <2>3. Some(n)[n - 1] = Some(n - 1)[n - 1]
    <3> HIDE DEF Upto
    <3> QED  BY <1>2, <1>3, <2>1
  <2> QED  BY <2>1, <2>2, <2>3
<1>6. f[0] = a
  BY <1>2
<1>7. f = [n \in Nat |-> f[n]]
  OBVIOUS
<1> HIDE DEF f
<1>8. f = [n \in Nat |-> IF n = 0 THEN a ELSE F[f[n - 1]]]
  BY <1>5, <1>6, <1>7
<1> QED  BY <1>4, <1>8

\* The layers one after the other, as _topological_layers builds them.
LEMMA LayersUnfold ==
  /\ Layered \in [Nat -> SUBSET Ids]
  /\ Layered[0] = {}
  /\ \A n \in Nat : Layered[n + 1] = Layered[n] \cup Layer(Layered[n])
<1> DEFINE X == SUBSET Ids
           F == [d \in X |-> d \cup Layer(d)]
           Unfolds(g) == g = [n \in Nat |-> IF n = 0 THEN {}
                                            ELSE g[n - 1] \cup Layer(g[n - 1])]
<1>1. {} \in X /\ F \in [X -> X]
  BY LayerNew
<1>2. PICK f \in [Nat -> X] :
        f = [n \in Nat |-> IF n = 0 THEN {} ELSE F[f[n - 1]]]
  <2> HIDE DEF X, F
  <2> QED  BY <1>1, Iterates
<1>3. \A n \in Nat : n # 0 => F[f[n - 1]] = f[n - 1] \cup Layer(f[n - 1])
  <2>1. f \in [Nat -> X] /\ \A d \in X : F[d] = d \cup Layer(d)
    BY <1>2
  <2>2. \A n \in Nat : n # 0 => f[n - 1] \in X
    <3> HIDE DEF X, F
    <3> QED  BY <2>1
  <2> HIDE DEF X, F
  <2> QED  BY <2>1, <2>2
<1>4. Unfolds(f)
  <2> HIDE DEF F
  <2> QED  BY <1>2, <1>3
<1>5. Layered = CHOOSE g : Unfolds(g)
  BY DEF Layered
<1>6. Unfolds(Layered)
  <2> HIDE DEF Unfolds
  <2> QED  BY <1>4, <1>5
<1>7. Layered[0] = {}
  BY <1>6
<1>8. ASSUME NEW n \in Nat
      PROVE  Layered[n + 1] = Layered[n] \cup Layer(Layered[n])
  <2>1. n + 1 \in Nat /\ n + 1 # 0 /\ (n + 1) - 1 = n
    OBVIOUS
  <2> QED  BY <1>6, <2>1
<1>9. Layered = [n \in Nat |-> Layered[n]]
  BY <1>6
<1>10. \A n \in Nat : Layered[n] \in X
  <2> DEFINE T == {n \in Nat : Layered[n] \in X}
  <2>1. 0 \in T
    BY <1>7
  <2>2. ASSUME NEW n \in Nat, n \in T PROVE n + 1 \in T
    BY <1>8, <2>2, LayerNew
  <2> HIDE DEF T
  <2>3. Nat \subseteq T
    BY <2>1, <2>2, Induction
  <2> QED  BY <2>3 DEF T
<1> HIDE DEF X, Unfolds
<1>11. Layered \in [Nat -> X]
  BY <1>9, <1>10
<1> QED  BY <1>7, <1>8, <1>11 DEF X

\* With unique ids a layer is all that has become ready.
LEMMA LayerExact ==
  ASSUME UniqueIds, tasks \in Inputs, NEW done \in SUBSET Ids
  PROVE  Layer(done) = {t \in Ids \ done : Deps(t) \subseteq done}
<1>1. ASSUME NEW t \in Ids \ done, Deps(t) \subseteq done
      PROVE  t \in Layer(done)
  <2>1. PICK i \in DOMAIN tasks : tasks[i].id = t
    BY DEF Ids, GraphOf
  <2>2. Deps(t) = tasks[i].deps \cap Ids
    BY <2>1, UniqueDeps
  <2>3. IsFiniteSet(Deps(t))
    BY <2>2, IdsFinite, FS_Subset DEF Ids
  <2> DEFINE ds == Discharged(t, done)
             f  == [d \in Deps(t) |-> <<i, d>>]
  <2>4. \A d \in Deps(t) : <<i, d>> \in ds
    BY <1>1, <2>1, <2>2 DEF Discharged
  <2>5. \A p \in ds : \E d \in Deps(t) : p = <<i, d>>
    <3> SUFFICES ASSUME NEW p \in ds PROVE \E d \in Deps(t) : p = <<i, d>>
      OBVIOUS
    <3>1. PICK j \in DOMAIN tasks, d \in done :
            p = <<j, d>> /\ tasks[j].id = t /\ d \in tasks[j].deps
      BY DEF Discharged
    <3>2. j = i
      BY <2>1, <3>1 DEF UniqueIds
    <3> QED  BY <2>2, <3>1, <3>2
  <2>6. f \in Bijection(Deps(t), ds)
    <3> HIDE DEF ds
    <3> QED  BY <2>4, <2>5 DEF Bijection, Injection, Surjection, IsInjective
  <2>7. Cardinality(ds) = Cardinality(Deps(t))
    BY <2>3, <2>6, FS_Bijection DEF ExistsBijection
  <2> QED  BY <1>1, <2>7 DEF Layer
<1> QED  BY <1>1, LayerReady, LayerNew

\* Sub-tasks of which each waits for another one of them never become ready.
LEMMA CyclesStay ==
  ASSUME UniqueIds, tasks \in Inputs, NEW S \in SUBSET Ids,
         \A t \in S : Deps(t) \cap S # {}
  PROVE  \A n \in Nat : Layered[n] \cap S = {}
<1> DEFINE T == {n \in Nat : Layered[n] \cap S = {}}
<1>1. 0 \in T
  BY LayersUnfold
<1>2. ASSUME NEW n \in Nat, n \in T PROVE n + 1 \in T
  <2>1. Layered[n] \in SUBSET Ids /\ Layered[n] \cap S = {}
    BY <1>2, LayersUnfold
  <2>2. \A t \in Layer(Layered[n]) : t \notin S
    BY <2>1, LayerReady
  <2> QED  BY <2>1, <2>2, LayersUnfold
<1> HIDE DEF T
<1>3. Nat \subseteq T
  BY <1>1, <1>2, Induction
<1> QED  BY <1>3 DEF T

\* After as many layers as there are ids, no layer follows: each adds an id.
LEMMA LayersEnd ==
  ASSUME tasks \in Inputs
  PROVE  Layer(Layered[Cardinality(Ids)]) = {}
<1> DEFINE N == Cardinality(Ids)
           L(n) == Layered[n]
           T == {n \in Nat : Layer(L(n)) = {} \/ Cardinality(L(n)) >= n}
<1>1. IsFiniteSet(Ids) /\ N \in Nat
  BY IdsFinite, FS_CardinalityType DEF Ids
<1>2. \A n \in Nat :
        /\ L(n) \in SUBSET Ids
        /\ L(n + 1) = L(n) \cup Layer(L(n))
        /\ IsFiniteSet(L(n))
        /\ Cardinality(L(n)) \in Nat
  BY <1>1, LayersUnfold, FS_Subset, FS_CardinalityType
<1>3. 0 \in T
  BY <1>2
<1>4. ASSUME NEW n \in Nat, n \in T PROVE n + 1 \in T
  <2>1. CASE Layer(L(n)) = {}
    <3>1. L(n + 1) = L(n)
      BY <1>2, <2>1
    <3> QED  BY <2>1, <3>1
  <2>2. CASE Layer(L(n)) # {} /\ Cardinality(L(n)) >= n
    <3>1. L(n) \subseteq L(n + 1) /\ L(n) # L(n + 1)
      BY <1>2, <2>2, LayerNew
    <3>2. IsFiniteSet(L(n + 1)) /\ Cardinality(L(n + 1)) \in Nat
      BY <1>2
    <3>3. /\ Cardinality(L(n)) <= Cardinality(L(n + 1))
          /\ Cardinality(L(n)) # Cardinality(L(n + 1))
      BY <3>1, <3>2, FS_Subset
    <3>4. Cardinality(L(n + 1)) >= n + 1
      <4>1. Cardinality(L(n)) \in Nat
        BY <1>2
      <4> HIDE DEF L
      <4> QED  BY <2>2, <3>2, <3>3, <4>1
    <3> QED  BY <3>4
  <2> QED  BY <1>4, <2>1, <2>2
<1>5. Nat \subseteq T
  <2> HIDE DEF T
  <2> QED  BY <1>3, <1>4, Induction
<1>6. CASE Cardinality(L(N)) >= N
  <2>1. L(N) \in SUBSET Ids /\ Cardinality(L(N)) \in Nat
    BY <1>1, <1>2
  <2>2. Cardinality(L(N)) = N
    BY <1>1, <1>6, <2>1, FS_Subset
  <2>3. L(N) = Ids
    BY <1>1, <2>1, <2>2, FS_Subset
  <2> QED  BY <2>3, LayerNew
<1> QED  BY <1>1, <1>5, <1>6

\* Sub-tasks of which each waits for another one of them.
Cyclic == \E S \in (SUBSET Ids) \ {{}} : \A t \in S : Deps(t) \cap S # {}

LEMMA CyclesFound ==
  ASSUME UniqueIds, tasks \in Inputs
  PROVE  CycleDetected <=> Cyclic
<1> DEFINE N == Cardinality(Ids)
<1>1. N \in Nat
  BY IdsFinite, FS_CardinalityType DEF Ids
<1>2. Layered[N] \in SUBSET Ids
  BY <1>1, LayersUnfold
<1>3. ASSUME Cyclic PROVE CycleDetected
  <2>1. PICK S \in (SUBSET Ids) \ {{}} : \A t \in S : Deps(t) \cap S # {}
    BY <1>3 DEF Cyclic
  <2>2. Layered[N] \cap S = {}
    BY <1>1, <2>1, CyclesStay
  <2> QED  BY <2>1, <2>2 DEF CycleDetected
<1>4. ASSUME CycleDetected PROVE Cyclic
  <2> DEFINE S == Ids \ Layered[N]
  <2>1. S \in (SUBSET Ids) \ {{}}
    BY <1>2, <1>4 DEF CycleDetected
  <2>2. ASSUME NEW t \in S PROVE Deps(t) \cap S # {}
    <3>1. t \notin Layer(Layered[N])
      BY LayersEnd
    <3>2. ~(Deps(t) \subseteq Layered[N])
      BY <1>2, <2>2, <3>1, LayerExact
    <3>3. Deps(t) \subseteq Ids
      BY DEF Deps, Ids, GraphOf
    <3> QED  BY <3>2, <3>3
  <2> QED  BY <2>1, <2>2 DEF Cyclic
<1> QED  BY <1>3, <1>4

\* What execute has answered fits the input, and a running call has not placed
\* every id.
Answered ==
  /\ stage # "called" => (stage = "raised" <=> Cyclic)
  /\ stage = "running" => finished # Ids

LEMMA AnsweredStep ==
  ASSUME UniqueIds, IInv, Answered, [Next]_vars
  PROVE  Answered'
<1>1. tasks' = tasks /\ Ids' = Ids
  BY SameTasks
<1>2. Cyclic' = Cyclic
  BY <1>1 DEF Cyclic, Deps, Ids
<1>3. CASE Begin
  <2>1. finished' = {}
    BY <1>3 DEF Begin, IInv, Placed
  <2> QED  BY <1>1, <1>2, <1>3, <2>1, CyclesFound DEF Begin, IInv, Typed, Answered
<1>4. ASSUME NEW t \in Ids, Step(t) PROVE Answered'
  BY <1>1, <1>2, <1>4, StepMoves DEF IInv, Answered
<1>5. CASE LayerEnds
  BY <1>1, <1>2, <1>5 DEF LayerEnds, Answered
<1>6. CASE UNCHANGED vars
  BY <1>1, <1>2, <1>6 DEF vars, Answered
<1> QED  BY <1>3, <1>4, <1>5, <1>6 DEF Next

LEMMA AnsweredAlways ==
  ASSUME UniqueIds PROVE Spec => []Answered
<1>1. Init => Answered
  BY DEF Init, Answered
<1>2. IInv /\ Answered /\ [Next]_vars => Answered'
  BY UniqueIds, AnsweredStep
<1> QED  BY <1>1, <1>2, Invariance, PTL DEF Spec

\* execute raises for cyclic dependencies and runs all others, for every list of
\* sub-tasks in which no id is repeated, unknown dependencies included.
THEOREM CyclesRefused ==
  ASSUME UniqueIds PROVE Spec => []CycleExact
<1>1. Answered => CycleExact
  BY DEF Answered, Cyclic, CycleExact
<1> QED  BY <1>1, AnsweredAlways, PTL

\* A call that is running always has a layer to run: asyncio.gather is never
\* handed an empty list of coroutines, and every layer that ends places an id.
THEOREM NoEmptyLayer ==
  ASSUME UniqueIds PROVE Spec => [](stage = "running" => Layer(finished) # {})
<1>1. ASSUME IInv, Answered, stage = "running", Layer(finished) = {} PROVE FALSE
  <2> DEFINE S == Ids \ finished
  <2>1. S \in (SUBSET Ids) \ {{}}
    BY <1>1 DEF Answered, IInv, Typed
  <2>2. ASSUME NEW t \in S PROVE Deps(t) \cap S # {}
    <3>1. ~(Deps(t) \subseteq finished)
      BY <1>1, UniqueIds, LayerExact DEF IInv, Typed
    <3>2. Deps(t) \subseteq Ids
      BY DEF Deps, Ids, GraphOf
    <3> QED  BY <3>1, <3>2
  <2>3. Cyclic
    BY <2>1, <2>2 DEF Cyclic
  <2> QED  BY <1>1, <2>3 DEF Answered
<1>2. IInv /\ Answered => (stage = "running" => Layer(finished) # {})
  BY <1>1
<1> QED  BY <1>2, Invariance, AnsweredAlways, PTL
=============================================================================
