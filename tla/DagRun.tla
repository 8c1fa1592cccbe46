------------------------------- MODULE DagRun --------------------------------
(***************************************************************************)
(* What running sub-tasks with dependencies promises, without how: a        *)
(* sub-task starts only once everything it depends on has an outcome, each  *)
(* one gets exactly one outcome, and the caller gets its results when all   *)
(* have one.  A failed dependency is an outcome like any other.  A caller   *)
(* may be refused, but only before anything was started.                    *)
(***************************************************************************)
CONSTANT Graphs   \* sets of sub-tasks, as functions to their dependencies

VARIABLES
  deps,     \* the sub-tasks and their dependencies, an element of Graphs
  status,   \* sub-task -> "new", "started", "ok" or "failed"
  answer    \* "none", "returned" or "refused"

vars == <<deps, status, answer>>

Settled(t) == status[t] \in {"ok", "failed"}

Init ==
  /\ deps \in Graphs
  /\ status = [t \in DOMAIN deps |-> "new"]
  /\ answer = "none"

Start(t) ==
  /\ answer = "none"
  /\ status[t] = "new"
  /\ \A d \in deps[t] : Settled(d)
  /\ status' = [status EXCEPT ![t] = "started"]
  /\ UNCHANGED <<deps, answer>>

Settle(t) ==
  /\ status[t] = "started"
  /\ \E o \in {"ok", "failed"} : status' = [status EXCEPT ![t] = o]
  /\ UNCHANGED <<deps, answer>>

Return ==
  /\ answer = "none"
  /\ \A t \in DOMAIN deps : Settled(t)
  /\ answer' = "returned"
  /\ UNCHANGED <<deps, status>>

Refuse ==
  /\ answer = "none"
  /\ \A t \in DOMAIN deps : status[t] = "new"
  /\ answer' = "refused"
  /\ UNCHANGED <<deps, status>>

Next ==
  \/ \E t \in DOMAIN deps : Start(t) \/ Settle(t)
  \/ Return
  \/ Refuse

Spec == Init /\ [][Next]_vars
=============================================================================
