------------------------- MODULE MCParallelExecutor --------------------------
(* Instances of ParallelExecutor for TLC.                                  *)
EXTENDS ParallelExecutor

\* All dependency graphs over sub-tasks 1, 2 and 3, cycles and self-loops
\* included, where 3 may also name an id that does not exist.
Graphs3 ==
  {<<[id |-> 1, deps |-> d1], [id |-> 2, deps |-> d2], [id |-> 3, deps |-> d3]>> :
     d1 \in SUBSET {2, 3}, d2 \in SUBSET {1, 2, 3}, d3 \in SUBSET {1, 2, 7}}

\* The same for lists of up to two sub-tasks.
Short == {<< >>} \cup {<<[id |-> 4, deps |-> d]>> : d \in SUBSET {1, 4}}

Lists == Graphs3 \cup Short
=============================================================================
