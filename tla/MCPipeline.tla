------------------------------ MODULE MCPipeline ------------------------------
(* Instance of Pipeline for TLC.                                           *)
EXTENDS Pipeline, TLC

CONSTANTS a, b, everyFile, delete, keep

TwoFiles   == {a, b}
OnePattern == {everyFile}

\* Every text of up to three words, and longer ones that are told apart: fewer
\* words than chunks, a preface before the steps, a step that is long.
SomeTexts ==
  UNION {[1 .. n -> {a, b, Plain, StepMark}] : n \in 1 .. 3}
    \cup {<<everyFile, a, Plain>>, <<Plain, Plain, Plain, Plain>>,
          <<Plain, StepMark, StepMark, Plain, StepMark>>}

TwoAnswers ==
  {[files |-> <<a, b>>, modifies |-> TRUE,  says |-> {delete}],
   [files |-> <<b, b>>, modifies |-> TRUE,  says |-> {keep}]}

OneContradiction == {<<delete, keep>>}

\* Plans of three: in order, out of order, or with an identifier twice; each
\* sub-task depends on nothing, on one, on two, on one twice or on what does
\* not exist.
SomePlans ==
  {[i \in 1 .. 3 |-> [id |-> ids[i], deps |-> deps[i]]] :
     ids \in {<<1, 2, 3>>, <<3, 1, 2>>, <<2, 2, 1>>},
     deps \in [1 .. 3 -> {<<>>, <<1>>, <<3, 3>>, <<2, 3>>, <<2, 9>>}]}
    \cup {<<>>, <<[id |-> 1, deps |-> <<>>]>>,
          <<[id |-> 2, deps |-> <<>>], [id |-> 1, deps |-> <<2>>]>>}
=============================================================================
