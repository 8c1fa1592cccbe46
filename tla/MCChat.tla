-------------------------------- MODULE MCChat --------------------------------
(* Instance of Chat for TLC.                                               *)
EXTENDS Chat, TLC

CONSTANTS bridge, deepinfra, alibaba, w1, w2, r1, r2, r3

TwoWorkers   == {w1, w2}
ThreeRequests == {r1, r2, r3}
AllProviders == {bridge, deepinfra, alibaba}
NoKey        == {alibaba}

\* A rule whose primary cannot be made, and one with nothing that can.
SomeRules ==
  {[primary |-> alibaba, fallbacks |-> <<bridge, alibaba>>, single |-> deepinfra],
   [primary |-> alibaba, fallbacks |-> <<alibaba>>, single |-> None]}

Interchangeable == Permutations(ThreeRequests) \cup Permutations(TwoWorkers)
=============================================================================
