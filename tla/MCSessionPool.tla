---------------------------- MODULE MCSessionPool ----------------------------
(* Instances of SessionPool for TLC.                                       *)
EXTENDS SessionPool, TLC

CONSTANTS c1, c2

TwoClients == {c1, c2}

\* Every property of the run is a safety property that treats clients alike.
Symmetry == Permutations(TwoClients)
=============================================================================
