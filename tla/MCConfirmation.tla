--------------------------- MODULE MCConfirmation ----------------------------
(* Instances of Confirmation for TLC.                                      *)
EXTENDS Confirmation

CONSTANTS r1, r2, bridge, paid, none

TwoRequests == {r1, r2}
=============================================================================
