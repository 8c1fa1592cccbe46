----------------------------- MODULE MCAccounts ------------------------------
(* Instances of Accounts for TLC.                                          *)
EXTENDS Accounts

CONSTANTS w1, w2

TwoWorkers == {w1, w2}
TwoIds     == 1 .. 2

\* accounts.yaml is missing, lists one account, or both against their order.
ThreeFiles == {<< >>, <<2>>, <<2, 1>>}

\* One worker with two accounts, and two workers with one.
SomeDeployments ==
  [flaky : BOOLEAN, workers : {{w1}}, ids : {TwoIds}]
    \cup [flaky : {FALSE}, workers : {TwoWorkers}, ids : {{2}}]
=============================================================================
