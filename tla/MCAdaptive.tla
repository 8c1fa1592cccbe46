------------------------------ MODULE MCAdaptive ------------------------------
(* Instance of Adaptive for TLC.                                           *)
EXTENDS Adaptive

CONSTANTS a, b

TwoControllers == {a, b}

Good  == [success |-> TRUE, truncated |-> FALSE, duration |-> 1]
Cut   == [success |-> TRUE, truncated |-> TRUE, duration |-> 12]
Error == [success |-> FALSE, truncated |-> FALSE, duration |-> 140]

AllOutcomes == {Good, Cut, Error}

AllStarts == {[messages |-> 20, sessions |-> 3], [messages |-> 24, sessions |-> 4]}
=============================================================================
