------------------------------- MODULE Dialog --------------------------------
(***************************************************************************)
(* What asking a user promises: each question has an outcome, at most one   *)
(* answer is accepted for it, and only while it is being asked; the outcome  *)
(* is the accepted answer, or the default if there is none.  A lossy dialog  *)
(* may fall back on the default although it accepted an answer.             *)
(***************************************************************************)
CONSTANTS Questions, Options, Default, None

VARIABLES
  lossy,     \* is this a lossy dialog?  Never changes
  open,      \* the questions that are being asked
  accepted,  \* question -> the answer accepted for it, or None
  outcome    \* question -> its outcome, or None

vars == <<lossy, open, accepted, outcome>>

Init ==
  /\ lossy \in BOOLEAN
  /\ open = {}
  /\ accepted = [q \in Questions |-> None]
  /\ outcome = [q \in Questions |-> None]

Ask(q) ==
  /\ q \notin open
  /\ accepted[q] = None /\ outcome[q] = None
  /\ open' = open \cup {q}
  /\ UNCHANGED <<lossy, accepted, outcome>>

\* The answer is a matter of course.
Skip(q) ==
  /\ q \notin open
  /\ accepted[q] = None /\ outcome[q] = None
  /\ outcome' = [outcome EXCEPT ![q] = Default]
  /\ UNCHANGED <<lossy, open, accepted>>

Accept(q) ==
  /\ q \in open
  /\ accepted[q] = None
  /\ \E o \in Options : accepted' = [accepted EXCEPT ![q] = o]
  /\ UNCHANGED <<lossy, open, outcome>>

Settle(q) ==
  /\ q \in open
  /\ open' = open \ {q}
  /\ \/ accepted[q] # None /\ outcome' = [outcome EXCEPT ![q] = accepted[q]]
     \/ accepted[q] = None /\ outcome' = [outcome EXCEPT ![q] = Default]
     \/ lossy /\ outcome' = [outcome EXCEPT ![q] = Default]
  /\ UNCHANGED <<lossy, accepted>>

Abandon(q) ==
  /\ q \in open
  /\ open' = open \ {q}
  /\ UNCHANGED <<lossy, accepted, outcome>>

Next == \E q \in Questions : Ask(q) \/ Skip(q) \/ Accept(q) \/ Settle(q) \/ Abandon(q)

Spec == Init /\ [][Next]_vars
=============================================================================
