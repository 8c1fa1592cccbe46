--------------------------- MODULE SessionLending ----------------------------
(***************************************************************************)
(* What a session pool promises its clients, without how: sessions are      *)
(* lent while they are usable, a new session is opened for a client only    *)
(* when none is usable, and a session that stops being usable is never lent *)
(* again, not even after the pool restarts.                                 *)
(***************************************************************************)
EXTENDS Naturals

CONSTANTS Clients, None

VARIABLES
  issued,   \* sessions are numbered 1 .. issued in order of creation
  usable,   \* the sessions that may be lent
  lent      \* the session lent to each client, or None

vars == <<issued, usable, lent>>

Init ==
  /\ issued = 0
  /\ usable = {}
  /\ lent = [c \in Clients |-> None]

Grant(c) ==
  /\ lent[c] = None
  /\ \E s \in usable : lent' = [lent EXCEPT ![c] = s]
  /\ UNCHANGED <<issued, usable>>

GrantNew(c) ==
  /\ lent[c] = None
  /\ usable = {}
  /\ issued' = issued + 1
  /\ usable' = {issued + 1}
  /\ lent' = [lent EXCEPT ![c] = issued + 1]

\* Only the returned session may become unusable by its return.
Return(c) ==
  /\ lent[c] # None
  /\ usable' \in {usable, usable \ {lent[c]}}
  /\ lent' = [lent EXCEPT ![c] = None]
  /\ UNCHANGED issued

\* Some session, usable or not, is replaced by a new one.
Replace(s) ==
  /\ issued' = issued + 1
  /\ usable' = (usable \ {s}) \cup {issued + 1}
  /\ UNCHANGED lent

Retire ==
  /\ usable' \in SUBSET usable
  /\ UNCHANGED <<issued, lent>>

Forget ==
  /\ usable' = {}
  /\ lent' = [c \in Clients |-> None]
  /\ UNCHANGED issued

Next ==
  \/ \E c \in Clients : Grant(c) \/ GrantNew(c) \/ Return(c)
  \/ \E s \in 1 .. issued : Replace(s)
  \/ Retire
  \/ Forget

Spec == Init /\ [][Next]_vars
=============================================================================
