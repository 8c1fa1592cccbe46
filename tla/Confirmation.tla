---------------------------- MODULE Confirmation -----------------------------
(***************************************************************************)
(* router/confirmation/owui.py: OWUIConfirmation, which asks a user through  *)
(* Open WebUI whether to route a request to its primary provider.  The       *)
(* coroutine that asks waits for an asyncio.Event with a timeout; the answer *)
(* arrives by POST /v1/confirmation/respond in a coroutine of its own.       *)
(*                                                                         *)
(* When the timeout goes off, wait_for cancels the wait; the coroutine       *)
(* itself runs a turn of the event loop later, and other coroutines run in   *)
(* between.  So they do between the answer and the coroutine's turn, and a   *)
(* timeout that goes off then may still win (asyncio of Python 3.12).       *)
(*                                                                         *)
(* _poll_response is not modelled: it is reached only if the event is not    *)
(* set after a wait that ends when it is set.                               *)
(***************************************************************************)
CONSTANTS
  Requests,    \* calls of confirm_routing, each made once
  Primary,     \* primary_provider
  Fallback,    \* fallback_provider
  None

Options == {Primary, Fallback, "Cancel"}

ASSUME ConfirmationAssumption == None \notin Options

VARIABLES
  live,      \* simulation_mode is off; never changes
  at,        \* where the coroutine of each request is
  pending,   \* the keys of _pending and _events
  status,    \* ConfirmationRequest.status
  response,  \* ConfirmationRequest.response
  event,     \* the requests whose asyncio.Event is set
  selected,  \* what ask returned, or None
  accepted   \* history: the option for which respond returned True, or None

confirmationVars ==
  <<live, at, pending, status, response, event, selected, accepted>>

UnderWay == {"posting", "waiting", "expired"}

ConfirmationTypeOK ==
  /\ live \in BOOLEAN
  /\ at \in [Requests -> UnderWay \cup {"new", "returned", "abandoned"}]
  /\ pending \subseteq Requests
  /\ status \in [Requests -> {"pending", "confirmed", "timeout"}]
  /\ response \in [Requests -> Options \cup {None}]
  /\ event \subseteq Requests
  /\ selected \in [Requests -> Options \cup {None}]
  /\ accepted \in [Requests -> Options \cup {None}]
  /\ \A r \in Requests : r \in event <=> accepted[r] # None

-----------------------------------------------------------------------------
\* ask returns option o, and its finally clause cleans up.
Return(r, o) ==
  /\ at' = [at EXCEPT ![r] = "returned"]
  /\ selected' = [selected EXCEPT ![r] = o]
  /\ pending' = pending \ {r}

Resolve(r, st, o) ==
  /\ status' = [status EXCEPT ![r] = st]
  /\ response' = [response EXCEPT ![r] = o]

\* should_ask says no: chat, search, or auto_route in the context.
AutoRoute(r) ==
  /\ at[r] = "new"
  /\ Return(r, Primary)
  /\ UNCHANGED <<live, status, response, event, accepted>>

\* ask up to its first await: the webhook or, in simulation mode, the event.
Ask(r) ==
  /\ at[r] = "new"
  /\ at' = [at EXCEPT ![r] = IF live THEN "posting" ELSE "waiting"]
  /\ pending' = pending \cup {r}
  /\ UNCHANGED <<live, status, response, event, selected, accepted>>

\* The webhook was posted, or failed with an HTTPError.  If the answer is there
\* already, the wait is over before it begins.
PostEnds(r) ==
  /\ at[r] = "posting"
  /\ \/ /\ r \in event
        /\ Return(r, response[r])
     \/ /\ r \notin event
        /\ at' = [at EXCEPT ![r] = "waiting"]
        /\ UNCHANGED <<pending, selected>>
  /\ UNCHANGED <<live, status, response, event, accepted>>

\* respond returns True; for an unknown id, an invalid option or a request that
\* is not PENDING it returns False and does nothing.
Respond(r, o) ==
  /\ r \in pending
  /\ status[r] = "pending"
  /\ o \in Options
  /\ Resolve(r, "confirmed", o)
  /\ event' = event \cup {r}
  /\ accepted' = [accepted EXCEPT ![r] = o]
  /\ UNCHANGED <<live, at, pending, selected>>

\* The coroutine runs again after the answer.
Resume(r) ==
  /\ at[r] = "waiting"
  /\ r \in event
  /\ Return(r, response[r])
  /\ UNCHANGED <<live, status, response, event, accepted>>

\* Mutated form: the timeout is not armed.
ExpireNever(r) ==
  /\ at[r] = "waiting"
  /\ r \in event
  /\ at' = [at EXCEPT ![r] = "expired"]
  /\ UNCHANGED <<live, pending, status, response, event, selected, accepted>>

\* The timeout of wait_for goes off before the coroutine has run again.
Expire(r) ==
  /\ at[r] = "waiting"
  /\ at' = [at EXCEPT ![r] = "expired"]
  /\ UNCHANGED <<live, pending, status, response, event, selected, accepted>>

\* _ask_live after the timeout: the default, whatever was answered meanwhile.
TimeoutLive(r) ==
  /\ live
  /\ at[r] = "expired"
  /\ Resolve(r, "timeout", Primary)
  /\ Return(r, Primary)
  /\ UNCHANGED <<live, event, accepted>>

\* Mutated form: _simulate does not look at the event.
TimeoutSimulatedBlind(r) ==
  /\ ~live
  /\ at[r] = "expired"
  /\ Resolve(r, "confirmed", Primary)
  /\ Return(r, Primary)
  /\ UNCHANGED <<live, event, accepted>>

\* _simulate after the timeout: the answer if there is one, else the default.
TimeoutSimulated(r) ==
  /\ ~live
  /\ at[r] = "expired"
  /\ \/ /\ r \in event
        /\ Return(r, response[r])
        /\ UNCHANGED <<status, response>>
     \/ /\ r \notin event
        /\ Resolve(r, "confirmed", Primary)
        /\ Return(r, Primary)
  /\ UNCHANGED <<live, event, accepted>>

\* Mutated form: no finally clause.
AbandonUnclean(r) ==
  /\ at[r] \in UnderWay
  /\ at' = [at EXCEPT ![r] = "abandoned"]
  /\ UNCHANGED <<live, pending, status, response, event, selected, accepted>>

\* The request's task is cancelled, or the webhook raises something that is
\* not an HTTPError.
Abandon(r) ==
  /\ at[r] \in UnderWay
  /\ at' = [at EXCEPT ![r] = "abandoned"]
  /\ pending' = pending \ {r}
  /\ UNCHANGED <<live, status, response, event, selected, accepted>>

-----------------------------------------------------------------------------
ConfirmationInit ==
  /\ live \in BOOLEAN
  /\ at = [r \in Requests |-> "new"]
  /\ pending = {}
  /\ status = [r \in Requests |-> "pending"]
  /\ response = [r \in Requests |-> None]
  /\ event = {}
  /\ selected = [r \in Requests |-> None]
  /\ accepted = [r \in Requests |-> None]

Timeout(r) == TimeoutLive(r) \/ TimeoutSimulated(r)

ConfirmationNext ==
  \E r \in Requests :
    \/ AutoRoute(r)
    \/ Ask(r)
    \/ PostEnds(r)
    \/ \E o \in Options : Respond(r, o)
    \/ Resume(r)
    \/ Expire(r)
    \/ Timeout(r)
    \/ Abandon(r)

ConfirmationSpec == ConfirmationInit /\ [][ConfirmationNext]_confirmationVars

\* The webhook has a timeout of its own, armed timeouts go off, and ready
\* coroutines run.
ConfirmationFairSpec ==
  /\ ConfirmationSpec
  /\ \A r \in Requests :
       /\ WF_confirmationVars(PostEnds(r))
       /\ WF_confirmationVars(Resume(r) \/ Expire(r))
       /\ WF_confirmationVars(Timeout(r))

-----------------------------------------------------------------------------
(* Properties                                                              *)

\* The provider confirm_routing returns: "Cancel" is the primary, too.
Routed(r) == IF selected[r] = "Cancel" THEN Primary ELSE selected[r]

Promise == INSTANCE Dialog
             WITH Questions <- Requests, Default <- Primary, lossy <- live,
                  open <- {r \in Requests : at[r] \in UnderWay},
                  outcome <- selected

\* The confirmation implements Dialog: one answer is accepted for a question,
\* only while it is asked, and the answer is what ask returns, although a late
\* answer races the timeout; only live mode may lose an accepted answer.
KeepsDialog == Promise!Spec

\* GET /v1/confirmation/pending lists exactly the requests that are waiting for
\* an answer: none that was answered, ended by its timeout or was cancelled.
ListsOpenQuestions ==
  {r \in pending : status[r] = "pending"} =
    {r \in Requests : at[r] \in UnderWay /\ accepted[r] = None}

\* Every question ends: with an answer, its default, or its request.
QuestionsEnd ==
  \A r \in Requests : at[r] \in UnderWay ~> at[r] \in {"returned", "abandoned"}

\* The option for which respond returned True ("Returns True if the
\* confirmation was found and updated", owui.py:291) is what ask returns.
AcceptedCounts ==
  \A r \in Requests :
    accepted[r] # None /\ selected[r] # None => selected[r] = accepted[r]
=============================================================================
