------------------------------ MODULE Fallback -------------------------------
(***************************************************************************)
(* router/fallback.py: concurrent calls of FallbackManager.execute.  A call  *)
(* walks down the chain of providers, retries each one, and waits before it  *)
(* goes on; a provider that used up its retries rests for a while, which     *)
(* every call of the same manager observes.                                 *)
(*                                                                         *)
(* The class lets any number of calls share a manager; main.py makes one     *)
(* for each request.  Both are instances of this module.                    *)
(*                                                                         *)
(* Health is kept by provider name, and a chain may name a provider twice.   *)
(* Of ProviderHealth the remaining cooldown counts: a provider whose time is *)
(* over recovers in whichever is_available comes first.  failure_count,      *)
(* last_error and events are reports that no decision reads.                *)
(***************************************************************************)
EXTENDS Naturals, Sequences, FiniteSets

CONSTANTS
  Calls,        \* calls of execute, each made once
  Managers,     \* FallbackManager objects
  ManagerOf,    \* the manager each call is made on
  Providers,    \* adapter names
  Chains,       \* the chains a manager may be constructed with
  MaxRetries,   \* max_retries: attempts per entry of the chain
  RetryPause,   \* the pause between two attempts, in clock ticks
  BackoffBase,  \* backoff_base
  Cooldown,     \* the rest of a provider that used up its retries
  Durations     \* the durations mark_unhealthy is called with

ASSUME FallbackAssumption ==
  /\ IsFiniteSet(Calls)
  /\ ManagerOf \in [Calls -> Managers]
  /\ \A ch \in Chains : ch \in Seq(Providers) /\ Len(ch) > 0
  /\ MaxRetries \in Nat \ {0}
  /\ {RetryPause, BackoffBase, Cooldown} \subseteq Nat
  /\ Durations \subseteq Nat
  /\ \A ch \in Chains : \A e \in DOMAIN ch : BackoffBase * 2 ^ (e - 1) \in Nat

VARIABLES
  chain,     \* _chain of each manager, never changes
  cooldown,  \* _health: time until the provider is available again
  call,      \* where each call is: [at, entry, attempt, wait]
  rest,      \* history: time until the provider has rested, counted from the
             \* last exhaustion or mark_unhealthy by any manager
  late,      \* history: sends to each provider, by call, since its rest began
  faulty     \* history: providers that failed a send or were marked

vars == <<chain, cooldown, call, rest, late, faulty>>

Place == {"new", "send", "pause", "backoff", "returned", "raised", "cancelled"}

TypeOK ==
  /\ chain \in [Managers -> Chains]
  /\ cooldown \in [Managers -> [Providers -> Nat]]
  /\ call \in [Calls -> [at : Place, entry : Nat, attempt : 0 .. MaxRetries,
                         wait : Nat]]
  /\ \A c \in Calls :
       call[c].at \in {"send", "pause", "backoff"} =>
         /\ call[c].entry \in DOMAIN chain[ManagerOf[c]]
         /\ call[c].attempt > 0
  /\ rest \in [Providers -> Nat]
  /\ late \in [Providers -> [Calls -> Nat]]
  /\ faulty \in [Managers -> SUBSET Providers]

-----------------------------------------------------------------------------
Mine(c) == chain[ManagerOf[c]]
Provider(c) == Mine(c)[call[c].entry]

At(place, entry, attempt, wait) ==
  [at |-> place, entry |-> entry, attempt |-> attempt, wait |-> wait]
Goto(c, where) == call' = [call EXCEPT ![c] = where]

Stays(c, place) == Goto(c, At(place, call[c].entry, call[c].attempt, 0))

\* The entries from i on whose provider is available.
Open(c, i) ==
  {j \in DOMAIN Mine(c) : j >= i /\ cooldown[ManagerOf[c]][Mine(c)[j]] = 0}

\* The loop over the chain, from entry i to the next await: unavailable
\* providers are skipped, and execute raises when none is left.
GoOn(c, i) ==
  \/ /\ Open(c, i) = {}
     /\ Stays(c, "raised")
  \/ \E j \in Open(c, i) :
       /\ \A k \in Open(c, i) : j <= k
       /\ Goto(c, At("send", j, 1, 0))

\* History: provider p rests for time d; the sends of each call to it are
\* counted from when it starts to rest until it has rested.
NoSends == [c \in Calls |-> 0]
Rests(p, d) ==
  /\ rest' = [rest EXCEPT ![p] = d]
  /\ late' = [late EXCEPT ![p] = IF d = 0 THEN NoSends ELSE @]
Blame(m, p) == faulty' = [faulty EXCEPT ![m] = @ \cup {p}]
SendLate(c) ==
  late' = [late EXCEPT ![Provider(c)][c] = IF rest[Provider(c)] > 0 THEN @ + 1 ELSE @]

-----------------------------------------------------------------------------
Execute(c) ==
  /\ call[c].at = "new"
  /\ GoOn(c, 1)
  /\ UNCHANGED <<chain, cooldown, rest, late, faulty>>

\* adapter.send returns (and so does the whole stream, if it is one).
SendSucceeds(c) ==
  /\ call[c].at = "send"
  /\ Stays(c, "returned")
  /\ UNCHANGED <<chain, cooldown, rest, late, faulty>>

\* An error that is not worth a retry (authentication, 4xx): the next entry's
\* turn at once, and the provider stays available.
SendRefused(c) ==
  /\ call[c].at = "send"
  /\ GoOn(c, call[c].entry + 1)
  /\ Blame(ManagerOf[c], Provider(c))
  /\ UNCHANGED <<chain, cooldown, rest, late>>

\* Any other error, with attempts left.
SendFails(c) ==
  /\ call[c].at = "send"
  /\ call[c].attempt < MaxRetries
  /\ Goto(c, At("pause", call[c].entry, call[c].attempt, RetryPause))
  /\ Blame(ManagerOf[c], Provider(c))
  /\ UNCHANGED <<chain, cooldown, rest, late>>

\* Mutated forms: the provider after the one that failed has to rest; it rests
\* without being taken out of the chain.
SendExhaustsNext(c) ==
  LET e == call[c].entry
      n == Mine(c)[IF e < Len(Mine(c)) THEN e + 1 ELSE e]
  IN /\ call[c].at = "send"
     /\ call[c].attempt = MaxRetries
     /\ cooldown' = [cooldown EXCEPT ![ManagerOf[c]][n] = Cooldown]
     /\ IF e < Len(Mine(c))
        THEN Goto(c, At("backoff", e, MaxRetries, BackoffBase * 2 ^ (e - 1)))
        ELSE Stays(c, "raised")
     /\ Rests(Provider(c), Cooldown)
     /\ Blame(ManagerOf[c], Provider(c))
     /\ UNCHANGED chain
SendExhaustsUnmarked(c) ==
  LET e == call[c].entry
  IN /\ call[c].at = "send"
     /\ call[c].attempt = MaxRetries
     /\ UNCHANGED cooldown
     /\ IF e < Len(Mine(c))
        THEN Goto(c, At("backoff", e, MaxRetries, BackoffBase * 2 ^ (e - 1)))
        ELSE Stays(c, "raised")
     /\ Rests(Provider(c), Cooldown)
     /\ Blame(ManagerOf[c], Provider(c))
     /\ UNCHANGED chain

\* The last attempt fails: the provider rests, and the call backs off before
\* the next entry, if there is one.
SendExhausts(c) ==
  LET e == call[c].entry
  IN /\ call[c].at = "send"
     /\ call[c].attempt = MaxRetries
     /\ cooldown' = [cooldown EXCEPT ![ManagerOf[c]][Provider(c)] = Cooldown]
     /\ IF e < Len(Mine(c))
        THEN Goto(c, At("backoff", e, MaxRetries, BackoffBase * 2 ^ (e - 1)))
        ELSE Stays(c, "raised")
     /\ Rests(Provider(c), Cooldown)
     /\ Blame(ManagerOf[c], Provider(c))
     /\ UNCHANGED chain

\* Mutated form: retries are not counted.
RetryUncounted(c) ==
  /\ call[c].at = "pause"
  /\ call[c].wait = 0
  /\ Goto(c, At("send", call[c].entry, call[c].attempt, 0))
  /\ SendLate(c)
  /\ UNCHANGED <<chain, cooldown, rest, faulty>>

\* The pause is over: the next attempt, whether or not the provider has been
\* taken out of the chain meanwhile.
Retry(c) ==
  /\ call[c].at = "pause"
  /\ call[c].wait = 0
  /\ Goto(c, At("send", call[c].entry, call[c].attempt + 1, 0))
  /\ SendLate(c)
  /\ UNCHANGED <<chain, cooldown, rest, faulty>>

\* The backoff is over.
SwitchOn(c) ==
  /\ call[c].at = "backoff"
  /\ call[c].wait = 0
  /\ GoOn(c, call[c].entry + 1)
  /\ UNCHANGED <<chain, cooldown, rest, late, faulty>>

\* The task of the call is cancelled at an await: no handler catches it.
Cancel(c) ==
  /\ call[c].at \in {"send", "pause", "backoff"}
  /\ Stays(c, "cancelled")
  /\ UNCHANGED <<chain, cooldown, rest, late, faulty>>

\* mark_unhealthy on a provider of the chain; it may also shorten a rest.
MarkUnhealthy(m, p, d) ==
  /\ \E i \in DOMAIN chain[m] : chain[m][i] = p
  /\ cooldown' = [cooldown EXCEPT ![m][p] = d]
  /\ Rests(p, d)
  /\ Blame(m, p)
  /\ UNCHANGED <<chain, call>>

Less(t) == IF t > 0 THEN t - 1 ELSE 0

\* Time passes; a call whose wait is over may be resumed late.
Tick ==
  /\ cooldown' = [m \in Managers |->
                    [p \in Providers |-> Less(cooldown[m][p])]]
  /\ call' = [c \in Calls |-> [call[c] EXCEPT !.wait = Less(@)]]
  /\ rest' = [p \in Providers |-> Less(rest[p])]
  /\ late' = [p \in Providers |-> IF rest[p] <= 1 THEN NoSends ELSE late[p]]
  /\ UNCHANGED <<chain, faulty>>

-----------------------------------------------------------------------------
Init ==
  /\ chain \in [Managers -> Chains]
  /\ cooldown = [m \in Managers |-> [p \in Providers |-> 0]]
  /\ call = [c \in Calls |-> At("new", 0, 0, 0)]
  /\ rest = [p \in Providers |-> 0]
  /\ late = [p \in Providers |-> NoSends]
  /\ faulty = [m \in Managers |-> {}]

Sent(c) ==
  \/ SendSucceeds(c)
  \/ SendRefused(c)
  \/ SendFails(c)
  \/ SendExhausts(c)

Next ==
  \/ \E c \in Calls :
       \/ Execute(c)
       \/ Sent(c)
       \/ Retry(c)
       \/ SwitchOn(c)
       \/ Cancel(c)
  \/ \E m \in Managers, p \in Providers, d \in Durations : MarkUnhealthy(m, p, d)
  \/ Tick

Spec == Init /\ [][Next]_vars

\* Time passes, every send ends (adapters have timeouts), and a sleeper whose
\* time is over is resumed by the event loop.
FairSpec ==
  /\ Spec
  /\ WF_vars(Tick)
  /\ \A c \in Calls : WF_vars(Sent(c)) /\ WF_vars(Retry(c) \/ SwitchOn(c))

-----------------------------------------------------------------------------
(* Properties                                                              *)

\* In this step, call c turns to an entry of its chain and sends it the first
\* attempt.
Begins(c) ==
  /\ call'[c].at = "send"
  /\ call'[c].attempt = 1
  /\ call[c].at # "send" \/ call[c].entry # call'[c].entry

\* A provider that used up the retries of some call rests: until it has, no
\* call begins to send to it ("temporarily marks failed providers as unhealthy
\* (30-second cooldown by default)", docs/configuration.md:399).
StartsOnlyOnRested ==
  [][\A c \in Calls : Begins(c) => rest[Mine(c)[call'[c].entry]] = 0]_vars

\* A retry does not look at the provider's health, so calls that are already
\* at a provider go on sending to it while it rests: each of them no more than
\* MaxRetries - 1 times, however long the rest is extended and however often
\* the chain names the provider.
LateSendsBounded ==
  \A p \in Providers, c \in Calls : late[p][c] <= MaxRetries - 1

\* A call raises only if every provider of its chain has failed it or another
\* call of its manager, or was marked: a provider in working order is never
\* passed over, whatever happens to the others.
NoNeedlessFailure ==
  \A c \in Calls : call[c].at = "raised" =>
    \A i \in DOMAIN Mine(c) : Mine(c)[i] \in faulty[ManagerOf[c]]

\* Every call of execute ends, whatever rests and marks there are.
Ends ==
  \A c \in Calls : call[c].at # "new" ~>
    call[c].at \in {"returned", "raised", "cancelled"}
=============================================================================
