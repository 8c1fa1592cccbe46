--------------------------- MODULE ProviderProofs ----------------------------
(***************************************************************************)
(* Theorems about who decides on the provider of a request: Fallback, which  *)
(* walks down a chain of them, for any number of calls and managers, any     *)
(* chains and any delays; and Confirmation, which asks the user, for any      *)
(* number of requests.                                                     *)
(***************************************************************************)
EXTENDS Fallback, Confirmation, TLAPS

\* Providers that rest have failed or were marked, and a call that is at an
\* entry has left behind only entries of such providers.
PassedOver ==
  /\ \A mm \in Managers, p \in Providers :
       cooldown[mm][p] > 0 => p \in faulty[mm]
  /\ \A c \in Calls :
       /\ call[c].at \in {"send", "pause", "backoff"} =>
            \A i \in DOMAIN Mine(c) :
              i < call[c].entry => Mine(c)[i] \in faulty[ManagerOf[c]]
       /\ call[c].at \in {"pause", "backoff"} =>
            Provider(c) \in faulty[ManagerOf[c]]
       /\ call[c].at = "raised" =>
            \A i \in DOMAIN Mine(c) : Mine(c)[i] \in faulty[ManagerOf[c]]

\* Pauses are only made with attempts left.
PausesRetry ==
  \A c \in Calls : call[c].at = "pause" => call[c].attempt < MaxRetries

IInv == TypeOK /\ PausesRetry /\ PassedOver

Calling == [at : Place, entry : Nat, attempt : 0 .. MaxRetries, wait : Nat]

-----------------------------------------------------------------------------
LEMMA ChainType ==
  ASSUME TypeOK, NEW c \in Calls
  PROVE  /\ ManagerOf[c] \in Managers
         /\ Mine(c) \in Seq(Providers)
         /\ Len(Mine(c)) \in Nat \ {0}
         /\ DOMAIN Mine(c) = 1 .. Len(Mine(c))
         /\ \A i \in DOMAIN Mine(c) : Mine(c)[i] \in Providers
  BY FallbackAssumption DEF TypeOK, Mine

\* Where a call goes in the loop over the chain: it is over, or it sends to an
\* available provider at i or after it, and those in between are not available.
LEMMA GoesOn ==
  ASSUME IInv, NEW c \in Calls, NEW i \in Nat, GoOn(c, i)
  PROVE  \E where \in Calling :
           /\ call' = [call EXCEPT ![c] = where]
           /\ where.at \in {"raised", "send"}
           /\ where.at = "raised" =>
                \A j \in DOMAIN Mine(c) :
                  j >= i => cooldown[ManagerOf[c]][Mine(c)[j]] > 0
           /\ where.at = "send" =>
                /\ where.entry \in DOMAIN Mine(c)
                /\ where.attempt = 1
                /\ cooldown[ManagerOf[c]][Mine(c)[where.entry]] = 0
                /\ \A j \in DOMAIN Mine(c) : j >= i /\ j < where.entry =>
                     cooldown[ManagerOf[c]][Mine(c)[j]] > 0
<1>1. /\ ManagerOf[c] \in Managers
      /\ DOMAIN Mine(c) = 1 .. Len(Mine(c))
      /\ Len(Mine(c)) \in Nat
      /\ \A j \in DOMAIN Mine(c) : Mine(c)[j] \in Providers
  BY ChainType DEF IInv
<1>2. \A j \in DOMAIN Mine(c) :
        cooldown[ManagerOf[c]][Mine(c)[j]] = 0
          \/ cooldown[ManagerOf[c]][Mine(c)[j]] > 0
  BY <1>1 DEF IInv, TypeOK
<1>3. CASE Open(c, i) = {} /\ Stays(c, "raised")
  <2> DEFINE where == At("raised", call[c].entry, call[c].attempt, 0)
  <2>1. where \in Calling /\ where.at = "raised"
    BY DEF IInv, TypeOK, Calling, At, Place
  <2>2. call' = [call EXCEPT ![c] = where]
    BY <1>3 DEF Stays, Goto
  <2>3. \A j \in DOMAIN Mine(c) :
          j >= i => cooldown[ManagerOf[c]][Mine(c)[j]] > 0
    BY <1>2, <1>3 DEF Open
  <2> QED  BY <2>1, <2>2, <2>3
<1>4. CASE \E j \in Open(c, i) :
             /\ \A k \in Open(c, i) : j <= k
             /\ Goto(c, At("send", j, 1, 0))
  <2>1. PICK j \in Open(c, i) : /\ \A k \in Open(c, i) : j <= k
                                /\ Goto(c, At("send", j, 1, 0))
    BY <1>4
  <2> DEFINE where == At("send", j, 1, 0)
  <2>2. /\ where \in Calling
        /\ where.at = "send"
        /\ where.entry = j
        /\ where.attempt = 1
    BY <1>1, <2>1, FallbackAssumption DEF Calling, At, Place, Open
  <2>3. call' = [call EXCEPT ![c] = where]
    BY <2>1 DEF Goto
  <2>4. j \in DOMAIN Mine(c) /\ cooldown[ManagerOf[c]][Mine(c)[j]] = 0
    BY <2>1 DEF Open
  <2>5. \A k \in DOMAIN Mine(c) : k >= i /\ k < j =>
          cooldown[ManagerOf[c]][Mine(c)[k]] > 0
    <3> SUFFICES ASSUME NEW k \in DOMAIN Mine(c), k >= i, k < j
                 PROVE  cooldown[ManagerOf[c]][Mine(c)[k]] > 0
      OBVIOUS
    <3>1. k \notin Open(c, i)
      BY <1>1, <2>1, <2>4
    <3> QED  BY <1>2, <3>1 DEF Open
  <2> HIDE DEF where
  <2> QED  BY <2>2, <2>3, <2>4, <2>5
<1> QED  BY <1>3, <1>4 DEF GoOn

-----------------------------------------------------------------------------
\* What has to be shown of the place a call moves to.
Sound(c, where) ==
  /\ where \in Calling
  /\ where.at \in {"send", "pause", "backoff"} =>
       /\ where.entry \in DOMAIN Mine(c)
       /\ where.attempt > 0
       /\ \A i \in DOMAIN Mine(c) :
            i < where.entry => Mine(c)[i] \in faulty'[ManagerOf[c]]
  /\ where.at = "pause" => where.attempt < MaxRetries
  /\ where.at \in {"pause", "backoff"} =>
       Mine(c)[where.entry] \in faulty'[ManagerOf[c]]
  /\ where.at = "raised" =>
       \A i \in DOMAIN Mine(c) : Mine(c)[i] \in faulty'[ManagerOf[c]]

\* What has to be shown of the providers.
Recorded ==
  /\ chain' = chain
  /\ cooldown' \in [Managers -> [Providers -> Nat]]
  /\ rest' \in [Providers -> Nat]
  /\ late' \in [Providers -> [Calls -> Nat]]
  /\ faulty' \in [Managers -> SUBSET Providers]
  /\ \A mm \in Managers : faulty[mm] \subseteq faulty'[mm]
  /\ \A mm \in Managers, p \in Providers :
       cooldown'[mm][p] > 0 => p \in faulty'[mm]

\* One call moves.
LEMMA CallMoves ==
  ASSUME IInv, Recorded, NEW c \in Calls, NEW where, Sound(c, where),
         call' = [call EXCEPT ![c] = where]
  PROVE  IInv'
<1>1. ManagerOf \in [Calls -> Managers]
  BY FallbackAssumption
<1>2. /\ call' \in [Calls -> Calling]
      /\ call'[c] = where
      /\ \A d \in Calls \ {c} : call'[d] = call[d]
  BY DEF IInv, TypeOK, Sound, Calling
<1>3. \A d \in Calls : Mine(d)' = Mine(d)
  BY DEF Mine, Recorded
<1>4. TypeOK'
  <2>1. \A d \in Calls :
          call'[d].at \in {"send", "pause", "backoff"} =>
            /\ call'[d].entry \in DOMAIN chain'[ManagerOf[d]]
            /\ call'[d].attempt > 0
    <3> SUFFICES ASSUME NEW d \in Calls,
                        call'[d].at \in {"send", "pause", "backoff"}
                 PROVE  /\ call'[d].entry \in DOMAIN chain[ManagerOf[d]]
                        /\ call'[d].attempt > 0
      BY DEF Recorded
    <3>1. CASE d = c
      BY <3>1, <1>2 DEF Sound, Mine
    <3>2. CASE d # c
      BY <3>2, <1>2 DEF IInv, TypeOK
    <3> QED  BY <3>1, <3>2
  <2> QED  BY <1>2, <2>1 DEF IInv, TypeOK, Recorded, Calling
<1>5. PausesRetry'
  BY <1>2 DEF IInv, PausesRetry, Sound
<1>6. PassedOver'
  <2>1. ASSUME NEW d \in Calls
        PROVE  /\ call'[d].at \in {"send", "pause", "backoff"} =>
                    \A i \in DOMAIN Mine(d) :
                      i < call'[d].entry => Mine(d)[i] \in faulty'[ManagerOf[d]]
               /\ call'[d].at \in {"pause", "backoff"} =>
                    Mine(d)[call'[d].entry] \in faulty'[ManagerOf[d]]
               /\ call'[d].at = "raised" =>
                    \A i \in DOMAIN Mine(d) : Mine(d)[i] \in faulty'[ManagerOf[d]]
    <3>1. CASE d = c
      BY <3>1, <1>2 DEF Sound
    <3>2. CASE d # c
      <4>1. faulty[ManagerOf[d]] \subseteq faulty'[ManagerOf[d]]
        BY <1>1 DEF Recorded
      <4> QED  BY <3>2, <4>1, <1>2 DEF IInv, PassedOver, Provider
    <3> QED  BY <3>1, <3>2
  <2> QED  BY <2>1, <1>3 DEF PassedOver, Recorded, Provider
<1> QED  BY <1>4, <1>5, <1>6 DEF IInv

\* No call moves.
LEMMA CallsStay ==
  ASSUME IInv, Recorded, UNCHANGED <<chain, call>>
  PROVE  IInv'
<1>1. ManagerOf \in [Calls -> Managers]
  BY FallbackAssumption
<1>2. TypeOK' /\ PausesRetry'
  BY DEF IInv, TypeOK, PausesRetry, Recorded
<1>3. PassedOver'
  <2>1. \A c \in Calls : Mine(c)' = Mine(c) /\ Provider(c)' = Provider(c)
    BY DEF Mine, Provider
  <2>2. \A c \in Calls : faulty[ManagerOf[c]] \subseteq faulty'[ManagerOf[c]]
    BY <1>1 DEF Recorded
  <2> QED  BY <2>1, <2>2 DEF IInv, PassedOver, Recorded
<1> QED  BY <1>2, <1>3 DEF IInv

\* A step in which only a call moves, in the loop over the chain, after the
\* providers before entry i of its chain have been blamed.
LEMMA LoopMoves ==
  ASSUME IInv, NEW c \in Calls, NEW i \in Nat, GoOn(c, i), Recorded,
         \A j \in DOMAIN Mine(c) :
           j < i => Mine(c)[j] \in faulty'[ManagerOf[c]]
  PROVE  IInv'
<1>1. PICK where \in Calling :
        /\ call' = [call EXCEPT ![c] = where]
        /\ where.at \in {"raised", "send"}
        /\ where.at = "raised" =>
             \A j \in DOMAIN Mine(c) :
               j >= i => cooldown[ManagerOf[c]][Mine(c)[j]] > 0
        /\ where.at = "send" =>
             /\ where.entry \in DOMAIN Mine(c)
             /\ where.attempt = 1
             /\ cooldown[ManagerOf[c]][Mine(c)[where.entry]] = 0
             /\ \A j \in DOMAIN Mine(c) : j >= i /\ j < where.entry =>
                  cooldown[ManagerOf[c]][Mine(c)[j]] > 0
  BY GoesOn
<1>2. /\ ManagerOf[c] \in Managers
      /\ DOMAIN Mine(c) = 1 .. Len(Mine(c))
      /\ Len(Mine(c)) \in Nat
      /\ \A j \in DOMAIN Mine(c) : Mine(c)[j] \in Providers
  BY ChainType DEF IInv
<1>3. \A j \in DOMAIN Mine(c) :
        cooldown[ManagerOf[c]][Mine(c)[j]] > 0 =>
          Mine(c)[j] \in faulty'[ManagerOf[c]]
  BY <1>2 DEF IInv, PassedOver, Recorded
<1>4. \A j \in DOMAIN Mine(c) : j < i \/ j >= i
  BY <1>2
<1>5. Sound(c, where)
  BY <1>1, <1>3, <1>4 DEF Sound
<1> QED  BY <1>1, <1>5, CallMoves

\* A step that leaves the providers alone, or blames one more.
LEMMA Unblamed ==
  ASSUME IInv, UNCHANGED <<chain, cooldown, rest, late, faulty>>
  PROVE  Recorded
  BY DEF IInv, TypeOK, PassedOver, Recorded

LEMMA Blamed ==
  ASSUME IInv, UNCHANGED <<chain, cooldown, rest, late>>,
         NEW mm \in Managers, NEW p \in Providers, Blame(mm, p)
  PROVE  Recorded /\ p \in faulty'[mm]
  BY DEF IInv, TypeOK, PassedOver, Recorded, Blame

LEMMA RestBlamed ==
  ASSUME IInv, NEW mm \in Managers, NEW p \in Providers, NEW d \in Nat,
         Blame(mm, p), Rests(p, d), UNCHANGED chain,
         cooldown' = [cooldown EXCEPT ![mm][p] = d]
  PROVE  Recorded /\ p \in faulty'[mm]
<1>1. /\ faulty' \in [Managers -> SUBSET Providers]
      /\ \A n \in Managers : faulty[n] \subseteq faulty'[n]
      /\ p \in faulty'[mm]
  BY DEF IInv, TypeOK, Blame
<1>2. /\ cooldown' \in [Managers -> [Providers -> Nat]]
      /\ \A n \in Managers, q \in Providers :
           n # mm \/ q # p => cooldown'[n][q] = cooldown[n][q]
  BY DEF IInv, TypeOK
<1>3. \A n \in Managers, q \in Providers :
        cooldown'[n][q] > 0 => q \in faulty'[n]
  BY <1>1, <1>2 DEF IInv, PassedOver
<1>4. rest' \in [Providers -> Nat] /\ late' \in [Providers -> [Calls -> Nat]]
  BY DEF IInv, TypeOK, Rests, NoSends
<1> QED  BY <1>1, <1>2, <1>3, <1>4 DEF Recorded

-----------------------------------------------------------------------------
LEMMA InitHolds == Init => IInv
<1> SUFFICES ASSUME Init PROVE IInv
  OBVIOUS
<1>1. At("new", 0, 0, 0) \in Calling /\ At("new", 0, 0, 0).at = "new"
  BY FallbackAssumption DEF At, Calling, Place
<1>2. TypeOK
  BY <1>1 DEF Init, TypeOK, Calling, NoSends
<1>3. PausesRetry /\ PassedOver
  BY <1>1 DEF Init, PausesRetry, PassedOver
<1> QED  BY <1>2, <1>3 DEF IInv

\* Facts about a call that is under way.
LEMMA ChainUnderWay ==
  ASSUME IInv, NEW c \in Calls, call[c].at \in {"send", "pause", "backoff"}
  PROVE  /\ ManagerOf[c] \in Managers
         /\ DOMAIN Mine(c) = 1 .. Len(Mine(c))
         /\ Len(Mine(c)) \in Nat
         /\ call[c] \in Calling
         /\ call[c].entry \in DOMAIN Mine(c)
         /\ call[c].entry \in Nat \ {0}
         /\ call[c].attempt \in 1 .. MaxRetries
         /\ Provider(c) \in Providers
         /\ \A i \in DOMAIN Mine(c) :
              i < call[c].entry => Mine(c)[i] \in faulty[ManagerOf[c]]
<1>1. /\ ManagerOf[c] \in Managers
      /\ DOMAIN Mine(c) = 1 .. Len(Mine(c))
      /\ Len(Mine(c)) \in Nat
      /\ \A i \in DOMAIN Mine(c) : Mine(c)[i] \in Providers
  BY ChainType DEF IInv
<1>2. call[c] \in Calling /\ call[c].entry \in DOMAIN Mine(c)
  BY DEF IInv, TypeOK, Calling, Mine
<1>3. call[c].attempt \in 1 .. MaxRetries
  BY FallbackAssumption DEF IInv, TypeOK
<1> QED  BY <1>1, <1>2, <1>3 DEF IInv, PassedOver, Provider

LEMMA StepKeeps == IInv /\ [Next]_vars => IInv'
<1> SUFFICES ASSUME IInv, [Next]_vars PROVE IInv'
  OBVIOUS
<1> USE FallbackAssumption
<1>1. ASSUME NEW c \in Calls, Execute(c) PROVE IInv'
  <2>1. Recorded
    BY <1>1, Unblamed DEF Execute
  <2>2. \A j \in DOMAIN Mine(c) : ~(j < 1)
    BY ChainType DEF IInv
  <2> QED  BY <1>1, <2>1, <2>2, LoopMoves DEF Execute
<1>2. ASSUME NEW c \in Calls, SendSucceeds(c) PROVE IInv'
  <2> DEFINE where == At("returned", call[c].entry, call[c].attempt, 0)
  <2>1. Recorded
    BY <1>2, Unblamed DEF SendSucceeds
  <2>2. Sound(c, where)
    BY <1>2, ChainUnderWay DEF SendSucceeds, Sound, At, Calling, Place
  <2>3. call' = [call EXCEPT ![c] = where]
    BY <1>2 DEF SendSucceeds, Stays, Goto
  <2> QED  BY <2>1, <2>2, <2>3, CallMoves
<1>3. ASSUME NEW c \in Calls, SendRefused(c) PROVE IInv'
  <2>1. call[c].at = "send"
    BY <1>3 DEF SendRefused
  <2>2. Recorded /\ Provider(c) \in faulty'[ManagerOf[c]]
    BY <1>3, <2>1, ChainUnderWay, Blamed DEF SendRefused
  <2>3. \A j \in DOMAIN Mine(c) :
          j < call[c].entry + 1 => Mine(c)[j] \in faulty'[ManagerOf[c]]
    <3> SUFFICES ASSUME NEW j \in DOMAIN Mine(c), j < call[c].entry + 1
                 PROVE  Mine(c)[j] \in faulty'[ManagerOf[c]]
      OBVIOUS
    <3>1. CASE j = call[c].entry
      BY <3>1, <2>2 DEF Provider
    <3>2. CASE j # call[c].entry
      <4>1. j < call[c].entry
        BY <3>2, <2>1, ChainUnderWay
      <4> QED  BY <4>1, <2>1, <2>2, ChainUnderWay DEF Recorded
    <3> QED  BY <3>1, <3>2
  <2>4. call[c].entry + 1 \in Nat /\ GoOn(c, call[c].entry + 1)
    BY <1>3, <2>1, ChainUnderWay DEF SendRefused
  <2> QED  BY <2>2, <2>3, <2>4, LoopMoves
<1>4. ASSUME NEW c \in Calls, SendFails(c) PROVE IInv'
  <2> DEFINE where == At("pause", call[c].entry, call[c].attempt, RetryPause)
  <2>1. call[c].at = "send"
    BY <1>4 DEF SendFails
  <2>2. Recorded /\ Provider(c) \in faulty'[ManagerOf[c]]
    BY <1>4, <2>1, ChainUnderWay, Blamed DEF SendFails
  <2>3. where \in Calling /\ where.at = "pause" /\ where.entry = call[c].entry
          /\ where.attempt = call[c].attempt
    BY <2>1, ChainUnderWay DEF At, Calling, Place
  <2>4. faulty[ManagerOf[c]] \subseteq faulty'[ManagerOf[c]]
    BY <2>1, <2>2, ChainUnderWay DEF Recorded
  <2>5. call[c].attempt < MaxRetries
    BY <1>4 DEF SendFails
  <2>6. call' = [call EXCEPT ![c] = where]
    BY <1>4 DEF SendFails, Goto
  <2> HIDE DEF where
  <2>7. Sound(c, where)
    BY <2>1, <2>2, <2>3, <2>4, <2>5, ChainUnderWay DEF Sound, Provider
  <2> QED  BY <2>2, <2>6, <2>7, CallMoves
<1>5. ASSUME NEW c \in Calls, SendExhausts(c) PROVE IInv'
  <2> DEFINE e == call[c].entry
  <2>1. call[c].at = "send"
    BY <1>5 DEF SendExhausts
  <2>2. Recorded /\ Provider(c) \in faulty'[ManagerOf[c]]
    BY <1>5, <2>1, ChainUnderWay, RestBlamed DEF SendExhausts
  <2>3. faulty[ManagerOf[c]] \subseteq faulty'[ManagerOf[c]]
    BY <2>1, <2>2, ChainUnderWay DEF Recorded
  <2>4. CASE e < Len(Mine(c))
    <3> DEFINE where == At("backoff", e, MaxRetries, BackoffBase * 2 ^ (e - 1))
    <3>1. BackoffBase * 2 ^ (e - 1) \in Nat
      BY <2>1, ChainUnderWay DEF IInv, TypeOK, Mine
    <3>2. /\ where \in Calling
          /\ where.at = "backoff"
          /\ where.entry = e
          /\ where.attempt = MaxRetries
      BY <2>1, <3>1, ChainUnderWay DEF At, Calling, Place
    <3>3. call' = [call EXCEPT ![c] = where]
      BY <1>5, <2>4 DEF SendExhausts, Goto
    <3> HIDE DEF where
    <3>4. Sound(c, where)
      BY <2>1, <2>2, <2>3, <3>2, ChainUnderWay DEF Sound, Provider
    <3> QED  BY <2>2, <3>3, <3>4, CallMoves
  <2>5. CASE ~(e < Len(Mine(c)))
    <3> DEFINE where == At("raised", e, call[c].attempt, 0)
    <3>1. where \in Calling /\ where.at = "raised"
      BY <2>1, ChainUnderWay DEF At, Calling, Place
    <3>2. call' = [call EXCEPT ![c] = where]
      BY <1>5, <2>5 DEF SendExhausts, Stays, Goto
    <3>3. \A i \in DOMAIN Mine(c) : i < e \/ i = e
      BY <2>1, <2>5, ChainUnderWay
    <3>4. \A i \in DOMAIN Mine(c) : Mine(c)[i] \in faulty'[ManagerOf[c]]
      <4> SUFFICES ASSUME NEW i \in DOMAIN Mine(c)
                   PROVE  Mine(c)[i] \in faulty'[ManagerOf[c]]
        OBVIOUS
      <4>1. CASE i = e
        BY <4>1, <2>2 DEF Provider
      <4>2. CASE i < e
        BY <4>2, <2>1, <2>3, ChainUnderWay
      <4> QED  BY <3>3, <4>1, <4>2
    <3> HIDE DEF where
    <3>5. Sound(c, where)
      BY <3>1, <3>4 DEF Sound
    <3> QED  BY <2>2, <3>2, <3>5, CallMoves
  <2> QED  BY <2>4, <2>5
<1>6. ASSUME NEW c \in Calls, Retry(c) PROVE IInv'
  <2> DEFINE where == At("send", call[c].entry, call[c].attempt + 1, 0)
  <2>1. call[c].at = "pause"
    BY <1>6 DEF Retry
  <2>2. Recorded
    <3>1. late' \in [Providers -> [Calls -> Nat]]
      <4>1. Provider(c) \in Providers /\ SendLate(c)
        BY <1>6, <2>1, ChainUnderWay DEF Retry
      <4>2. PICK q \in Providers :
              late' = [late EXCEPT ![q][c] = IF rest[q] > 0 THEN @ + 1 ELSE @]
        BY <4>1 DEF SendLate
      <4>3. late[q][c] \in Nat /\ late \in [Providers -> [Calls -> Nat]]
        BY DEF IInv, TypeOK
      <4>4. (IF rest[q] > 0 THEN late[q][c] + 1 ELSE late[q][c]) \in Nat
        BY <4>3
      <4>5. [late[q] EXCEPT ![c] = IF rest[q] > 0 THEN @ + 1 ELSE @]
              \in [Calls -> Nat]
        BY <4>3, <4>4
      <4> QED  BY <4>2, <4>3, <4>5
    <3> QED  BY <1>6, <3>1 DEF Retry, Recorded, IInv, TypeOK, PassedOver
  <2>3. call[c].attempt + 1 \in 1 .. MaxRetries
    BY <2>1, ChainUnderWay DEF IInv, PausesRetry
  <2>4. /\ where \in Calling
        /\ where.at = "send"
        /\ where.entry = call[c].entry
        /\ where.attempt > 0
    BY <2>1, <2>3, ChainUnderWay DEF At, Calling, Place
  <2>5. call' = [call EXCEPT ![c] = where]
    BY <1>6 DEF Retry, Goto
  <2>6. faulty' = faulty
    BY <1>6 DEF Retry
  <2> HIDE DEF where
  <2>7. Sound(c, where)
    BY <2>1, <2>4, <2>6, ChainUnderWay DEF Sound
  <2> QED  BY <2>2, <2>5, <2>7, CallMoves
<1>7. ASSUME NEW c \in Calls, SwitchOn(c) PROVE IInv'
  <2>1. call[c].at = "backoff"
    BY <1>7 DEF SwitchOn
  <2>2. Recorded
    BY <1>7, Unblamed DEF SwitchOn
  <2>3. Provider(c) \in faulty'[ManagerOf[c]]
    BY <1>7, <2>1 DEF SwitchOn, IInv, PassedOver
  <2>4. \A j \in DOMAIN Mine(c) :
          j < call[c].entry + 1 => Mine(c)[j] \in faulty'[ManagerOf[c]]
    <3> SUFFICES ASSUME NEW j \in DOMAIN Mine(c), j < call[c].entry + 1
                 PROVE  Mine(c)[j] \in faulty'[ManagerOf[c]]
      OBVIOUS
    <3>1. CASE j = call[c].entry
      BY <3>1, <2>3 DEF Provider
    <3>2. CASE j # call[c].entry
      <4>1. j < call[c].entry
        BY <3>2, <2>1, ChainUnderWay
      <4> QED  BY <1>7, <4>1, <2>1, ChainUnderWay DEF SwitchOn
    <3> QED  BY <3>1, <3>2
  <2>5. call[c].entry + 1 \in Nat /\ GoOn(c, call[c].entry + 1)
    BY <1>7, <2>1, ChainUnderWay DEF SwitchOn
  <2> QED  BY <2>2, <2>4, <2>5, LoopMoves
<1>8. ASSUME NEW c \in Calls, Cancel(c) PROVE IInv'
  <2> DEFINE where == At("cancelled", call[c].entry, call[c].attempt, 0)
  <2>1. Recorded
    BY <1>8, Unblamed DEF Cancel
  <2>2. Sound(c, where)
    BY <1>8, ChainUnderWay DEF Cancel, Sound, At, Calling, Place
  <2>3. call' = [call EXCEPT ![c] = where]
    BY <1>8 DEF Cancel, Stays, Goto
  <2> QED  BY <2>1, <2>2, <2>3, CallMoves
<1>9. ASSUME NEW mm \in Managers, NEW p \in Providers, NEW d \in Durations,
             MarkUnhealthy(mm, p, d)
      PROVE  IInv'
  <2>1. Recorded
    BY <1>9, RestBlamed DEF MarkUnhealthy
  <2>2. UNCHANGED <<chain, call>>
    BY <1>9 DEF MarkUnhealthy
  <2> QED  BY <2>1, <2>2, CallsStay
<1>10. ASSUME Tick PROVE IInv'
  <2>1. \A t \in Nat : Less(t) \in Nat /\ (Less(t) > 0 => t > 0)
    BY DEF Less
  <2>2. Recorded
    <3>1. /\ cooldown' \in [Managers -> [Providers -> Nat]]
          /\ rest' \in [Providers -> Nat]
          /\ late' \in [Providers -> [Calls -> Nat]]
      BY <1>10, <2>1 DEF Tick, IInv, TypeOK, NoSends
    <3>2. \A mm \in Managers, p \in Providers :
            cooldown'[mm][p] > 0 => cooldown[mm][p] > 0
      BY <1>10, <2>1 DEF Tick, IInv, TypeOK
    <3> QED  BY <1>10, <3>1, <3>2 DEF Tick, Recorded, IInv, TypeOK, PassedOver
  <2>3. /\ call' \in [Calls -> Calling]
        /\ \A c \in Calls : /\ call'[c].at = call[c].at
                            /\ call'[c].entry = call[c].entry
                            /\ call'[c].attempt = call[c].attempt
    <3>1. \A c \in Calls :
            /\ call[c] \in Calling
            /\ [call[c] EXCEPT !.wait = Less(@)] \in Calling
            /\ [call[c] EXCEPT !.wait = Less(@)].at = call[c].at
            /\ [call[c] EXCEPT !.wait = Less(@)].entry = call[c].entry
            /\ [call[c] EXCEPT !.wait = Less(@)].attempt = call[c].attempt
      BY <2>1 DEF IInv, TypeOK, Calling
    <3> QED  BY <1>10, <3>1 DEF Tick
  <2>4. chain' = chain /\ faulty' = faulty
    BY <1>10 DEF Tick
  <2>5. TypeOK' /\ PausesRetry'
    BY <2>2, <2>3, <2>4 DEF IInv, TypeOK, PausesRetry, Recorded, Calling
  <2>6. PassedOver'
    <3>1. \A c \in Calls : Mine(c)' = Mine(c) /\ Provider(c)' = Provider(c)
      BY <2>3, <2>4 DEF Mine, Provider
    <3>2. \A c \in Calls :
            /\ call'[c].at \in {"send", "pause", "backoff"} =>
                 \A i \in DOMAIN Mine(c) :
                   i < call'[c].entry => Mine(c)[i] \in faulty[ManagerOf[c]]
            /\ call'[c].at \in {"pause", "backoff"} =>
                 Provider(c) \in faulty[ManagerOf[c]]
            /\ call'[c].at = "raised" =>
                 \A i \in DOMAIN Mine(c) : Mine(c)[i] \in faulty[ManagerOf[c]]
      BY <2>3 DEF IInv, PassedOver
    <3> QED  BY <2>2, <2>4, <3>1, <3>2 DEF PassedOver, Recorded
  <2> QED  BY <2>5, <2>6 DEF IInv
<1>11. CASE UNCHANGED vars
  <2>1. Recorded /\ UNCHANGED <<chain, call>>
    BY <1>11, Unblamed DEF vars
  <2> QED  BY <2>1, CallsStay
<1> QED
  BY <1>1, <1>2, <1>3, <1>4, <1>5, <1>6, <1>7, <1>8, <1>9, <1>10, <1>11
     DEF Next, Sent

-----------------------------------------------------------------------------
\* The inductive invariant.
THEOREM Invariance == Spec => []IInv
<1> QED  BY InitHolds, StepKeeps, PTL DEF Spec

\* Calls, chains and cooldowns stay well typed.
THEOREM TypeCorrect == Spec => []TypeOK
<1>1. IInv => TypeOK
  BY DEF IInv
<1> QED  BY <1>1, Invariance, PTL

\* A call raises only if every provider of its chain has failed or was marked,
\* for all chains, delays and numbers of calls on any number of managers.
THEOREM OnlyNeededFailures == Spec => []NoNeedlessFailure
<1>1. IInv => NoNeedlessFailure
  BY DEF IInv, PassedOver, NoNeedlessFailure
<1> QED  BY <1>1, Invariance, PTL

-----------------------------------------------------------------------------
(* When all calls share one manager, its cooldowns are what rest records.   *)

OneManager == \E mm : Managers = {mm}

Mirrored == \A mm \in Managers, p \in Providers : cooldown[mm][p] = rest[p]

LEMMA MirrorKept ==
  ASSUME OneManager, IInv, Mirrored, [Next]_vars
  PROVE  Mirrored'
<1>1. ASSUME NEW mm \in Managers, NEW p \in Providers, NEW d,
             cooldown' = [cooldown EXCEPT ![mm][p] = d], Rests(p, d)
      PROVE  Mirrored'
  <2>1. \A n \in Managers : n = mm
    BY DEF OneManager
  <2>2. \A q \in Providers :
          cooldown'[mm][q] = (IF q = p THEN d ELSE cooldown[mm][q])
    BY <1>1 DEF IInv, TypeOK
  <2>3. \A q \in Providers : rest'[q] = (IF q = p THEN d ELSE rest[q])
    BY <1>1 DEF IInv, TypeOK, Rests
  <2> QED  BY <2>1, <2>2, <2>3 DEF Mirrored
<1>2. ASSUME NEW c \in Calls, SendExhausts(c) PROVE Mirrored'
  <2>1. call[c].at = "send"
    BY <1>2 DEF SendExhausts
  <2>2. ManagerOf[c] \in Managers /\ Provider(c) \in Providers
    BY <2>1, ChainUnderWay
  <2> QED  BY <1>1, <1>2, <2>2 DEF SendExhausts
<1>3. ASSUME NEW mm \in Managers, NEW p \in Providers, NEW d \in Durations,
             MarkUnhealthy(mm, p, d)
      PROVE  Mirrored'
  BY <1>1, <1>3 DEF MarkUnhealthy
<1>4. CASE Tick
  BY <1>4 DEF Tick, Mirrored, IInv, TypeOK
<1>5. CASE UNCHANGED <<cooldown, rest>>
  BY <1>5 DEF Mirrored
<1> QED
  BY <1>2, <1>3, <1>4, <1>5 DEF Next, Sent, Execute, SendSucceeds, SendRefused,
     SendFails, Retry, SwitchOn, Cancel, vars

LEMMA BeginsRested ==
  ASSUME IInv, Mirrored, [Next]_vars, NEW c \in Calls, Begins(c)
  PROVE  rest[Mine(c)[call'[c].entry]] = 0
<1>1. ASSUME NEW i \in Nat, GoOn(c, i)
      PROVE  rest[Mine(c)[call'[c].entry]] = 0
  <2>1. /\ ManagerOf[c] \in Managers
        /\ \A j \in DOMAIN Mine(c) : Mine(c)[j] \in Providers
    BY ChainType DEF IInv
  <2>2. PICK where \in Calling :
          /\ call' = [call EXCEPT ![c] = where]
          /\ where.at = "send" =>
               /\ where.entry \in DOMAIN Mine(c)
               /\ cooldown[ManagerOf[c]][Mine(c)[where.entry]] = 0
    BY <1>1, GoesOn
  <2>3. call'[c] = where
    BY <2>2 DEF IInv, TypeOK
  <2> QED  BY <2>1, <2>2, <2>3 DEF Begins, Mirrored
<1>2. ASSUME NEW where,
             call' = [call EXCEPT ![c] = where],
             where.at # "send" \/ where.attempt # 1
      PROVE  FALSE
  <2>1. call'[c] = where
    BY <1>2 DEF IInv, TypeOK
  <2> QED  BY <1>2, <2>1 DEF Begins
<1>3. ASSUME call'[c] = call[c] PROVE FALSE
  BY <1>3 DEF Begins
<1>4. ASSUME NEW d \in Calls, d # c,
             \/ Execute(d) \/ Sent(d) \/ Retry(d) \/ SwitchOn(d) \/ Cancel(d)
      PROVE  FALSE
  <2>1. PICK where : call' = [call EXCEPT ![d] = where]
    BY <1>4 DEF Execute, Sent, SendSucceeds, SendRefused, SendFails, SendExhausts,
                Retry, SwitchOn, Cancel, GoOn, Stays, Goto
  <2>2. call'[c] = call[c]
    BY <1>4, <2>1 DEF IInv, TypeOK
  <2> QED  BY <2>2, <1>3
<1>5. CASE Execute(c)
  BY <1>1, <1>5 DEF Execute
<1>6. CASE SendSucceeds(c) \/ Cancel(c)
  <2>1. PICK place \in {"returned", "cancelled"} : Stays(c, place)
    BY <1>6 DEF SendSucceeds, Cancel
  <2> QED  BY <1>2, <2>1 DEF Stays, Goto, At
<1>7. CASE SendRefused(c)
  <2>1. call[c].entry + 1 \in Nat
    BY <1>7, ChainUnderWay DEF SendRefused
  <2> QED  BY <1>1, <1>7, <2>1 DEF SendRefused
<1>8. CASE SendFails(c)
  BY <1>2, <1>8 DEF SendFails, Goto, At
<1>9. CASE SendExhausts(c)
  BY <1>2, <1>9 DEF SendExhausts, Stays, Goto, At
<1>10. CASE Retry(c)
  <2>1. call[c].attempt \in 1 .. MaxRetries
    BY <1>10, ChainUnderWay DEF Retry
  <2>2. call[c].attempt + 1 # 1
    BY <2>1, FallbackAssumption
  <2> QED  BY <1>2, <1>10, <2>2 DEF Retry, Goto, At
<1>11. CASE SwitchOn(c)
  <2>1. call[c].entry + 1 \in Nat
    BY <1>11, ChainUnderWay DEF SwitchOn
  <2> QED  BY <1>1, <1>11, <2>1 DEF SwitchOn
<1>12. CASE \E mm \in Managers, p \in Providers, d \in Durations :
              MarkUnhealthy(mm, p, d)
  BY <1>3, <1>12 DEF MarkUnhealthy
<1>13. CASE Tick
  <2>1. call'[c].at = call[c].at /\ call'[c].entry = call[c].entry
    BY <1>13 DEF Tick, IInv, TypeOK
  <2> QED  BY <2>1 DEF Begins
<1>14. CASE UNCHANGED vars
  BY <1>3, <1>14 DEF vars
<1> QED
  BY <1>4, <1>5, <1>6, <1>7, <1>8, <1>9, <1>10, <1>11, <1>12, <1>13, <1>14
     DEF Next, Sent

\* If all calls share one manager, nobody begins to send to a provider that
\* rests, for all chains, delays and cooldowns.
THEOREM SharedHealthRests ==
  ASSUME OneManager PROVE Spec => StartsOnlyOnRested
<1>1. Init => Mirrored
  BY DEF Init, Mirrored
<1>2. IInv /\ Mirrored /\ [Next]_vars => Mirrored'
  BY OneManager, MirrorKept
<1>3. IInv /\ Mirrored /\ [Next]_vars =>
        [\A c \in Calls : Begins(c) => rest[Mine(c)[call'[c].entry]] = 0]_vars
  BY BeginsRested
<1> QED  BY <1>1, <1>2, <1>3, Invariance, PTL DEF Spec, StartsOnlyOnRested

-----------------------------------------------------------------------------
(* Sends to a provider that rests.  A call comes to a provider only when it   *)
(* has rested, so its late sends are among the retries it has made since.   *)

LateCounted ==
  /\ \A p \in Providers, c \in Calls :
       /\ rest[p] = 0 => late[p][c] = 0
       /\ late[p][c] <= MaxRetries - 1
  /\ \A c \in Calls :
       call[c].at \in {"send", "pause"} => late[Provider(c)][c] < call[c].attempt

\* Nothing is sent, and the calls are where they were or somewhere else where
\* they do not send.
LEMMA LateLowered ==
  ASSUME IInv, LateCounted, chain' = chain,
         \A p \in Providers, c \in Calls :
           /\ late'[p][c] <= late[p][c]
           /\ late'[p][c] \in Nat
           /\ rest'[p] = 0 => late'[p][c] = 0,
         \A c \in Calls : call'[c].at \in {"send", "pause"} =>
           /\ call[c].at \in {"send", "pause"}
           /\ call'[c].entry = call[c].entry
           /\ call'[c].attempt = call[c].attempt
  PROVE  LateCounted'
<1>1. \A p \in Providers, c \in Calls : late[p][c] \in Nat
  BY DEF IInv, TypeOK
<1>2. \A p \in Providers, c \in Calls : late'[p][c] <= MaxRetries - 1
  BY <1>1, FallbackAssumption DEF LateCounted
<1>3. ASSUME NEW c \in Calls, call'[c].at \in {"send", "pause"}
      PROVE  late'[Provider(c)'][c] < call'[c].attempt
  <2>1. call[c].at \in {"send", "pause"} /\ Provider(c)' = Provider(c)
    BY <1>3 DEF Provider, Mine
  <2>2. Provider(c) \in Providers /\ call[c].attempt \in Nat
    BY <2>1, ChainUnderWay
  <2>3. late[Provider(c)][c] < call[c].attempt
    BY <2>1 DEF LateCounted
  <2> QED  BY <1>1, <1>3, <2>1, <2>2, <2>3
<1> QED  BY <1>2, <1>3 DEF LateCounted

\* One call moves to a place where it does not send.
LEMMA CallLeaves ==
  ASSUME IInv, LateCounted, UNCHANGED <<chain, rest, late>>,
         NEW c \in Calls, NEW where, call' = [call EXCEPT ![c] = where],
         where.at \in {"send", "pause"} =>
           /\ call[c].at \in {"send", "pause"}
           /\ where.entry = call[c].entry
           /\ where.attempt = call[c].attempt
  PROVE  LateCounted'
<1>1. call'[c] = where /\ \A d \in Calls \ {c} : call'[d] = call[d]
  BY DEF IInv, TypeOK
<1>2. \A p \in Providers, d \in Calls :
        /\ late'[p][d] <= late[p][d]
        /\ late'[p][d] \in Nat
        /\ rest'[p] = 0 => late'[p][d] = 0
  BY DEF IInv, TypeOK, LateCounted
<1>3. \A d \in Calls : call'[d].at \in {"send", "pause"} =>
        /\ call[d].at \in {"send", "pause"}
        /\ call'[d].entry = call[d].entry
        /\ call'[d].attempt = call[d].attempt
  BY <1>1
<1> QED  BY <1>2, <1>3, LateLowered

\* A call that goes on in its chain comes to a provider that has rested.
LEMMA ComesRested ==
  ASSUME IInv, Mirrored, LateCounted, UNCHANGED <<chain, rest, late>>,
         NEW c \in Calls, NEW i \in Nat, GoOn(c, i)
  PROVE  LateCounted'
<1>1. PICK where \in Calling :
        /\ call' = [call EXCEPT ![c] = where]
        /\ where.at \in {"raised", "send"}
        /\ where.at = "send" =>
             /\ where.entry \in DOMAIN Mine(c)
             /\ where.attempt = 1
             /\ cooldown[ManagerOf[c]][Mine(c)[where.entry]] = 0
  BY GoesOn
<1>2. CASE where.at = "raised"
  BY <1>1, <1>2, CallLeaves
<1>3. CASE where.at = "send"
  <2>1. call'[c] = where /\ \A d \in Calls \ {c} : call'[d] = call[d]
    BY <1>1 DEF IInv, TypeOK
  <2>2. \A d \in Calls \ {c} : Provider(d)' = Provider(d)
    BY <2>1 DEF Provider, Mine
  <2>3. late[Mine(c)[where.entry]][c] = 0
    BY <1>1, <1>3, ChainType DEF IInv, Mirrored, LateCounted
  <2>4. Provider(c)' = Mine(c)[where.entry]
    BY <2>1 DEF Provider, Mine
  <2>5. late'[Provider(c)'][c] < call'[c].attempt
    BY <1>1, <1>3, <2>1, <2>3, <2>4
  <2>6. \A d \in Calls \ {c} : call'[d].at \in {"send", "pause"} =>
          late'[Provider(d)'][d] < call'[d].attempt
    BY <2>1, <2>2 DEF LateCounted
  <2> QED  BY <2>5, <2>6 DEF LateCounted
<1> QED  BY <1>1, <1>2, <1>3

\* A retry is one more attempt, and at most one more late send.
LEMMA RetryCounted ==
  ASSUME IInv, LateCounted, NEW c \in Calls, Retry(c)
  PROVE  LateCounted'
<1> DEFINE q == Provider(c)
           where == At("send", call[c].entry, call[c].attempt + 1, 0)
<1>1. /\ call[c].at = "pause"
      /\ call' = [call EXCEPT ![c] = where]
      /\ SendLate(c)
      /\ UNCHANGED <<chain, rest>>
  BY DEF Retry, Goto
<1>2. q \in Providers /\ call[c].attempt \in Nat
  BY <1>1, ChainUnderWay
<1>3. late[q][c] < call[c].attempt /\ call[c].attempt < MaxRetries
  BY <1>1 DEF LateCounted, IInv, PausesRetry
<1>4. late[q][c] \in Nat /\ late'[q][c] \in Nat /\ late'[q][c] <= late[q][c] + 1
        /\ (rest[q] = 0 => late'[q][c] = late[q][c])
  <2>1. late' = [late EXCEPT ![q][c] = IF rest[q] > 0 THEN @ + 1 ELSE @]
    BY <1>1 DEF SendLate
  <2> HIDE DEF q
  <2>2. late[q][c] \in Nat /\ rest[q] \in Nat
    BY <1>2 DEF IInv, TypeOK
  <2>3. late'[q][c] = IF rest[q] > 0 THEN late[q][c] + 1 ELSE late[q][c]
    BY <1>2, <2>1 DEF IInv, TypeOK
  <2> QED  BY <2>2, <2>3
<1>5. \A p \in Providers, d \in Calls :
        p # q \/ d # c => late'[p][d] = late[p][d]
  <2>1. late' = [late EXCEPT ![q][c] = IF rest[q] > 0 THEN @ + 1 ELSE @]
    BY <1>1 DEF SendLate
  <2> HIDE DEF q
  <2> QED  BY <2>1 DEF IInv, TypeOK
<1>6. \A p \in Providers, d \in Calls :
        /\ rest'[p] = 0 => late'[p][d] = 0
        /\ late'[p][d] <= MaxRetries - 1
  <2> SUFFICES ASSUME NEW p \in Providers, NEW d \in Calls
               PROVE  /\ rest'[p] = 0 => late'[p][d] = 0
                      /\ late'[p][d] <= MaxRetries - 1
    OBVIOUS
  <2>1. CASE p = q /\ d = c
    <3>1. rest'[p] = 0 => late'[p][d] = 0
      BY <1>1, <1>2, <1>4, <2>1 DEF LateCounted
    <3>2. late'[p][d] <= MaxRetries - 1
      <4> HIDE DEF q
      <4> QED  BY <1>2, <1>3, <1>4, <2>1, FallbackAssumption
    <3> QED  BY <3>1, <3>2
  <2>2. CASE p # q \/ d # c
    BY <1>1, <1>5, <2>2 DEF LateCounted
  <2> QED  BY <2>1, <2>2
<1>7. ASSUME NEW d \in Calls, call'[d].at \in {"send", "pause"}
      PROVE  late'[Provider(d)'][d] < call'[d].attempt
  <2>1. CASE d = c
    <3>1. call'[c] = where
      BY <1>1 DEF IInv, TypeOK
    <3>2. Provider(c)' = q /\ call'[c].attempt = call[c].attempt + 1
      BY <1>1, <3>1 DEF Provider, Mine, At
    <3> HIDE DEF q
    <3> QED  BY <1>2, <1>3, <1>4, <2>1, <3>2
  <2>2. CASE d # c
    <3>1. call'[d] = call[d]
      BY <1>1, <2>2 DEF IInv, TypeOK
    <3>2. Provider(d)' = Provider(d)
      BY <1>1, <3>1 DEF Provider, Mine
    <3>3. Provider(d) \in Providers
      BY <1>7, <3>1, ChainUnderWay
    <3> HIDE DEF q
    <3> QED  BY <1>5, <1>7, <2>2, <3>1, <3>2, <3>3 DEF LateCounted
  <2> QED  BY <2>1, <2>2
<1> QED  BY <1>6, <1>7 DEF LateCounted

\* A provider's rest is set anew.
LEMMA RestKeepsLate ==
  ASSUME IInv, LateCounted, NEW p \in Providers, NEW d \in Nat, Rests(p, d)
  PROVE  \A q \in Providers, c \in Calls :
           /\ late'[q][c] <= late[q][c]
           /\ late'[q][c] \in Nat
           /\ rest'[q] = 0 => late'[q][c] = 0
<1>1. \A q \in Providers, c \in Calls : late[q][c] \in Nat
  BY DEF IInv, TypeOK
<1>2. rest'[p] = d /\ \A q \in Providers \ {p} : rest'[q] = rest[q]
  BY DEF Rests, IInv, TypeOK
<1>3. /\ late'[p] = IF d = 0 THEN NoSends ELSE late[p]
      /\ \A q \in Providers \ {p} : late'[q] = late[q]
  BY DEF Rests, IInv, TypeOK
<1>4. \A c \in Calls : NoSends[c] = 0
  BY DEF NoSends
<1> QED  BY <1>1, <1>2, <1>3, <1>4 DEF LateCounted

LEMMA LateStep ==
  ASSUME IInv, Mirrored, LateCounted, [Next]_vars
  PROVE  LateCounted'
<1>1. ASSUME NEW c \in Calls, Execute(c) PROVE LateCounted'
  BY <1>1, ComesRested DEF Execute
<1>2. ASSUME NEW c \in Calls, SendSucceeds(c) \/ Cancel(c) PROVE LateCounted'
  <2>1. PICK place \in {"returned", "cancelled"} : Stays(c, place)
    BY <1>2 DEF SendSucceeds, Cancel
  <2> DEFINE where == At(place, call[c].entry, call[c].attempt, 0)
  <2>2. call' = [call EXCEPT ![c] = where] /\ where.at \notin {"send", "pause"}
    BY <2>1 DEF Stays, Goto, At
  <2> HIDE DEF where
  <2> QED  BY <1>2, <2>2, CallLeaves DEF SendSucceeds, Cancel
<1>3. ASSUME NEW c \in Calls, SendRefused(c) PROVE LateCounted'
  <2>1. call[c].entry + 1 \in Nat
    BY <1>3, ChainUnderWay DEF SendRefused
  <2> QED  BY <1>3, <2>1, ComesRested DEF SendRefused
<1>4. ASSUME NEW c \in Calls, SendFails(c) PROVE LateCounted'
  <2> DEFINE where == At("pause", call[c].entry, call[c].attempt, RetryPause)
  <2>1. /\ call' = [call EXCEPT ![c] = where]
        /\ where.entry = call[c].entry
        /\ where.attempt = call[c].attempt
        /\ call[c].at = "send"
    BY <1>4 DEF SendFails, Goto, At
  <2> HIDE DEF where
  <2> QED  BY <1>4, <2>1, CallLeaves DEF SendFails
<1>5. ASSUME NEW c \in Calls, SendExhausts(c) PROVE LateCounted'
  <2>1. call[c].at = "send"
    BY <1>5 DEF SendExhausts
  <2>2. Provider(c) \in Providers /\ Cooldown \in Nat
    BY <2>1, ChainUnderWay, FallbackAssumption
  <2>3. PICK where : /\ call' = [call EXCEPT ![c] = where]
                     /\ where.at \notin {"send", "pause"}
    BY <1>5 DEF SendExhausts, Stays, Goto, At
  <2>4. \A d \in Calls : call'[d].at \in {"send", "pause"} => call'[d] = call[d]
    BY <2>3 DEF IInv, TypeOK
  <2>5. chain' = chain /\ Rests(Provider(c), Cooldown)
    BY <1>5 DEF SendExhausts
  <2> QED  BY <2>2, <2>4, <2>5, RestKeepsLate, LateLowered
<1>6. ASSUME NEW c \in Calls, Retry(c) PROVE LateCounted'
  BY <1>6, RetryCounted
<1>7. ASSUME NEW c \in Calls, SwitchOn(c) PROVE LateCounted'
  <2>1. call[c].entry + 1 \in Nat
    BY <1>7, ChainUnderWay DEF SwitchOn
  <2> QED  BY <1>7, <2>1, ComesRested DEF SwitchOn
<1>8. ASSUME NEW mm \in Managers, NEW p \in Providers, NEW d \in Durations,
             MarkUnhealthy(mm, p, d)
      PROVE  LateCounted'
  <2>1. d \in Nat
    BY FallbackAssumption
  <2> QED  BY <1>8, <2>1, RestKeepsLate, LateLowered DEF MarkUnhealthy
<1>9. CASE Tick
  <2>1. \A c \in Calls : /\ call'[c].at = call[c].at
                         /\ call'[c].entry = call[c].entry
                         /\ call'[c].attempt = call[c].attempt
    BY <1>9 DEF Tick, IInv, TypeOK
  <2>2. \A p \in Providers, c \in Calls :
          /\ late'[p][c] <= late[p][c]
          /\ late'[p][c] \in Nat
          /\ rest'[p] = 0 => late'[p][c] = 0
    <3> SUFFICES ASSUME NEW p \in Providers, NEW c \in Calls
                 PROVE  /\ late'[p][c] <= late[p][c]
                        /\ late'[p][c] \in Nat
                        /\ rest'[p] = 0 => late'[p][c] = 0
      OBVIOUS
    <3>1. rest[p] \in Nat /\ late[p][c] \in Nat
      BY DEF IInv, TypeOK
    <3>2. late'[p][c] = IF rest[p] <= 1 THEN 0 ELSE late[p][c]
      BY <1>9 DEF Tick, NoSends
    <3>3. rest'[p] = Less(rest[p])
      BY <1>9 DEF Tick
    <3> QED  BY <3>1, <3>2, <3>3 DEF Less
  <2>3. chain' = chain
    BY <1>9 DEF Tick
  <2> QED  BY <2>1, <2>2, <2>3, LateLowered
<1>10. CASE UNCHANGED vars
  BY <1>10 DEF vars, LateCounted, Provider, Mine
<1> QED
  BY <1>1, <1>2, <1>3, <1>4, <1>5, <1>6, <1>7, <1>8, <1>9, <1>10 DEF Next, Sent

\* If all calls share one manager, each sends to a provider at most
\* MaxRetries - 1 times while it rests, for all chains and delays, however
\* many calls there are and however often the rest is extended.
THEOREM LateSendsAreFew ==
  ASSUME OneManager PROVE Spec => []LateSendsBounded
<1>1. Init => Mirrored
  BY DEF Init, Mirrored
<1>2. IInv /\ Mirrored /\ [Next]_vars => Mirrored'
  BY OneManager, MirrorKept
<1>3. Init => LateCounted
  BY FallbackAssumption DEF Init, LateCounted, NoSends, At
<1>4. IInv /\ Mirrored /\ LateCounted /\ [Next]_vars => LateCounted'
  BY LateStep
<1>5. LateCounted => LateSendsBounded
  BY DEF LateCounted, LateSendsBounded
<1> QED  BY <1>1, <1>2, <1>3, <1>4, <1>5, Invariance, PTL DEF Spec

-----------------------------------------------------------------------------
(* Confirmation.                                                           *)

\* What is known of a request that is asked: it is in _pending, has no outcome,
\* and its record says whether and how it was answered.
Asked(r) ==
  /\ r \in pending <=> at[r] \in UnderWay
  /\ at[r] = "new" => accepted[r] = None /\ status[r] = "pending"
  /\ at[r] # "returned" => selected[r] = None
  /\ at[r] \in UnderWay =>
       /\ status[r] = "pending" <=> accepted[r] = None
       /\ accepted[r] # None => response[r] = accepted[r]

AskedInv == ConfirmationTypeOK /\ \A r \in Requests : Asked(r)

LEMMA AskedInit == ConfirmationInit => AskedInv
  BY DEF ConfirmationInit, AskedInv, ConfirmationTypeOK, Asked, UnderWay

LEMMA AskedStep ==
  ASSUME AskedInv, [ConfirmationNext]_confirmationVars
  PROVE  AskedInv'
<1> USE ConfirmationAssumption
    DEF AskedInv, ConfirmationTypeOK, Asked, UnderWay, Options
<1>1. ASSUME NEW r \in Requests, AutoRoute(r) PROVE AskedInv'
  BY <1>1 DEF AutoRoute, Return
<1>2. ASSUME NEW r \in Requests, Ask(r) PROVE AskedInv'
  BY <1>2 DEF Ask
<1>3. ASSUME NEW r \in Requests, PostEnds(r) PROVE AskedInv'
  <2>1. CASE r \in event
    BY <1>3, <2>1 DEF PostEnds, Return
  <2>2. CASE r \notin event
    BY <1>3, <2>2 DEF PostEnds
  <2> QED  BY <2>1, <2>2
<1>4. ASSUME NEW r \in Requests, NEW o \in Options, Respond(r, o)
      PROVE  AskedInv'
  BY <1>4 DEF Respond, Resolve
<1>5. ASSUME NEW r \in Requests, Resume(r) PROVE AskedInv'
  BY <1>5 DEF Resume, Return
<1>6. ASSUME NEW r \in Requests, Expire(r) PROVE AskedInv'
  BY <1>6 DEF Expire
<1>7. ASSUME NEW r \in Requests, TimeoutLive(r) PROVE AskedInv'
  BY <1>7 DEF TimeoutLive, Return, Resolve
<1>8. ASSUME NEW r \in Requests, TimeoutSimulated(r) PROVE AskedInv'
  <2>1. CASE r \in event
    BY <1>8, <2>1 DEF TimeoutSimulated, Return
  <2>2. CASE r \notin event
    BY <1>8, <2>2 DEF TimeoutSimulated, Return, Resolve
  <2> QED  BY <2>1, <2>2
<1>9. ASSUME NEW r \in Requests, Abandon(r) PROVE AskedInv'
  BY <1>9 DEF Abandon
<1>10. CASE UNCHANGED confirmationVars
  BY <1>10 DEF confirmationVars
<1> QED
  BY <1>1, <1>2, <1>3, <1>4, <1>5, <1>6, <1>7, <1>8, <1>9, <1>10
     DEF ConfirmationNext, Timeout

\* The inductive invariant.
THEOREM AskedInvariance ==
  ConfirmationSpec => []AskedInv
<1>1. AskedInv /\ [ConfirmationNext]_confirmationVars => AskedInv'
  BY AskedStep
<1> QED  BY <1>1, AskedInit, PTL DEF ConfirmationSpec

\* Requests, records and events stay well typed, and an event is set exactly
\* when an answer was accepted.
THEOREM ConfirmationTypeCorrect ==
  ConfirmationSpec => []ConfirmationTypeOK
<1>1. AskedInv => ConfirmationTypeOK
  BY DEF AskedInv
<1> QED  BY <1>1, AskedInvariance, PTL

\* The endpoint lists exactly the questions that wait for an answer.
THEOREM ListExact ==
  ConfirmationSpec => []ListsOpenQuestions
<1>1. AskedInv => ListsOpenQuestions
  BY DEF AskedInv, ConfirmationTypeOK, Asked, ListsOpenQuestions
<1> QED  BY <1>1, AskedInvariance, PTL

-----------------------------------------------------------------------------
LEMMA OpenStays ==
  ASSUME NEW r \in Requests, NEW place, at' = [at EXCEPT ![r] = place],
         at \in [Requests -> UnderWay \cup {"new", "returned", "abandoned"}]
  PROVE  {q \in Requests : at[q] \in UnderWay}' =
           IF place \in UnderWay
           THEN {q \in Requests : at[q] \in UnderWay} \cup {r}
           ELSE {q \in Requests : at[q] \in UnderWay} \ {r}
  OBVIOUS

\* Every step is a step of Dialog or a stutter.
LEMMA DialogStep ==
  ASSUME AskedInv, [ConfirmationNext]_confirmationVars
  PROVE  [Promise!Next]_Promise!vars
<1> USE ConfirmationAssumption DEF Promise!vars
<1>1. ASSUME NEW r \in Requests, AutoRoute(r) PROVE Promise!Skip(r)
  BY <1>1, OpenStays
     DEF AutoRoute, Return, Promise!Skip, AskedInv, ConfirmationTypeOK,
         Asked, UnderWay
<1>2. ASSUME NEW r \in Requests, Ask(r) PROVE Promise!Ask(r)
  BY <1>2, OpenStays
     DEF Ask, Promise!Ask, AskedInv, ConfirmationTypeOK, Asked, UnderWay
<1>3. ASSUME NEW r \in Requests, at[r] \in UnderWay, r \in event,
             Return(r, response[r]), UNCHANGED <<live, accepted>>
      PROVE  Promise!Settle(r)
  BY <1>3, OpenStays
     DEF Return, Promise!Settle, AskedInv, ConfirmationTypeOK, Asked,
         UnderWay
<1>4. ASSUME NEW r \in Requests, at[r] \in UnderWay, live \/ r \notin event,
             Return(r, Primary), UNCHANGED <<live, accepted>>
      PROVE  Promise!Settle(r)
  BY <1>4, OpenStays
     DEF Return, Promise!Settle, AskedInv, ConfirmationTypeOK, Asked,
         UnderWay
<1>5. ASSUME NEW r \in Requests, PostEnds(r), r \notin event
      PROVE  UNCHANGED Promise!vars
  BY <1>5, OpenStays DEF PostEnds, AskedInv, ConfirmationTypeOK, UnderWay
<1>6. ASSUME NEW r \in Requests, NEW o \in Options, Respond(r, o)
      PROVE  Promise!Accept(r)
  BY <1>6
     DEF Respond, Promise!Accept, AskedInv, ConfirmationTypeOK, Asked,
         Options
<1>7. ASSUME NEW r \in Requests, Expire(r)
      PROVE  UNCHANGED Promise!vars
  BY <1>7, OpenStays DEF Expire, AskedInv, ConfirmationTypeOK, UnderWay
<1>8. ASSUME NEW r \in Requests, Abandon(r) PROVE Promise!Abandon(r)
  BY <1>8, OpenStays
     DEF Abandon, Promise!Abandon, AskedInv, ConfirmationTypeOK,
         UnderWay
<1>9. ASSUME NEW r \in Requests, PostEnds(r), r \in event
      PROVE  Promise!Settle(r)
  BY <1>3, <1>9 DEF PostEnds, UnderWay
<1>10. ASSUME NEW r \in Requests, Resume(r) PROVE Promise!Settle(r)
  BY <1>3, <1>10 DEF Resume, UnderWay
<1>11. ASSUME NEW r \in Requests, TimeoutLive(r) PROVE Promise!Settle(r)
  BY <1>4, <1>11 DEF TimeoutLive, UnderWay
<1>12. ASSUME NEW r \in Requests, TimeoutSimulated(r) PROVE Promise!Settle(r)
  BY <1>3, <1>4, <1>12 DEF TimeoutSimulated, UnderWay
<1>13. CASE UNCHANGED confirmationVars
  BY <1>13 DEF confirmationVars
<1> QED
  BY <1>1, <1>2, <1>5, <1>6, <1>7, <1>8, <1>9, <1>10, <1>11, <1>12, <1>13
     DEF ConfirmationNext, Timeout, Promise!Next

\* The confirmation keeps the promise of Dialog for any number of requests:
\* only live mode may lose an accepted answer, and only to the default.
THEOREM ConfirmationKeepsDialog ==
  ConfirmationSpec => KeepsDialog
<1>1. ConfirmationInit => Promise!Init
  BY DEF ConfirmationInit, Promise!Init, UnderWay
<1>2. AskedInv /\ [ConfirmationNext]_confirmationVars =>
        [Promise!Next]_Promise!vars
  BY DialogStep
<1> QED
  BY <1>1, <1>2, AskedInvariance, PTL
     DEF ConfirmationSpec, KeepsDialog, Promise!Spec

\* In simulation mode every accepted answer is what ask returns.
THEOREM SimulationHonoursAnswers ==
  ConfirmationSpec => [](~live => AcceptedCounts)
<1> DEFINE Honours == \A r \in Requests :
             ~live /\ accepted[r] # None /\ at[r] = "returned" =>
               selected[r] = accepted[r]
<1>1. ConfirmationInit => Honours
  BY DEF ConfirmationInit
<1>2. AskedInv /\ Honours /\ [ConfirmationNext]_confirmationVars => Honours'
  <2> SUFFICES ASSUME AskedInv, Honours, [ConfirmationNext]_confirmationVars
               PROVE  Honours'
    OBVIOUS
  <2> USE ConfirmationAssumption DEF AskedInv, ConfirmationTypeOK, Asked, UnderWay
  <2>1. ASSUME NEW r \in Requests, AutoRoute(r) PROVE Honours'
    BY <2>1 DEF AutoRoute, Return
  <2>2. ASSUME NEW r \in Requests, Ask(r) PROVE Honours'
    BY <2>2 DEF Ask
  <2>3. ASSUME NEW r \in Requests, PostEnds(r) PROVE Honours'
    BY <2>3 DEF PostEnds, Return
  <2>4. ASSUME NEW r \in Requests, NEW o \in Options, Respond(r, o)
        PROVE  Honours'
    BY <2>4 DEF Respond, Options
  <2>5. ASSUME NEW r \in Requests, Resume(r) PROVE Honours'
    BY <2>5 DEF Resume, Return
  <2>6. ASSUME NEW r \in Requests, Expire(r) PROVE Honours'
    BY <2>6 DEF Expire
  <2>7. ASSUME NEW r \in Requests, TimeoutLive(r) PROVE Honours'
    BY <2>7 DEF TimeoutLive, Return
  <2>8. ASSUME NEW r \in Requests, TimeoutSimulated(r) PROVE Honours'
    BY <2>8 DEF TimeoutSimulated, Return
  <2>9. ASSUME NEW r \in Requests, Abandon(r) PROVE Honours'
    BY <2>9 DEF Abandon
  <2>10. CASE UNCHANGED confirmationVars
    BY <2>10 DEF confirmationVars
  <2> QED
    BY <2>1, <2>2, <2>3, <2>4, <2>5, <2>6, <2>7, <2>8, <2>9, <2>10
       DEF ConfirmationNext, Timeout
<1>3. AskedInv /\ Honours => (~live => AcceptedCounts)
  BY DEF AskedInv, Asked, AcceptedCounts
<1> HIDE DEF Honours
<1> QED  BY <1>1, <1>2, <1>3, AskedInvariance, PTL DEF ConfirmationSpec
=============================================================================
