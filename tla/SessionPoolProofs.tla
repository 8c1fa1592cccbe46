-------------------------- MODULE SessionPoolProofs --------------------------
(***************************************************************************)
(* What holds of SessionPool for every number of clients, every PoolConfig, *)
(* a store that fails during any number of operations, and runs of any      *)
(* length.                                                                 *)
(***************************************************************************)
EXTENDS SessionPool, TLAPS, FiniteSetTheorems

-----------------------------------------------------------------------------
(* Lemmas on the helpers.                                                  *)

\* Persisting a typed session leaves the store typed and adds at most its row.
LEMMA PersistedFacts ==
  ASSUME NEW store, store \in [DOMAIN store -> Row],
         NEW s, NEW r \in PooledSession,
         NEW new \in Persisted(store, s, r)
  PROVE  /\ new \in [DOMAIN new -> Row]
         /\ DOMAIN store \subseteq DOMAIN new
         /\ DOMAIN new \subseteq DOMAIN store \cup {s}
         /\ \A y \in DOMAIN store : y # s => new[y] = store[y]
<1> DEFINE row == [state |-> r.state, msgs |-> r.msgs]
<1>1. row \in Row
  BY DEF PooledSession, Row
<1>2. CASE new = Put(store, s, row)
  BY <1>1, <1>2 DEF Put
<1>3. CASE new = store
  BY <1>3
<1> QED
  BY <1>2, <1>3 DEF Persisted

-----------------------------------------------------------------------------
(* Type correctness.                                                       *)

\* A round only ever holds ACTIVE sessions.
LEMMA RoundStep == TypeOK /\ NewRound => round' \subseteq Active'
BY DEF TypeOK, NewRound, Active, InState

LEMMA FreshType == Fresh \in PooledSession
BY PoolAssumption DEF Fresh, PooledSession, SessionState

LEMMA UsedType ==
  ASSUME NEW r \in PooledSession
  PROVE  Used(r) \in PooledSession
BY DEF Used, PooledSession, SessionState

\* A creation on a typed pool and store keeps the types; the new session is
\* the only one added and the others keep their contents.
LEMMA CreateFacts ==
  ASSUME TypeOK,
         NEW pool, pool \in [DOMAIN sessions -> PooledSession],
         NEW store, store \in [DOMAIN store -> Row],
         DOMAIN store \subseteq 1 .. nextId - 1,
         CreateIn(pool, store)
  PROVE  /\ nextId' = nextId + 1
         /\ nextId \notin DOMAIN sessions
         /\ DOMAIN sessions' = DOMAIN sessions \cup {nextId}
         /\ sessions' \in [DOMAIN sessions' -> PooledSession]
         /\ sessions'[nextId] = Fresh
         /\ \A s \in DOMAIN sessions : sessions'[s] = pool[s]
         /\ DOMAIN sessions' \subseteq 1 .. nextId' - 1
         /\ rows' \in [DOMAIN rows' -> Row]
         /\ DOMAIN rows' \subseteq 1 .. nextId' - 1
         /\ round' \subseteq Active'
<1> USE DEF TypeOK, SessionId
<1>1. /\ nextId' = nextId + 1
      /\ sessions' = Put(pool, nextId, Fresh)
      /\ rows' \in Persisted(store, nextId, Fresh)
      /\ NewRound
  BY DEF CreateIn
<1>2. nextId \notin DOMAIN sessions
  OBVIOUS
<1>3. /\ sessions' \in [DOMAIN sessions \cup {nextId} -> PooledSession]
      /\ sessions'[nextId] = Fresh
      /\ \A s \in DOMAIN sessions : sessions'[s] = pool[s]
  BY <1>1, <1>2, FreshType DEF Put
<1>4. /\ rows' \in [DOMAIN rows' -> Row]
      /\ DOMAIN rows' \subseteq DOMAIN store \cup {nextId}
  BY <1>1, PersistedFacts, FreshType
<1>5. round' \subseteq Active'
  BY <1>1, RoundStep
<1> QED
  BY <1>1, <1>2, <1>3, <1>4, <1>5

\* A rotation is a creation on the pool whose old session became FULL.
LEMMA RotateFacts ==
  ASSUME TypeOK, NEW old \in DOMAIN sessions, RotateIn(old)
  PROVE  /\ nextId' = nextId + 1
         /\ nextId \notin DOMAIN sessions
         /\ DOMAIN sessions' = DOMAIN sessions \cup {nextId}
         /\ sessions' \in [DOMAIN sessions' -> PooledSession]
         /\ sessions'[nextId] = Fresh
         /\ sessions'[old] = [sessions[old] EXCEPT !.state = "full"]
         /\ \A s \in DOMAIN sessions : s # old => sessions'[s] = sessions[s]
         /\ DOMAIN sessions' \subseteq 1 .. nextId' - 1
         /\ rows' \in [DOMAIN rows' -> Row]
         /\ DOMAIN rows' \subseteq 1 .. nextId' - 1
         /\ round' \subseteq Active'
<1> DEFINE full == [sessions[old] EXCEPT !.state = "full"]
           pool == [sessions EXCEPT ![old] = full]
<1>1. full \in PooledSession
  BY DEF TypeOK, PooledSession, SessionState
<1>2. pool \in [DOMAIN sessions -> PooledSession]
  BY <1>1 DEF TypeOK
<1>3. PICK store \in Persisted(rows, old, full) : CreateIn(pool, store)
  BY DEF RotateIn
<1>4. /\ store \in [DOMAIN store -> Row]
      /\ DOMAIN store \subseteq DOMAIN rows \cup {old}
  BY <1>1, PersistedFacts DEF TypeOK
<1>5. DOMAIN store \subseteq 1 .. nextId - 1
  BY <1>4 DEF TypeOK
<1> HIDE DEF pool
<1>6. /\ nextId' = nextId + 1
      /\ nextId \notin DOMAIN sessions
      /\ DOMAIN sessions' = DOMAIN sessions \cup {nextId}
      /\ sessions' \in [DOMAIN sessions' -> PooledSession]
      /\ sessions'[nextId] = Fresh
      /\ \A s \in DOMAIN sessions : sessions'[s] = pool[s]
      /\ DOMAIN sessions' \subseteq 1 .. nextId' - 1
      /\ rows' \in [DOMAIN rows' -> Row]
      /\ DOMAIN rows' \subseteq 1 .. nextId' - 1
      /\ round' \subseteq Active'
  BY <1>2, <1>3, <1>4, <1>5, CreateFacts
<1>7. \A s \in DOMAIN sessions :
        pool[s] = IF s = old THEN full ELSE sessions[s]
  BY DEF TypeOK, pool
<1> QED
  BY <1>6, <1>7

\* Every action keeps the state well typed.
LEMMA TypeStep == TypeOK /\ [Next]_vars => TypeOK'
<1> SUFFICES ASSUME TypeOK, [Next]_vars PROVE TypeOK'
  OBVIOUS
<1>0. outages' \in Nat
  BY DEF TypeOK, Next, vars
<1> USE <1>0 DEF TypeOK, SessionId
<1>1. ASSUME NEW c \in Clients, AcquireActive(c) PROVE TypeOK'
  BY <1>1 DEF AcquireActive, Lend, Active, InState
<1>2. ASSUME NEW c \in Clients, AcquireCreate(c) PROVE TypeOK'
  <2>1. /\ CreateIn(sessions, rows)
        /\ held' = [held EXCEPT ![c] = nextId]
        /\ UNCHANGED <<rrIndex, rotations>>
    BY <1>2 DEF AcquireCreate, Lend
  <2> QED
    BY <2>1, CreateFacts DEF Active, InState
<1>3. ASSUME NEW c \in Clients, AcquireRotate(c) PROVE TypeOK'
  <2>1. PICK old \in DOMAIN sessions : RotateIn(old)
    BY <1>3 DEF AcquireRotate, Victims, InState
  <2>2. /\ held' = [held EXCEPT ![c] = nextId]
        /\ UNCHANGED <<rrIndex, rotations>>
    BY <1>3 DEF AcquireRotate, Lend
  <2>3. /\ nextId' = nextId + 1
        /\ sessions' \in [DOMAIN sessions' -> PooledSession]
        /\ DOMAIN sessions' \subseteq 1 .. nextId' - 1
        /\ rows' \in [DOMAIN rows' -> Row]
        /\ DOMAIN rows' \subseteq 1 .. nextId' - 1
        /\ round' \subseteq Active'
    BY <2>1, RotateFacts
  <2> QED
    BY <2>2, <2>3 DEF Active, InState
<1>4. ASSUME NEW c \in Clients, Release(c) PROVE TypeOK'
  <2> DEFINE s == held[c]
  <2>1. /\ held' = [held EXCEPT ![c] = NoSession]
        /\ UNCHANGED <<nextId, rrIndex, rotations>>
        /\ NewRound
    BY <1>4 DEF Release, Lend
  <2>2. CASE /\ s \in DOMAIN sessions
             /\ sessions' = [sessions EXCEPT ![s] = Used(sessions[s])]
             /\ rows' \in Persisted(rows, s, Used(sessions[s]))
    <3>1. Used(sessions[s]) \in PooledSession
      BY <2>2, UsedType
    <3>2. sessions' \in [DOMAIN sessions -> PooledSession]
      BY <2>2, <3>1
    <3>3. /\ rows' \in [DOMAIN rows' -> Row]
          /\ DOMAIN rows' \subseteq DOMAIN rows \cup {s}
      BY <2>2, <3>1, PersistedFacts
    <3>4. round' \subseteq Active'
      BY <2>1, RoundStep
    <3> QED
      BY <2>1, <2>2, <3>2, <3>3, <3>4 DEF NoSession, Active, InState
  <2>3. CASE UNCHANGED <<sessions, rows>>
    BY <2>1, <2>3, RoundStep DEF Active, InState, NoSession
  <2> QED
    BY <1>4, <2>2, <2>3 DEF Release
<1>5. ASSUME NEW s \in DOMAIN sessions, Rotate(s) PROVE TypeOK'
  <2>1. RotateIn(s) /\ rotations' = rotations + 1 /\ UNCHANGED <<rrIndex, held>>
    BY <1>5 DEF Rotate
  <2>3. /\ nextId' = nextId + 1
        /\ sessions' \in [DOMAIN sessions' -> PooledSession]
        /\ DOMAIN sessions' \subseteq 1 .. nextId' - 1
        /\ rows' \in [DOMAIN rows' -> Row]
        /\ DOMAIN rows' \subseteq 1 .. nextId' - 1
        /\ round' \subseteq Active'
    BY <2>1, RotateFacts
  <2> QED
    BY <2>1, <2>3 DEF Active, InState
<1>6. ASSUME NEW s \in DOMAIN sessions, MarkError(s) PROVE TypeOK'
  <2> DEFINE bad == [sessions[s] EXCEPT !.state = "error"]
  <2>1. bad \in PooledSession
    BY DEF PooledSession, SessionState
  <2>2. /\ sessions' = [sessions EXCEPT ![s] = bad]
        /\ rows' \in Persisted(rows, s, bad)
        /\ NewRound
        /\ UNCHANGED <<nextId, rrIndex, held, rotations>>
    BY <1>6 DEF MarkError
  <2>3. /\ rows' \in [DOMAIN rows' -> Row]
        /\ DOMAIN rows' \subseteq DOMAIN rows \cup {s}
    BY <2>1, <2>2, PersistedFacts
  <2>4. sessions' \in [DOMAIN sessions -> PooledSession]
    BY <2>1, <2>2
  <2>5. round' \subseteq Active'
    BY <2>2, RoundStep
  <2> QED
    BY <2>2, <2>3, <2>4, <2>5 DEF Active, InState
<1>7. ASSUME NEW s \in DOMAIN rows, LoseRow(s) PROVE TypeOK'
  BY <1>7 DEF LoseRow, Without
<1>8. CASE CleanupExpired
  <2>1. round' \subseteq Active'
    BY <1>8, RoundStep DEF CleanupExpired
  <2> QED
    BY <1>8, <2>1 DEF CleanupExpired, Without, Active, InState
<1>14. ASSUME NEW s \in DOMAIN sessions, CleanupFails(s) PROVE TypeOK'
  <2>1. DOMAIN sessions' \subseteq DOMAIN sessions
    BY <1>14 DEF CleanupFails
  <2>2. sessions' \in [DOMAIN sessions' -> PooledSession]
    BY <1>14 DEF CleanupFails, PooledSession, SessionState
  <2>3. rows' \in [DOMAIN rows' -> Row] /\ DOMAIN rows' \subseteq DOMAIN rows
    BY <1>14 DEF CleanupFails, Without
  <2>4. round' \subseteq Active'
    BY <1>14, RoundStep DEF CleanupFails
  <2> QED
    BY <1>14, <2>1, <2>2, <2>3, <2>4 DEF CleanupFails, Active, InState
<1>9. CASE HealthCheckAll
  <2>1. sessions' \in [DOMAIN sessions -> PooledSession]
    BY <1>9 DEF HealthCheckAll, PooledSession, SessionState
  <2>2. round' \subseteq Active'
    BY <1>9, RoundStep DEF HealthCheckAll
  <2> QED
    BY <1>9, <2>1, <2>2 DEF HealthCheckAll, Active, InState
<1>10. CASE Close
  <2>1. PICK saved \in SUBSET DOMAIN sessions :
          rows' = [s \in DOMAIN rows \cup saved |->
                     IF s \in saved
                     THEN [state |-> sessions[s].state, msgs |-> sessions[s].msgs]
                     ELSE rows[s]]
    BY <1>10 DEF Close
  <2>2. \A s \in saved :
          [state |-> sessions[s].state, msgs |-> sessions[s].msgs] \in Row
    BY DEF PooledSession, Row
  <2>3. rows' \in [DOMAIN rows \cup saved -> Row]
    BY <2>1, <2>2
  <2> QED
    BY <1>10, <2>1, <2>3 DEF Close
<1>11. CASE Restart
  BY <1>11, RoundStep DEF Restart, Active, InState, NoSession
<1>12. CASE Tick
  <2>1. sessions' \in [DOMAIN sessions -> PooledSession]
    BY <1>12, PoolAssumption DEF Tick, PooledSession
  <2>2. \A s \in DOMAIN sessions : sessions'[s].state = sessions[s].state
    BY <1>12 DEF Tick, PooledSession
  <2> QED
    BY <1>12, <2>1, <2>2 DEF Tick
<1>13. CASE UNCHANGED <<sessions, nextId, rrIndex, rows, held, rotations, round>>
  BY <1>13
<1> QED
  BY <1>1, <1>2, <1>3, <1>4, <1>5, <1>6, <1>7, <1>8, <1>9, <1>10, <1>11,
     <1>12, <1>13, <1>14 DEF Next, Operation, AcquireExhausted, vars

\* TypeOK is an invariant: the pool, its store rows and what the clients hold
\* always refer to ids that were issued.
THEOREM TypeCorrect == Spec => []TypeOK
<1>1. Init => TypeOK
  BY DEF Init, TypeOK, SessionId, NoSession
<1> QED
  BY <1>1, TypeStep, PTL DEF Spec

-----------------------------------------------------------------------------
(* The pool implements SessionLending.                                     *)

\* Creation for a client: SessionLending grants it a new session.
LEMMA CreateGrants ==
  ASSUME TypeOK, NEW c \in Clients, AcquireCreate(c)
  PROVE  Lending!GrantNew(c) /\ UNCHANGED rotations
<1>1. /\ CreateIn(sessions, rows)
      /\ Active = {}
      /\ held[c] = NoSession
      /\ held' = [held EXCEPT ![c] = nextId]
      /\ UNCHANGED rotations
  BY DEF AcquireCreate, Lend
<1>2. /\ sessions \in [DOMAIN sessions -> PooledSession]
      /\ rows \in [DOMAIN rows -> Row]
      /\ DOMAIN rows \subseteq 1 .. nextId - 1
  BY DEF TypeOK
<1>3. /\ nextId' = nextId + 1
      /\ sessions' \in [DOMAIN sessions \cup {nextId} -> PooledSession]
      /\ sessions'[nextId] = Fresh
      /\ \A s \in DOMAIN sessions : sessions'[s] = sessions[s]
  BY <1>1, <1>2, CreateFacts
<1>4. Active' = {nextId}
  BY <1>1, <1>3 DEF TypeOK, Active, InState, Fresh
<1>5. nextId' = nextId + 1 /\ nextId \in Nat
  BY <1>3 DEF TypeOK, SessionId
<1> QED
  BY <1>1, <1>4, <1>5 DEF Lending!GrantNew

\* A rotation retires the old session and adds a new one.
LEMMA RotateReplaces ==
  ASSUME TypeOK, NEW old \in DOMAIN sessions, RotateIn(old)
  PROVE  nextId' = nextId + 1 /\ Active' = (Active \ {old}) \cup {nextId}
<1>1. /\ nextId' = nextId + 1
      /\ nextId \notin DOMAIN sessions
      /\ DOMAIN sessions' = DOMAIN sessions \cup {nextId}
      /\ sessions'[nextId] = Fresh
      /\ sessions'[old] = [sessions[old] EXCEPT !.state = "full"]
      /\ \A s \in DOMAIN sessions : s # old => sessions'[s] = sessions[s]
  BY RotateFacts
<1>2. /\ sessions'[old].state = "full"
      /\ sessions'[nextId].state = "active"
  BY <1>1 DEF TypeOK, PooledSession, Fresh
<1>3. Active' \subseteq (Active \ {old}) \cup {nextId}
  BY <1>1, <1>2 DEF Active, InState
<1>4. (Active \ {old}) \cup {nextId} \subseteq Active'
  BY <1>1, <1>2 DEF Active, InState
<1> QED
  BY <1>1, <1>3, <1>4

\* Rotation for a client: nothing was ACTIVE, so this too is a new grant.
LEMMA RotateGrants ==
  ASSUME TypeOK, NEW c \in Clients, AcquireRotate(c)
  PROVE  Lending!GrantNew(c) /\ UNCHANGED rotations
<1>1. PICK old \in DOMAIN sessions : RotateIn(old)
  BY DEF AcquireRotate, Victims, InState
<1>2. /\ Active = {}
      /\ held[c] = NoSession
      /\ held' = [held EXCEPT ![c] = nextId]
      /\ UNCHANGED rotations
  BY DEF AcquireRotate, Lend
<1>3. nextId' = nextId + 1 /\ Active' = {nextId}
  BY <1>1, <1>2, RotateReplaces
<1>4. nextId \in Nat
  BY DEF TypeOK, SessionId
<1> QED
  BY <1>2, <1>3, <1>4 DEF Lending!GrantNew

\* A return can only make the returned session unusable.
LEMMA ReleaseReturns ==
  ASSUME TypeOK, NEW c \in Clients, Release(c)
  PROVE  Lending!Return(c) /\ UNCHANGED rotations
<1> DEFINE s == held[c]
<1>1. /\ s # NoSession
      /\ held' = [held EXCEPT ![c] = NoSession]
      /\ UNCHANGED <<nextId, rotations>>
  BY DEF Release, Lend
<1>2. CASE /\ s \in DOMAIN sessions
           /\ sessions' = [sessions EXCEPT ![s] = Used(sessions[s])]
  <2>1. \/ sessions'[s].state = "full"
        \/ sessions'[s].state = sessions[s].state
    BY <1>2 DEF Used, TypeOK
  <2>2. /\ DOMAIN sessions' = DOMAIN sessions
        /\ \A t \in DOMAIN sessions : t # s => sessions'[t] = sessions[t]
    BY <1>2 DEF TypeOK
  <2>3. Active' \in {Active, Active \ {s}}
    BY <2>1, <2>2 DEF Active, InState
  <2> QED
    BY <1>1, <2>3 DEF Lending!Return
<1>3. CASE UNCHANGED sessions
  BY <1>1, <1>3 DEF Lending!Return, Active, InState
<1> QED
  BY <1>2, <1>3 DEF Release

\* The maintenance operations only ever take sessions away.
LEMMA MaintenanceRetires ==
  ASSUME TypeOK,
         \/ CleanupExpired
         \/ HealthCheckAll
         \/ \E s \in DOMAIN sessions : MarkError(s) \/ CleanupFails(s)
         \/ \E s \in DOMAIN rows : LoseRow(s)
         \/ Close
         \/ Tick
  PROVE  Lending!Retire /\ UNCHANGED rotations
<1>1. UNCHANGED <<nextId, held, rotations>>
  BY DEF CleanupExpired, CleanupFails, HealthCheckAll, MarkError, LoseRow, Close,
         Tick
<1>2. CASE CleanupExpired
  BY <1>1, <1>2 DEF Lending!Retire, CleanupExpired, Without, Active, InState
<1>3. CASE HealthCheckAll
  <2>1. /\ DOMAIN sessions' = DOMAIN sessions
        /\ \A s \in DOMAIN sessions :
             sessions'[s].state \in {sessions[s].state, "expired", "error"}
    BY <1>3 DEF HealthCheckAll, TypeOK, PooledSession
  <2> QED
    BY <1>1, <2>1 DEF Lending!Retire, Active, InState
<1>4. ASSUME NEW s \in DOMAIN sessions, MarkError(s) PROVE Lending!Retire
  <2>1. /\ DOMAIN sessions' = DOMAIN sessions
        /\ \A t \in DOMAIN sessions :
             sessions'[t].state \in {sessions[t].state, "error"}
    BY <1>4 DEF MarkError, TypeOK, PooledSession
  <2> QED
    BY <1>1, <2>1 DEF Lending!Retire, Active, InState
<1>5. CASE UNCHANGED sessions
  BY <1>1, <1>5 DEF Lending!Retire, Active, InState
<1>6. CASE Tick
  <2>1. /\ DOMAIN sessions' = DOMAIN sessions
        /\ \A s \in DOMAIN sessions : sessions'[s].state = sessions[s].state
    BY <1>6 DEF Tick, TypeOK, PooledSession
  <2> QED
    BY <1>1, <2>1 DEF Lending!Retire, Active, InState
<1>7. ASSUME NEW s \in DOMAIN sessions, CleanupFails(s) PROVE Lending!Retire
  <2>1. /\ DOMAIN sessions' \subseteq DOMAIN sessions
        /\ \A t \in DOMAIN sessions' :
             sessions'[t].state \in {sessions[t].state, "expired"}
    BY <1>7 DEF CleanupFails, TypeOK, PooledSession
  <2> QED
    BY <1>1, <2>1 DEF Lending!Retire, Active, InState
<1> QED
  BY <1>1, <1>2, <1>3, <1>4, <1>5, <1>6, <1>7 DEF LoseRow, Close

\* Every step of the pool is a step of SessionLending, or a stutter.
LEMMA LendingStep ==
  TypeOK /\ [Next]_vars => [Lending!Next]_(Lending!vars)
<1> SUFFICES ASSUME TypeOK, [Next]_vars PROVE [Lending!Next]_(Lending!vars)
  OBVIOUS
<1>1. ASSUME NEW c \in Clients, AcquireActive(c) PROVE Lending!Next
  <2>1. Lending!Grant(c)
    BY <1>1 DEF AcquireActive, Lend, Lending!Grant, Active, InState
  <2> QED
    BY <2>1 DEF Lending!Next
<1>2. ASSUME NEW c \in Clients, AcquireCreate(c) \/ AcquireRotate(c) \/ Release(c)
      PROVE  Lending!Next
  BY <1>2, CreateGrants, RotateGrants, ReleaseReturns DEF Lending!Next
<1>3. ASSUME NEW s \in DOMAIN sessions, Rotate(s) PROVE Lending!Next
  <2>1. s \in 1 .. nextId - 1 /\ nextId \in Nat
    BY DEF TypeOK, SessionId
  <2>2. nextId' = nextId + 1 /\ Active' = (Active \ {s}) \cup {nextId}
    BY <1>3, RotateReplaces DEF Rotate
  <2>3. Lending!Replace(s)
    BY <1>3, <2>1, <2>2 DEF Rotate, Lending!Replace
  <2> QED
    BY <2>1, <2>3 DEF Lending!Next
<1>4. CASE Restart
  BY <1>4 DEF Restart, Lending!Next, Lending!Forget, Active, InState
<1>5. ASSUME Next, ~Restart, ~UNCHANGED <<sessions, nextId, rrIndex, rows, held, rotations, round>>,
             \A c \in Clients : ~(\/ AcquireActive(c) \/ AcquireCreate(c)
                                  \/ AcquireRotate(c) \/ Release(c)),
             \A s \in DOMAIN sessions : ~Rotate(s)
      PROVE  Lending!Next
  BY <1>5, MaintenanceRetires DEF Next, Operation, Lending!Next, AcquireExhausted
<1>6. CASE UNCHANGED <<sessions, nextId, rrIndex, rows, held, rotations, round>>
  BY <1>6 DEF Lending!vars, Active, InState
<1> QED
  BY <1>1, <1>2, <1>3, <1>4, <1>5, <1>6 DEF vars

\* The pool lends only usable sessions, opens one for a client only when none
\* is usable, and never lends a retired one again.
THEOREM PoolImplementsLending == Spec => LendsOnlyUsable
<1>1. Init => Lending!Init
  BY DEF Init, Lending!Init, Active, InState
<1> QED
  BY <1>1, LendingStep, TypeCorrect, PTL DEF Spec, LendsOnlyUsable, Lending!Spec

-----------------------------------------------------------------------------
(* How many sessions the round-robin can choose from.                      *)

\* The pool is finite.
LEMMA FinitePool == TypeOK => IsFiniteSet(Active)
<1> SUFFICES ASSUME TypeOK PROVE IsFiniteSet(Active)
  OBVIOUS
<1>1. IsFiniteSet(1 .. nextId - 1)
  <2>1. 1 \in Int /\ nextId - 1 \in Int
    BY DEF TypeOK, SessionId
  <2> QED
    BY <2>1, FS_Interval
<1>2. Active \subseteq 1 .. nextId - 1
  BY DEF TypeOK, Active, InState
<1> QED
  BY <1>1, <1>2, FS_Subset

\* Every action but Rotate leaves at most as many sessions ACTIVE, or one.
LEMMA OneActiveStep ==
  TypeOK /\ OneActiveSession /\ [Next]_vars => OneActiveSession'
<1> SUFFICES ASSUME TypeOK, OneActiveSession, [Next]_vars
             PROVE  OneActiveSession'
  OBVIOUS
<1>1. /\ IsFiniteSet(Active)
      /\ Cardinality(Active) \in Nat
      /\ rotations \in Nat
      /\ Cardinality(Active) <= 1 + rotations
  BY FinitePool, FS_CardinalityType DEF TypeOK, OneActiveSession
<1>2. ASSUME Active' \subseteq Active, UNCHANGED rotations
      PROVE  OneActiveSession'
  <2>1. IsFiniteSet(Active') /\ Cardinality(Active') <= Cardinality(Active)
    BY <1>1, <1>2, FS_Subset
  <2>2. Cardinality(Active') \in Nat
    BY <2>1, FS_CardinalityType
  <2> QED
    BY <1>1, <1>2, <2>1, <2>2 DEF OneActiveSession
<1>3. ASSUME NEW c \in Clients, Lending!GrantNew(c), UNCHANGED rotations
      PROVE  OneActiveSession'
  <2>1. Cardinality(Active') = 1
    BY <1>3, FS_Singleton DEF Lending!GrantNew
  <2> QED
    BY <1>1, <1>3, <2>1 DEF OneActiveSession
<1>4. ASSUME NEW s \in DOMAIN sessions, Rotate(s) PROVE OneActiveSession'
  <2>1. /\ Active' = (Active \ {s}) \cup {nextId}
        /\ rotations' = rotations + 1
    BY <1>4, RotateReplaces DEF Rotate
  <2>2. /\ IsFiniteSet(Active \ {s})
        /\ Cardinality(Active \ {s}) <= Cardinality(Active)
    BY <1>1, FS_Subset
  <2>3. Cardinality(Active \ {s}) \in Nat
    BY <2>2, FS_CardinalityType
  <2>4. Cardinality(Active') <= Cardinality(Active \ {s}) + 1
    BY <2>1, <2>2, <2>3, FS_AddElement
  <2>5. Cardinality(Active') \in Nat
    BY <2>1, <2>2, FS_AddElement, FS_CardinalityType
  <2> QED
    BY <1>1, <2>1, <2>2, <2>3, <2>4, <2>5 DEF OneActiveSession
<1>5. ASSUME NEW c \in Clients, AcquireActive(c) PROVE OneActiveSession'
  BY <1>2, <1>5 DEF AcquireActive, Active, InState
<1>6. ASSUME NEW c \in Clients, AcquireCreate(c) \/ AcquireRotate(c)
      PROVE  OneActiveSession'
  BY <1>3, <1>6, CreateGrants, RotateGrants
<1>7. ASSUME NEW c \in Clients, Release(c) PROVE OneActiveSession'
  BY <1>2, <1>7, ReleaseReturns DEF Lending!Return
<1>8. CASE Restart
  BY <1>2, <1>8 DEF Restart, Active, InState
<1>9. CASE UNCHANGED <<sessions, nextId, rrIndex, rows, held, rotations, round>>
  BY <1>2, <1>9 DEF Active, InState
<1>10. ASSUME Lending!Retire, UNCHANGED rotations PROVE OneActiveSession'
  BY <1>2, <1>10 DEF Lending!Retire
<1> QED
  BY <1>4, <1>5, <1>6, <1>7, <1>8, <1>9, <1>10, MaintenanceRetires
  DEF Next, Operation, AcquireExhausted, vars

\* The pool never has more ACTIVE sessions than one plus the number of public
\* rotate_session calls: acquire_session alone never spreads load.
THEOREM AtMostOneActive == Spec => []OneActiveSession
<1>1. Init => OneActiveSession
  BY FS_EmptySet DEF Init, OneActiveSession, Active, InState
<1> QED
  BY <1>1, OneActiveStep, TypeCorrect, PTL DEF Spec

-----------------------------------------------------------------------------
(* How many messages a session can serve.                                  *)

\* The two bounds on one session; together they are inductive: the overshoot
\* is bounded because a session stops being lent when it reaches its limit.
SessionOk(s) ==
  /\ sessions[s].state = "active" => sessions[s].msgs < MaxMessages
  /\ sessions[s].msgs + Cardinality(Holders(s))
       <= MaxMessages - 1 + Cardinality(Clients)

AllOk == \A s \in DOMAIN sessions : SessionOk(s)

LEMMA HoldersFinite ==
  ASSUME NEW s
  PROVE  /\ IsFiniteSet(Holders(s))
         /\ Cardinality(Holders(s)) \in Nat
         /\ Cardinality(Clients) \in Nat
         /\ Cardinality(Holders(s)) <= Cardinality(Clients)
BY PoolAssumption, FS_Subset, FS_CardinalityType DEF Holders

\* The bounds survive for a session that keeps its messages and that nobody
\* borrows.
LEMMA UntouchedOk ==
  ASSUME NEW s, SessionOk(s), sessions[s].msgs \in Nat,
         sessions'[s].msgs = sessions[s].msgs,
         sessions'[s].state = "active" => sessions[s].state = "active",
         Holders(s)' \subseteq Holders(s)
  PROVE  SessionOk(s)'
<1>1. /\ IsFiniteSet(Holders(s)')
      /\ Cardinality(Holders(s)') <= Cardinality(Holders(s))
  BY HoldersFinite, FS_Subset
<1>2. Cardinality(Holders(s)') \in Nat
  BY <1>1, FS_CardinalityType
<1> QED
  BY <1>1, <1>2, HoldersFinite, PoolAssumption DEF SessionOk

LEMMA AllOkStep == TypeOK /\ AllOk /\ [Next]_vars => AllOk'
<1> SUFFICES ASSUME TypeOK, AllOk, [Next]_vars, NEW s \in DOMAIN sessions'
             PROVE  SessionOk(s)'
  BY DEF AllOk
<1>1. TypeOK'
  BY TypeStep
<1>2. /\ sessions'[s].msgs \in Nat
      /\ s \in DOMAIN sessions => sessions[s].msgs \in Nat /\ SessionOk(s)
  BY <1>1 DEF TypeOK, PooledSession, AllOk
\* Any session whose message count is under the limit after the step.
<1>3. ASSUME sessions'[s].msgs < MaxMessages PROVE SessionOk(s)'
  <2>1. Cardinality(Holders(s)') \in Nat /\ Cardinality(Clients) \in Nat
        /\ Cardinality(Holders(s)') <= Cardinality(Clients)
    <3>1. Holders(s)' \subseteq Clients
      BY DEF Holders
    <3> QED
      BY <3>1, PoolAssumption, FS_Subset, FS_CardinalityType
  <2> QED
    BY <1>2, <1>3, <2>1, PoolAssumption DEF SessionOk
\* Any session that keeps its messages and that nobody borrows in the step.
<1>4. ASSUME s \in DOMAIN sessions,
             sessions'[s].msgs = sessions[s].msgs,
             sessions'[s].state = "active" => sessions[s].state = "active",
             \A c \in Clients : held'[c] = s => held[c] = s
      PROVE  SessionOk(s)'
  <2>1. Holders(s)' \subseteq Holders(s)
    BY <1>4 DEF Holders
  <2> QED
    BY <1>2, <1>4, <2>1, UntouchedOk
<1>5. Fresh.msgs < MaxMessages
  BY PoolAssumption DEF Fresh
<1>6. ASSUME NEW c \in Clients, AcquireActive(c) PROVE SessionOk(s)'
  <2>1. PICK t \in Active : held' = [held EXCEPT ![c] = t]
    BY <1>6 DEF AcquireActive, Lend
  <2>2. UNCHANGED sessions
    BY <1>6 DEF AcquireActive
  <2>3. CASE s = t
    BY <1>2, <1>3, <2>2, <2>3 DEF Active, InState, SessionOk
  <2>4. CASE s # t
    BY <1>4, <2>1, <2>2, <2>4 DEF TypeOK
  <2> QED
    BY <2>3, <2>4
<1>7. ASSUME NEW c \in Clients, AcquireCreate(c) PROVE SessionOk(s)'
  <2>1. /\ CreateIn(sessions, rows)
        /\ held' = [held EXCEPT ![c] = nextId]
    BY <1>7 DEF AcquireCreate, Lend
  <2>2. /\ DOMAIN sessions' = DOMAIN sessions \cup {nextId}
        /\ sessions'[nextId] = Fresh
        /\ nextId \notin DOMAIN sessions
        /\ \A t \in DOMAIN sessions : sessions'[t] = sessions[t]
    BY <2>1, CreateFacts DEF TypeOK
  <2>3. CASE s = nextId
    BY <1>3, <1>5, <2>2, <2>3
  <2>4. CASE s # nextId
    BY <1>4, <2>1, <2>2, <2>4 DEF TypeOK
  <2> QED
    BY <2>3, <2>4
<1>8. ASSUME NEW old \in DOMAIN sessions, RotateIn(old),
             \A c \in Clients : held'[c] \in {held[c], nextId}
      PROVE  SessionOk(s)'
  <2>1. /\ DOMAIN sessions' = DOMAIN sessions \cup {nextId}
        /\ sessions'[nextId] = Fresh
        /\ nextId \notin DOMAIN sessions
        /\ sessions'[old] = [sessions[old] EXCEPT !.state = "full"]
        /\ \A t \in DOMAIN sessions : t # old => sessions'[t] = sessions[t]
    BY <1>8, RotateFacts
  <2>2. CASE s = nextId
    BY <1>3, <1>5, <2>1, <2>2
  <2>3. CASE s = old
    <3>1. sessions'[old].msgs = sessions[old].msgs /\ sessions'[old].state = "full"
      BY <2>1 DEF TypeOK, PooledSession
    <3> QED
      BY <1>4, <1>8, <2>1, <2>3, <3>1
  <2>4. CASE s # nextId /\ s # old
    BY <1>4, <1>8, <2>1, <2>4
  <2> QED
    BY <2>2, <2>3, <2>4
<1>9. ASSUME NEW c \in Clients, AcquireRotate(c) PROVE SessionOk(s)'
  <2>1. PICK old \in DOMAIN sessions : RotateIn(old)
    BY <1>9 DEF AcquireRotate, Victims, InState
  <2>2. \A d \in Clients : held'[d] \in {held[d], nextId}
    BY <1>9 DEF AcquireRotate, Lend, TypeOK
  <2> QED
    BY <1>8, <2>1, <2>2
<1>10. ASSUME NEW c \in Clients, Release(c) PROVE SessionOk(s)'
  <2>1. /\ held[c] # NoSession
        /\ held' = [held EXCEPT ![c] = NoSession]
    BY <1>10 DEF Release, Lend
  <2>2. \A d \in Clients : held'[d] = s => held[d] = s
    BY <1>1, <2>1 DEF TypeOK, NoSession
  <2>3. CASE s = held[c]
    <3>1. CASE sessions' = [sessions EXCEPT ![s] = Used(sessions[s])]
               /\ s \in DOMAIN sessions
      <4>1. /\ sessions'[s].msgs = sessions[s].msgs + 1
            /\ sessions'[s].state = "active"
                 => sessions[s].msgs + 1 < MaxMessages
        BY <1>2, <3>1, PoolAssumption DEF Used, TypeOK
      <4>2. Holders(s)' = Holders(s) \ {c} /\ c \in Holders(s)
        BY <2>1, <2>2, <2>3, <1>1 DEF Holders, TypeOK, NoSession
      <4>3. Cardinality(Holders(s)') = Cardinality(Holders(s)) - 1
        BY <4>2, HoldersFinite, FS_RemoveElement
      <4> QED
        BY <1>2, <3>1, <4>1, <4>3, HoldersFinite, PoolAssumption DEF SessionOk
    <3>2. CASE UNCHANGED sessions
      BY <1>4, <2>2, <3>2
    <3> QED
      BY <1>10, <2>3, <3>1, <3>2 DEF Release
  <2>4. CASE s # held[c]
    <3>1. s \in DOMAIN sessions /\ sessions'[s] = sessions[s]
      BY <1>10, <2>4 DEF Release, TypeOK
    <3> QED
      BY <1>4, <2>2, <3>1
  <2> QED
    BY <2>3, <2>4
<1>11. ASSUME NEW t \in DOMAIN sessions, Rotate(t) PROVE SessionOk(s)'
  BY <1>8, <1>11 DEF Rotate
<1>12. ASSUME NEW t \in DOMAIN sessions, MarkError(t) PROVE SessionOk(s)'
  <2>1. /\ s \in DOMAIN sessions
        /\ sessions'[s].msgs = sessions[s].msgs
        /\ sessions'[s].state \in {sessions[s].state, "error"}
    BY <1>12 DEF MarkError, TypeOK, PooledSession
  <2> QED
    BY <1>4, <1>12, <2>1 DEF MarkError
<1>13. CASE CleanupExpired
  BY <1>4, <1>13 DEF CleanupExpired, Without
<1>18. ASSUME NEW t \in DOMAIN sessions, CleanupFails(t) PROVE SessionOk(s)'
  <2>1. /\ s \in DOMAIN sessions
        /\ sessions'[s].msgs = sessions[s].msgs
        /\ sessions'[s].state \in {sessions[s].state, "expired"}
    BY <1>18 DEF CleanupFails, TypeOK, PooledSession
  <2> QED
    BY <1>4, <1>18, <2>1 DEF CleanupFails
<1>14. CASE HealthCheckAll
  <2>1. /\ s \in DOMAIN sessions
        /\ sessions'[s].msgs = sessions[s].msgs
        /\ sessions'[s].state \in {sessions[s].state, "expired", "error"}
    BY <1>14 DEF HealthCheckAll, TypeOK, PooledSession
  <2> QED
    BY <1>4, <1>14, <2>1 DEF HealthCheckAll
<1>15. CASE Restart
  BY <1>15 DEF Restart
<1>16. CASE Tick
  <2>1. /\ s \in DOMAIN sessions
        /\ sessions'[s].msgs = sessions[s].msgs
        /\ sessions'[s].state = sessions[s].state
    BY <1>16 DEF Tick, TypeOK, PooledSession
  <2> QED
    BY <1>4, <1>16, <2>1 DEF Tick
<1>17. CASE UNCHANGED <<sessions, held>>
  BY <1>4, <1>17
<1> QED
  BY <1>6, <1>7, <1>9, <1>10, <1>11, <1>12, <1>13, <1>14, <1>15, <1>16, <1>17,
     <1>18
  DEF Next, Operation, vars, LoseRow, Close, AcquireExhausted

\* However the calls of the clients interleave, a session serves at most
\* MaxMessages - 1 messages plus one for each client.
THEOREM MessagesBounded == Spec => []OvershootBound
<1>1. Init => AllOk
  BY DEF Init, AllOk
<1>2. AllOk => OvershootBound
  BY DEF AllOk, SessionOk, OvershootBound
<1> QED
  BY <1>1, <1>2, AllOkStep, TypeCorrect, PTL DEF Spec

\* A session that is at its limit is never ACTIVE, so it is never lent again.
THEOREM LimitRetires == Spec => []ActiveUnderLimit
<1>1. Init => AllOk
  BY DEF Init, AllOk
<1>2. AllOk => ActiveUnderLimit
  BY DEF AllOk, SessionOk, ActiveUnderLimit, Active, InState
<1> QED
  BY <1>1, <1>2, AllOkStep, TypeCorrect, PTL DEF Spec

-----------------------------------------------------------------------------
(* The store mirrors the pool.                                             *)

\* The row of a session against the session, as RowsMirrorPool wants it.
Agree(row, session) ==
  /\ row.msgs = session.msgs
  /\ row.state = session.state \/ session.state \in {"expired", "error"}

Mirrored == \A s \in DOMAIN rows \cap DOMAIN sessions : Agree(rows[s], sessions[s])

LEMMA MirrorIs == RowsMirrorPool <=> (outages = 0 => Mirrored)
BY DEF RowsMirrorPool, Mirrored, Agree

\* A creation on a pool that its store mirrors.
LEMMA CreateMirrors ==
  ASSUME TypeOK, ~StoreDown,
         NEW pool, pool \in [DOMAIN sessions -> PooledSession],
         NEW store, store \in [DOMAIN store -> Row],
         DOMAIN store \subseteq 1 .. nextId - 1,
         \A s \in DOMAIN store \cap DOMAIN sessions : Agree(store[s], pool[s]),
         CreateIn(pool, store)
  PROVE  Mirrored'
<1>1. /\ DOMAIN sessions' = DOMAIN sessions \cup {nextId}
      /\ sessions'[nextId] = Fresh
      /\ \A s \in DOMAIN sessions : sessions'[s] = pool[s]
  BY CreateFacts
<1>2. /\ DOMAIN rows' = DOMAIN store \cup {nextId}
      /\ Agree(rows'[nextId], Fresh)
      /\ \A y \in DOMAIN store : y # nextId => rows'[y] = store[y]
  <2>1. rows' = Put(store, nextId, [state |-> Fresh.state, msgs |-> Fresh.msgs])
    BY DEF CreateIn, Persisted, StoreDown
  <2> QED
    BY <2>1 DEF Put, Agree
<1>3. ASSUME NEW s \in DOMAIN rows' \cap DOMAIN sessions'
      PROVE  Agree(rows'[s], sessions'[s])
  BY <1>1, <1>2
<1> QED
  BY <1>3 DEF Mirrored, Agree

LEMMA RotateMirrors ==
  ASSUME TypeOK, ~StoreDown, Mirrored, NEW old \in DOMAIN sessions, RotateIn(old)
  PROVE  Mirrored'
<1> DEFINE full == [sessions[old] EXCEPT !.state = "full"]
           pool == [sessions EXCEPT ![old] = full]
<1>1. full \in PooledSession
  BY DEF TypeOK, PooledSession, SessionState
<1>2. /\ pool \in [DOMAIN sessions -> PooledSession]
      /\ \A s \in DOMAIN sessions : pool[s] = IF s = old THEN full ELSE sessions[s]
  BY <1>1 DEF TypeOK
<1>3. PICK store \in Persisted(rows, old, full) : CreateIn(pool, store)
  BY DEF RotateIn
<1> HIDE DEF full, pool
<1>4. /\ store \in [DOMAIN store -> Row]
      /\ DOMAIN store \subseteq 1 .. nextId - 1
  <2>1. old \in 1 .. nextId - 1
    BY DEF TypeOK
  <2>2. store \in [DOMAIN store -> Row] /\ DOMAIN store \subseteq DOMAIN rows \cup {old}
    BY <1>1, <1>3, PersistedFacts DEF TypeOK
  <2> QED
    BY <2>1, <2>2 DEF TypeOK
<1>5. \A s \in DOMAIN store \cap DOMAIN sessions : Agree(store[s], pool[s])
  <2>1. /\ DOMAIN store = DOMAIN rows \cup {old}
        /\ Agree(store[old], full)
        /\ \A y \in DOMAIN rows : y # old => store[y] = rows[y]
    <3>1. store = Put(rows, old, [state |-> full.state, msgs |-> full.msgs])
      BY <1>3 DEF Persisted, StoreDown
    <3> QED
      BY <3>1 DEF Put, Agree
  <2> QED
    BY <1>2, <2>1 DEF Mirrored
<1> QED
  BY <1>2, <1>3, <1>4, <1>5, CreateMirrors

\* A step that writes the row of one session, as it has become.
LEMMA SaveMirrors ==
  ASSUME TypeOK, ~StoreDown, Mirrored, NEW s \in DOMAIN sessions, NEW r,
         sessions' = [sessions EXCEPT ![s] = r],
         rows' \in Persisted(rows, s, r)
  PROVE  Mirrored'
<1>1. /\ DOMAIN rows' = DOMAIN rows \cup {s}
      /\ Agree(rows'[s], r)
      /\ \A y \in DOMAIN rows : y # s => rows'[y] = rows[y]
  <2>1. rows' = Put(rows, s, [state |-> r.state, msgs |-> r.msgs])
    BY DEF Persisted, StoreDown
  <2> QED
    BY <2>1 DEF Put, Agree
<1>2. \A t \in DOMAIN sessions : sessions'[t] = IF t = s THEN r ELSE sessions[t]
  OBVIOUS
<1>3. ASSUME NEW t \in DOMAIN rows' \cap DOMAIN sessions'
      PROVE  Agree(rows'[t], sessions'[t])
  BY <1>1, <1>2, <1>3 DEF Mirrored
<1> QED
  BY <1>3 DEF Mirrored, Agree

\* A step that writes no row, may take sessions and rows away, and at most gives
\* sessions a verdict.
LEMMA VerdictMirrors ==
  ASSUME Mirrored,
         \A s \in DOMAIN rows' \cap DOMAIN sessions' :
           /\ s \in DOMAIN rows /\ s \in DOMAIN sessions
           /\ rows'[s] = rows[s]
           /\ sessions'[s].msgs = sessions[s].msgs
           /\ sessions'[s].state \in {sessions[s].state, "expired", "error"}
  PROVE  Mirrored'
BY DEF Mirrored, Agree

LEMMA MirrorStep == TypeOK /\ RowsMirrorPool /\ [Next]_vars => RowsMirrorPool'
<1> SUFFICES ASSUME TypeOK, RowsMirrorPool, [Next]_vars, outages' = 0
             PROVE  Mirrored'
  BY DEF RowsMirrorPool, Mirrored, Agree
<1>0. outages = 0 /\ ~StoreDown
  BY DEF TypeOK, Next, vars, StoreDown
<1>m. Mirrored
  BY <1>0, MirrorIs
<1>t. \A s \in DOMAIN sessions : sessions[s] \in PooledSession
  BY DEF TypeOK
<1>1. ASSUME NEW c \in Clients, AcquireCreate(c) PROVE Mirrored'
  <2>1. CreateIn(sessions, rows)
    BY <1>1 DEF AcquireCreate
  <2> QED
    BY <1>0, <1>m, <2>1, CreateMirrors DEF TypeOK, Mirrored
<1>2. ASSUME NEW c \in Clients, AcquireRotate(c) PROVE Mirrored'
  BY <1>0, <1>m, <1>2, RotateMirrors DEF AcquireRotate, Victims, InState
<1>3. ASSUME NEW c \in Clients, Release(c) PROVE Mirrored'
  <2>1. CASE UNCHANGED <<sessions, rows>>
    BY <1>m, <2>1 DEF Mirrored
  <2>2. CASE /\ held[c] \in DOMAIN sessions
             /\ sessions' = [sessions EXCEPT ![held[c]] = Used(sessions[held[c]])]
             /\ rows' \in Persisted(rows, held[c], Used(sessions[held[c]]))
    BY <1>0, <1>m, <2>2, SaveMirrors
  <2> QED
    BY <1>3, <2>1, <2>2 DEF Release
<1>4. ASSUME NEW s \in DOMAIN sessions, Rotate(s) PROVE Mirrored'
  BY <1>0, <1>m, <1>4, RotateMirrors DEF Rotate
<1>5. ASSUME NEW s \in DOMAIN sessions, MarkError(s) PROVE Mirrored'
  BY <1>0, <1>m, <1>5, SaveMirrors DEF MarkError
<1>6. ASSUME NEW s \in DOMAIN rows, LoseRow(s) PROVE Mirrored'
  BY <1>m, <1>6, VerdictMirrors DEF LoseRow, Without
<1>7. CASE CleanupExpired
  BY <1>m, <1>7, VerdictMirrors DEF CleanupExpired, Without
<1>8. CASE HealthCheckAll
  <2>1. \A s \in DOMAIN sessions' :
          /\ s \in DOMAIN sessions
          /\ sessions'[s].msgs = sessions[s].msgs
          /\ sessions'[s].state \in {sessions[s].state, "expired", "error"}
    BY <1>8, <1>t DEF HealthCheckAll, PooledSession
  <2>2. rows' = rows
    BY <1>8 DEF HealthCheckAll
  <2> QED
    BY <1>m, <2>1, <2>2, VerdictMirrors
<1>9. CASE Close
  <2>1. /\ rows' = [s \in DOMAIN rows \cup DOMAIN sessions |->
                      IF s \in DOMAIN sessions
                      THEN [state |-> sessions[s].state, msgs |-> sessions[s].msgs]
                      ELSE rows[s]]
        /\ sessions' = sessions
    BY <1>0, <1>9 DEF Close
  <2> QED
    BY <2>1 DEF Mirrored, Agree
<1>10. CASE Restart
  BY <1>10 DEF Restart, Mirrored
<1>11. CASE Tick
  <2>1. \A s \in DOMAIN sessions' :
          /\ s \in DOMAIN sessions
          /\ sessions'[s].msgs = sessions[s].msgs
          /\ sessions'[s].state = sessions[s].state
    BY <1>11, <1>t DEF Tick, PooledSession
  <2>2. rows' = rows
    BY <1>11 DEF Tick
  <2> QED
    BY <1>m, <2>1, <2>2, VerdictMirrors
<1>12. CASE UNCHANGED <<sessions, rows>>
  BY <1>m, <1>12 DEF Mirrored
<1> QED
  BY <1>0, <1>1, <1>2, <1>3, <1>4, <1>5, <1>6, <1>7, <1>8, <1>9, <1>10, <1>11, <1>12
  DEF Next, Operation, vars, AcquireActive, AcquireExhausted, CleanupFails

\* As long as the store does not fail, whatever clients, rotations, health
\* checks, restarts and lost rows do, the row of a pooled session has its
\* message count, and its state up to the verdicts that are not persisted.
THEOREM StoreMirrors == Spec => []RowsMirrorPool
<1>1. Init => RowsMirrorPool
  BY DEF Init, RowsMirrorPool
<1> QED
  BY <1>1, MirrorStep, TypeCorrect, PTL DEF Spec

-----------------------------------------------------------------------------
(* Round-robin.                                                            *)

\* The place of session b among those in act, as AcquireActive counts it.
Rank(b, act) == Cardinality({t \in act : t < b})

\* The places from s up to, but without, m; past the last place it goes on at 0.
InArc(r, s, m) == IF s <= m THEN s <= r /\ r < m ELSE s <= r \/ r < m

\* The sessions already picked in this round are those on an arc that ends where
\* the index points.
OnArc(act, index, picked) ==
  /\ picked \subseteq act
  /\ act # {} =>
       \E s \in 0 .. Cardinality(act) - 1 : \A b \in act :
         b \in picked <=> InArc(Rank(b, act), s, index % Cardinality(act))

RoundOnArc == OnArc(Active, rrIndex, round)

\* Places are numbers below the number of sessions, one for each.
LEMMA RankFacts ==
  ASSUME NEW act \in SUBSET Nat, IsFiniteSet(act)
  PROVE  /\ act # {} => Cardinality(act) \in Nat \ {0}
         /\ \A b \in act : Rank(b, act) \in 0 .. Cardinality(act) - 1
         /\ \A b, c \in act : b # c => Rank(b, act) # Rank(c, act)
<1> DEFINE Below(b) == {t \in act : t < b}
<1>1. Cardinality(act) \in Nat
  BY FS_CardinalityType
<1>2. ASSUME NEW S \in SUBSET act, NEW T \in SUBSET S, S # T
      PROVE  Cardinality(T) \in Nat /\ Cardinality(S) \in Nat /\ Cardinality(T) < Cardinality(S)
  <2>1. IsFiniteSet(S)
    BY FS_Subset
  <2>2. IsFiniteSet(T) /\ Cardinality(T) <= Cardinality(S) /\ Cardinality(T) # Cardinality(S)
    BY <1>2, <2>1, FS_Subset
  <2> QED
    BY <2>1, <2>2, FS_CardinalityType
<1>3. ASSUME NEW b \in act PROVE Rank(b, act) \in 0 .. Cardinality(act) - 1
  <2>1. Below(b) \in SUBSET act /\ b \notin Below(b)
    OBVIOUS
  <2> QED
    BY <1>1, <1>2, <2>1 DEF Rank
<1>4. ASSUME NEW b \in act, NEW c \in act, b < c
      PROVE  Rank(b, act) # Rank(c, act)
  <2>1. \A x \in act : (x < b => x < c) /\ ~(b < b)
    BY <1>4
  <2>2. Below(b) \in SUBSET act /\ Below(c) \in SUBSET act
    OBVIOUS
  <2>3. Below(b) \in SUBSET Below(c) /\ b \in Below(c) /\ b \notin Below(b)
    BY <1>4, <2>1
  <2> QED
    BY <1>2, <2>2, <2>3 DEF Rank
<1>5. \A b, c \in act : b # c => b < c \/ c < b
  OBVIOUS
<1> QED
  BY <1>1, <1>3, <1>4, <1>5, FS_EmptySet

\* What the next index points at: one place on, or the first place again.
LEMMA NextMod ==
  ASSUME NEW n \in Nat \ {0}, NEW i \in Nat
  PROVE  /\ i % n \in 0 .. n - 1
         /\ (i + 1) % n = IF (i % n) + 1 = n THEN 0 ELSE (i % n) + 1
<1> DEFINE q == i \div n
           r == i % n
           p == (i + 1) \div n
           s == (i + 1) % n
<1>1. ASSUME NEW k \in Nat
      PROVE  k % n \in 0 .. n - 1 /\ k \div n \in Nat /\ k = n * (k \div n) + (k % n)
  OBVIOUS
<1>2. /\ r \in 0 .. n - 1 /\ q \in Nat /\ i = n * q + r
      /\ s \in 0 .. n - 1 /\ p \in Nat /\ i + 1 = n * p + s
  BY <1>1
<1>3. ASSUME NEW x \in Nat, NEW y \in Nat, x < y
      PROVE  n * x \in Nat /\ n * y \in Nat /\ (n * x) + n <= n * y
  <2>1. PICK d \in Nat : y = x + 1 + d
    <3>1. y - x - 1 \in Nat /\ y = x + 1 + (y - x - 1)
      BY <1>3
    <3> QED
      BY <3>1
  <2>2. n * y = (n * x) + n + (n * d) /\ n * d >= 0 /\ n * x \in Nat /\ n * y \in Nat
    BY <2>1
  <2> QED
    BY <2>2
<1> HIDE DEF q, r, p, s
<1>4. ~(p < q)
  BY <1>2, <1>3
<1>5. CASE p = q
  BY <1>2, <1>5 DEF r, s
<1>6. CASE q < p
  BY <1>2, <1>3, <1>6 DEF r, s
<1> QED
  BY <1>2, <1>4, <1>5, <1>6

LEMMA NothingOnArc ==
  ASSUME NEW act \in SUBSET Nat, IsFiniteSet(act), NEW index \in Nat
  PROVE  OnArc(act, index, {})
<1>1. ASSUME act # {} PROVE index % Cardinality(act) \in 0 .. Cardinality(act) - 1
  BY <1>1, RankFacts, NextMod
<1>2. ASSUME NEW r \in Nat, NEW m \in Nat PROVE ~InArc(r, m, m)
  BY DEF InArc
<1> QED
  BY <1>1, <1>2, RankFacts DEF OnArc

\* The session picked is not yet on the arc, and makes it longer; when it closes
\* the circle, a new round begins.
LEMMA PickOnArc ==
  ASSUME NEW act \in SUBSET Nat, IsFiniteSet(act), NEW index \in Nat, NEW picked,
         OnArc(act, index, picked),
         NEW s \in act, Rank(s, act) = index % Cardinality(act)
  PROVE  /\ s \notin picked
         /\ OnArc(act, index + 1, IF picked \cup {s} = act THEN {} ELSE picked \cup {s})
<1> DEFINE n    == Cardinality(act)
           m    == index % n
           m1   == (index + 1) % n
           R(b) == Rank(b, act)
<1>1. /\ n \in Nat \ {0}
      /\ \A b \in act : R(b) \in 0 .. n - 1
      /\ \A b \in act : b # s => R(b) # R(s)
  BY RankFacts
<1>2. m \in 0 .. n - 1 /\ R(s) = m /\ m1 = IF m + 1 = n THEN 0 ELSE m + 1
  BY <1>1, NextMod
<1>3. PICK x \in 0 .. n - 1 : \A b \in act : b \in picked <=> InArc(R(b), x, m)
  BY DEF OnArc
<1>4. picked \subseteq act
  BY DEF OnArc
<1> HIDE DEF n, m, m1, R
<1>5. s \notin picked
  BY <1>1, <1>2, <1>3 DEF InArc
<1>6. ASSUME picked \cup {s} # act PROVE OnArc(act, index + 1, picked \cup {s})
  <2>1. PICK c \in act : c \notin picked /\ c # s
    BY <1>4, <1>6
  <2>2. ~InArc(R(c), x, m) /\ R(c) # m
    BY <1>1, <1>2, <1>3, <2>1
  <2>3. \A b \in act : b \in picked \cup {s} <=> InArc(R(b), x, m) \/ R(b) = m
    BY <1>1, <1>2, <1>3
  <2>4. \A b \in act : (InArc(R(b), x, m) \/ R(b) = m) <=> InArc(R(b), x, m1)
    BY <1>1, <1>2, <2>2 DEF InArc
  <2>5. \A b \in act : b \in picked \cup {s} <=> InArc(R(b), x, m1)
    BY <2>3, <2>4
  <2> QED
    BY <1>4, <2>5 DEF OnArc, n, m1, R
<1> QED
  BY <1>5, <1>6, NothingOnArc

LEMMA ActiveFinite == TypeOK => Active \in SUBSET SessionId /\ IsFiniteSet(Active) /\ rrIndex \in Nat
  BY FinitePool DEF TypeOK, Active, InState, SessionId

\* Steps that start a new round when the ACTIVE sessions change.
LEMMA NewRoundOnArc ==
  ASSUME TypeOK, TypeOK', RoundOnArc, NewRound, rrIndex' = rrIndex \/ Active' = {}
  PROVE  RoundOnArc'
<1>1. CASE Active' = Active /\ rrIndex' = rrIndex
  BY <1>1 DEF NewRound, RoundOnArc, OnArc
<1>2. CASE Active' = {}
  BY <1>2, RoundStep DEF RoundOnArc, OnArc
<1>3. CASE Active' # Active /\ rrIndex' = rrIndex
  <2>0. (Active \in SUBSET SessionId /\ IsFiniteSet(Active) /\ rrIndex \in Nat)'
    BY ActiveFinite, PTL
  <2>1. Active' \in SUBSET Nat /\ IsFiniteSet(Active') /\ rrIndex' \in Nat /\ round' = {}
    BY <1>3, <2>0 DEF NewRound, SessionId
  <2>2. OnArc(Active', rrIndex', {})
    BY <2>1, NothingOnArc
  <2> QED
    BY <2>1, <2>2 DEF RoundOnArc
<1> QED
  BY <1>1, <1>2, <1>3

\* What a step must keep: the arc, and that whoever gets an ACTIVE session gets
\* one that this round did not pick.
Turn(c) == held[c] = NoSession /\ held'[c] \in Active => held'[c] \notin round
Fair    == \A c \in Clients : Turn(c)

LEMMA FairStep ==
  ASSUME TypeOK, RoundOnArc, [Next]_vars
  PROVE  RoundOnArc' /\ Fair
<1>0. /\ TypeOK' /\ Active \in SUBSET Nat /\ IsFiniteSet(Active) /\ rrIndex \in Nat
      /\ NoSession \notin Active /\ held \in [Clients -> 0 .. nextId - 1] /\ nextId \in Nat
      /\ nextId \notin Active
  BY TypeStep, ActiveFinite DEF SessionId, NoSession, TypeOK, Active, InState
<1>1. ASSUME NewRound, rrIndex' = rrIndex \/ Active' = {} PROVE RoundOnArc'
  BY <1>0, <1>1, NewRoundOnArc
<1>2. ASSUME UNCHANGED held PROVE Fair
  BY <1>0, <1>2 DEF Fair, Turn
<1>3. ASSUME NEW c \in Clients, NEW s \in {NoSession, nextId}, Lend(c, s) PROVE Fair
  BY <1>0, <1>3 DEF Fair, Turn, Lend
<1>4. ASSUME NEW c \in Clients, AcquireActive(c) PROVE RoundOnArc' /\ Fair
  <2>1. PICK s \in Active :
          /\ Rank(s, Active) = rrIndex % Cardinality(Active)
          /\ Lend(c, s)
          /\ round' = IF round \cup {s} = Active THEN {} ELSE round \cup {s}
    BY <1>4 DEF AcquireActive, Rank
  <2>2. rrIndex' = rrIndex + 1 /\ Active' = Active
    BY <1>4 DEF AcquireActive, Active, InState
  <2>3. s \notin round /\ OnArc(Active, rrIndex + 1, round')
    BY <1>0, <2>1, PickOnArc DEF RoundOnArc
  <2>4. Fair
    BY <1>0, <2>1, <2>3 DEF Fair, Turn, Lend
  <2> QED
    BY <2>2, <2>3, <2>4 DEF RoundOnArc
<1>5. ASSUME NEW c \in Clients, AcquireCreate(c) \/ AcquireRotate(c) PROVE RoundOnArc' /\ Fair
  <2>1. NewRound /\ rrIndex' = rrIndex /\ Lend(c, nextId)
    BY <1>5 DEF AcquireCreate, AcquireRotate, RotateIn, CreateIn
  <2> QED
    BY <1>1, <1>3, <2>1
<1>6. ASSUME NEW c \in Clients, Release(c) PROVE RoundOnArc' /\ Fair
  BY <1>1, <1>3, <1>6 DEF Release
<1>7. ASSUME NEW s \in DOMAIN sessions, Rotate(s) \/ MarkError(s) \/ CleanupFails(s)
      PROVE  RoundOnArc' /\ Fair
  <2>1. NewRound /\ rrIndex' = rrIndex /\ UNCHANGED held
    BY <1>7 DEF Rotate, RotateIn, CreateIn, MarkError, CleanupFails
  <2> QED
    BY <1>1, <1>2, <2>1
<1>8. CASE CleanupExpired \/ HealthCheckAll
  BY <1>1, <1>2, <1>8 DEF CleanupExpired, HealthCheckAll
<1>9. CASE Restart
  <2>1. NewRound /\ Active' = {}
    BY <1>9 DEF Restart, Active, InState
  <2>2. Fair
    BY <1>0, <1>9 DEF Restart, Fair, Turn
  <2> QED
    BY <1>1, <2>1, <2>2
<1>10. CASE Tick
  <2>1. \A s \in DOMAIN sessions : sessions'[s].state = sessions[s].state
    BY <1>10 DEF Tick, TypeOK, PooledSession
  <2>2. Active' = Active /\ round' = round /\ rrIndex' = rrIndex /\ UNCHANGED held
    BY <1>10, <2>1 DEF Tick, Active, InState
  <2> QED
    BY <1>1, <1>2, <2>2 DEF NewRound
<1>11. ASSUME UNCHANGED <<sessions, rrIndex, held, round>> PROVE RoundOnArc' /\ Fair
  BY <1>2, <1>11 DEF RoundOnArc, Active, InState
<1> QED
  BY <1>4, <1>5, <1>6, <1>7, <1>8, <1>9, <1>10, <1>11
  DEF Next, Operation, vars, AcquireExhausted, LoseRow, Close

\* Round-robin is fair for every number of sessions, although _rr_index counts
\* on while sessions come and go: as long as the set of ACTIVE sessions stays
\* the same, none of them is lent again before all the others were.
THEOREM RoundRobinIsFair == Spec => RoundRobinFair
<1>1. Init => RoundOnArc
  BY DEF Init, RoundOnArc, OnArc, Active, InState
<1>2. TypeOK /\ RoundOnArc /\ [Next]_vars => RoundOnArc' /\ [Fair]_vars
  BY FairStep
<1> QED
  BY <1>1, <1>2, TypeCorrect, PTL DEF Spec, RoundRobinFair, Fair, Turn
=============================================================================
