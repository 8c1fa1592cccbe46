----------------------------- MODULE SessionPool -----------------------------
(***************************************************************************)
(* router/session_pool.py: the pool of bridge sessions that the executor   *)
(* borrows from.  Every public coroutine runs under SessionPool._lock, so   *)
(* each of them is one action.                                             *)
(*                                                                         *)
(* A session id is the rank of its creation (the uuid4 suffix is fresh, so  *)
(* ids never repeat, not even across restarts).  Dict order, creation order *)
(* and the order of created_at are then the order of the ids.  Of a         *)
(* session's clock only its age matters, and only whether it is past the    *)
(* TTL: ages saturate at TTL + 1.                                          *)
(***************************************************************************)
EXTENDS Naturals, FiniteSets

CONSTANTS
  Clients,        \* coroutines that borrow sessions (executor sub-tasks)
  MaxSessions,    \* PoolConfig.max_sessions
  MaxMessages,    \* PoolConfig.max_messages_per_session
  TTL,            \* PoolConfig.session_ttl, in clock ticks
  MaxOutages,     \* how many operations find the SessionManager failing
  Durable,        \* is the SessionManager backed by SQLite?
  MaxCreated,     \* bound of the model: ids after which no session is created
  MaxPicks,       \* bound of the model: round-robin picks
  MaxRotations    \* bound of the model: public rotate_session calls

ASSUME PoolAssumption ==
  /\ IsFiniteSet(Clients)
  /\ MaxSessions \in Nat \ {0}
  /\ MaxMessages \in Nat \ {0}
  /\ TTL \in Nat
  /\ MaxOutages \in Nat
  /\ Durable \in BOOLEAN
  /\ MaxCreated \in Nat
  /\ MaxPicks \in Nat
  /\ MaxRotations \in Nat

VARIABLES
  sessions,   \* _sessions: id -> [state, msgs, age], on the ids in the pool
  nextId,     \* the id the next created session gets
  rrIndex,    \* _rr_index
  rows,       \* "pool:<id>" rows of the store: id -> [state, msgs]
  held,       \* the session each client has acquired and not yet released
  rotations,  \* public rotate_session calls so far
  outages,    \* operations so far during which calls of the store might raise
  round       \* history: ACTIVE sessions already picked in this round; a round
              \* ends when all were, or when the set of ACTIVE sessions changes

vars == <<sessions, nextId, rrIndex, rows, held, rotations, outages, round>>

SessionState == {"active", "full", "expired", "error"}
SessionId    == Nat \ {0}
NoSession    == 0

PooledSession == [state : SessionState, msgs : Nat, age : 0 .. TTL + 1]
Row           == [state : SessionState, msgs : Nat]

TypeOK ==
  /\ DOMAIN sessions \subseteq 1 .. nextId - 1
  /\ sessions \in [DOMAIN sessions -> PooledSession]
  /\ nextId \in SessionId
  /\ rrIndex \in Nat
  /\ DOMAIN rows \subseteq 1 .. nextId - 1
  /\ rows \in [DOMAIN rows -> Row]
  /\ held \in [Clients -> 0 .. nextId - 1]
  /\ rotations \in Nat
  /\ outages \in Nat
  /\ round \subseteq {s \in DOMAIN sessions : sessions[s].state = "active"}

-----------------------------------------------------------------------------
InState(st)  == {s \in DOMAIN sessions : sessions[s].state = st}
Active       == InState("active")
Holders(s)   == {c \in Clients : held[c] = s}
Expired(s)   == sessions[s].age > TTL
Fresh        == [state |-> "active", msgs |-> 0, age |-> 0]

\* f with x mapped to v, whether or not x was in its domain.
Put(f, x, v) == [y \in DOMAIN f \cup {x} |-> IF y = x THEN v ELSE f[y]]
Without(f, S) == [y \in DOMAIN f \ S |-> f[y]]

\* Does the step happen while calls of the store may raise?
StoreDown == outages' # outages

\* The store after session s is persisted as r: a failing save is logged and
\* swallowed.
Persisted(store, s, r) ==
  {Put(store, s, [state |-> r.state, msgs |-> r.msgs])}
    \cup (IF StoreDown THEN {store} ELSE {})

\* A change of the set of ACTIVE sessions starts a new round.
NewRound == round' = IF Active' = Active THEN round ELSE {}

-----------------------------------------------------------------------------
\* _create_session_locked, on the given pool and store.
CreateIn(pool, store) ==
  /\ sessions' = Put(pool, nextId, Fresh)
  /\ nextId' = nextId + 1
  /\ rows' \in Persisted(store, nextId, Fresh)
  /\ NewRound

\* _rotate_session_locked: old becomes FULL and stays in the pool.
RotateIn(old) ==
  LET full == [sessions[old] EXCEPT !.state = "full"]
  IN  \E store \in Persisted(rows, old, full) :
        CreateIn([sessions EXCEPT ![old] = full], store)

Lend(c, s) == held' = [held EXCEPT ![c] = s]

\* Mutated form: the round-robin index does not advance.
AcquireActiveStuck(c) ==
  /\ held[c] = NoSession
  /\ rrIndex < MaxPicks
  /\ \E s \in Active :
       /\ Cardinality({t \in Active : t < s}) = rrIndex % Cardinality(Active)
       /\ Lend(c, s)
       /\ round' = IF round \cup {s} = Active THEN {} ELSE round \cup {s}
  /\ UNCHANGED <<sessions, nextId, rrIndex, rows, rotations>>

\* acquire_session, first branch: round-robin over the ACTIVE sessions.
AcquireActive(c) ==
  /\ held[c] = NoSession
  /\ rrIndex < MaxPicks
  /\ \E s \in Active :
       /\ Cardinality({t \in Active : t < s}) = rrIndex % Cardinality(Active)
       /\ Lend(c, s)
       /\ round' = IF round \cup {s} = Active THEN {} ELSE round \cup {s}
  /\ rrIndex' = rrIndex + 1
  /\ UNCHANGED <<sessions, nextId, rows, rotations>>

\* Mutated form: a session is created whenever there is room.
AcquireCreateAnyway(c) ==
  /\ held[c] = NoSession
  /\ nextId <= MaxCreated
  /\ Cardinality(DOMAIN sessions) < MaxSessions
  /\ Lend(c, nextId)
  /\ CreateIn(sessions, rows)
  /\ UNCHANGED <<rrIndex, rotations>>

\* Second branch: nothing ACTIVE and room in the pool.
AcquireCreate(c) ==
  /\ held[c] = NoSession
  /\ nextId <= MaxCreated
  /\ Active = {}
  /\ Cardinality(DOMAIN sessions) < MaxSessions
  /\ Lend(c, nextId)
  /\ CreateIn(sessions, rows)
  /\ UNCHANGED <<rrIndex, rotations>>

\* What acquire_session may rotate: FULL sessions, else EXPIRED ones.
Victims ==
  IF InState("full") # {} THEN InState("full") ELSE InState("expired")

\* Third and fourth branch: rotate the oldest victim.
AcquireRotate(c) ==
  /\ held[c] = NoSession
  /\ nextId <= MaxCreated
  /\ Active = {}
  /\ Cardinality(DOMAIN sessions) >= MaxSessions
  /\ \E old \in Victims :
       /\ \A s \in Victims : old <= s
       /\ RotateIn(old)
  /\ Lend(c, nextId)
  /\ UNCHANGED <<rrIndex, rotations>>

\* No branch applies: acquire_session raises RuntimeError.
AcquireExhausted(c) ==
  /\ held[c] = NoSession
  /\ Active = {}
  /\ Cardinality(DOMAIN sessions) >= MaxSessions
  /\ Victims = {}
  /\ UNCHANGED <<sessions, nextId, rrIndex, rows, held, rotations, round>>

\* Mutated forms: the limit is tested with >, and a session under its limit
\* becomes ACTIVE again.
UsedOffByOne(r) ==
  [state |-> IF r.msgs + 1 > MaxMessages THEN "full" ELSE r.state,
   msgs  |-> r.msgs + 1,
   age   |-> r.age]
UsedRevives(r) ==
  [state |-> IF r.msgs + 1 >= MaxMessages THEN "full" ELSE "active",
   msgs  |-> r.msgs + 1,
   age   |-> r.age]

\* A session after one more message: at the limit it becomes FULL, whatever
\* state it was in.
Used(r) ==
  [state |-> IF r.msgs + 1 >= MaxMessages THEN "full" ELSE r.state,
   msgs  |-> r.msgs + 1,
   age   |-> r.age]

\* Mutated form: the used session is not persisted.
ReleaseUnpersisted(c) ==
  LET s == held[c]
  IN /\ s # NoSession
     /\ Lend(c, NoSession)
     /\ sessions' = IF s \in DOMAIN sessions
                    THEN [sessions EXCEPT ![s] = Used(sessions[s])] ELSE sessions
     /\ NewRound
     /\ UNCHANGED <<nextId, rrIndex, rows, rotations>>

\* release_session; a session that left the pool in the meantime is ignored.
Release(c) ==
  LET s == held[c]
  IN /\ s # NoSession
     /\ Lend(c, NoSession)
     /\ \/ /\ s \in DOMAIN sessions
           /\ sessions' = [sessions EXCEPT ![s] = Used(sessions[s])]
           /\ rows' \in Persisted(rows, s, Used(sessions[s]))
        \/ /\ s \notin DOMAIN sessions
           /\ UNCHANGED <<sessions, rows>>
     /\ NewRound
     /\ UNCHANGED <<nextId, rrIndex, rotations>>

\* rotate_session on a session of the pool (otherwise KeyError, no effect).
Rotate(s) ==
  /\ nextId <= MaxCreated
  /\ rotations < MaxRotations
  /\ RotateIn(s)
  /\ rotations' = rotations + 1
  /\ UNCHANGED <<rrIndex, held>>

\* cleanup_expired: past-TTL sessions leave the pool with their rows.
CleanupExpired ==
  LET gone == {s \in DOMAIN sessions : Expired(s)}
  IN /\ sessions' = Without(sessions, gone)
     /\ rows' = Without(rows, gone)
     /\ NewRound
     /\ UNCHANGED <<nextId, rrIndex, held, rotations>>

\* delete_session raises for s: all expired sessions are marked, but only those
\* up to s have left the pool, and the row of s and the later ones stay.
CleanupFails(s) ==
  LET gone == {t \in DOMAIN sessions : Expired(t) /\ t <= s}
  IN /\ StoreDown
     /\ Expired(s)
     /\ sessions' = [t \in DOMAIN sessions \ gone |->
                       IF Expired(t) THEN [sessions[t] EXCEPT !.state = "expired"]
                       ELSE sessions[t]]
     /\ rows' = Without(rows, gone \ {s})
     /\ NewRound
     /\ UNCHANGED <<nextId, rrIndex, held, rotations>>

\* The sessions whose row health_check_all asks the store for.
Looked == {s \in InState("active") \cup InState("full") : ~Expired(s)}

\* health_check_all: only ACTIVE and FULL sessions are examined, and the
\* verdict is not persisted.  If the store raises for a session, those before
\* it have their verdict.
HealthCheckAll ==
  LET Checked(s) ==
        IF sessions[s].state \notin {"active", "full"} THEN sessions[s]
        ELSE IF Expired(s) THEN [sessions[s] EXCEPT !.state = "expired"]
        ELSE IF s \notin DOMAIN rows THEN [sessions[s] EXCEPT !.state = "error"]
        ELSE sessions[s]
  IN /\ \E end \in {nextId} \cup (IF StoreDown THEN Looked ELSE {}) :
          sessions' = [s \in DOMAIN sessions |->
                         IF s < end THEN Checked(s) ELSE sessions[s]]
     /\ NewRound
     /\ UNCHANGED <<nextId, rrIndex, rows, held, rotations>>

\* mark_error on a session of the pool.
MarkError(s) ==
  LET bad == [sessions[s] EXCEPT !.state = "error"]
  IN /\ sessions' = [sessions EXCEPT ![s] = bad]
     /\ rows' \in Persisted(rows, s, bad)
     /\ NewRound
     /\ UNCHANGED <<nextId, rrIndex, held, rotations>>

\* close persists every session (each save may fail on its own).
Close ==
  /\ \E saved \in (IF StoreDown THEN SUBSET DOMAIN sessions
                                   ELSE {DOMAIN sessions}) :
       rows' = [s \in DOMAIN rows \cup saved |->
                  IF s \in saved
                  THEN [state |-> sessions[s].state, msgs |-> sessions[s].msgs]
                  ELSE rows[s]]
  /\ UNCHANGED <<sessions, nextId, rrIndex, held, rotations, round>>

-----------------------------------------------------------------------------
(* The environment: the process, the clock and the store.                  *)

\* The process stops and a new SessionPool is constructed: it starts empty,
\* whatever the store still holds.
Restart ==
  /\ sessions' = [s \in {} |-> Fresh]
  /\ rrIndex' = 0
  /\ held' = [c \in Clients |-> NoSession]
  /\ rows' = IF Durable THEN rows ELSE [s \in {} |-> Fresh]
  /\ NewRound
  /\ UNCHANGED <<nextId, rotations>>

\* A row disappears from the store: its own expiry, the background refresh,
\* or DELETE /v1/sessions/{key}.
LoseRow(s) ==
  /\ rows' = Without(rows, {s})
  /\ UNCHANGED <<sessions, nextId, rrIndex, held, rotations, round>>

Tick ==
  /\ sessions' = [s \in DOMAIN sessions |->
                    [sessions[s] EXCEPT !.age = IF @ <= TTL THEN @ + 1 ELSE @]]
  /\ UNCHANGED <<nextId, rrIndex, rows, held, rotations, round>>

-----------------------------------------------------------------------------
Init ==
  /\ sessions = [s \in {} |-> Fresh]
  /\ nextId = 1
  /\ rrIndex = 0
  /\ rows = [s \in {} |-> Fresh]
  /\ held = [c \in Clients |-> NoSession]
  /\ rotations = 0
  /\ outages = 0
  /\ round = {}

Operation ==
  \/ \E c \in Clients :
       \/ AcquireActive(c)
       \/ AcquireCreate(c)
       \/ AcquireRotate(c)
       \/ AcquireExhausted(c)
       \/ Release(c)
  \/ \E s \in DOMAIN sessions : Rotate(s) \/ MarkError(s) \/ CleanupFails(s)
  \/ \E s \in DOMAIN rows : LoseRow(s)
  \/ CleanupExpired
  \/ HealthCheckAll
  \/ Close
  \/ Restart
  \/ Tick

\* The store works, or it is down for the whole operation.
Next ==
  /\ outages' \in {outages} \cup (IF outages < MaxOutages THEN {outages + 1} ELSE {})
  /\ Operation

Spec == Init /\ [][Next]_vars

-----------------------------------------------------------------------------
(* Properties                                                              *)

Lending == INSTANCE SessionLending
             WITH issued <- nextId - 1, usable <- Active, lent <- held,
                  None <- NoSession

\* The pool implements SessionLending: it lends only ACTIVE sessions, creates
\* one for a client only when none is ACTIVE, and no session that stopped
\* being ACTIVE (FULL, expired, failed, cleaned up, lost in a restart) is ever
\* lent again.
LendsOnlyUsable == Lending!Spec

\* The limit of messages per session is tested by release_session, not by
\* acquire_session: clients that borrowed the session before it became FULL
\* still finish.  However calls interleave, a session never serves (nor will
\* serve, once its holders are done) more than MaxMessages - 1 messages plus
\* one per client.
OvershootBound ==
  \A s \in DOMAIN sessions :
    sessions[s].msgs + Cardinality(Holders(s))
      <= MaxMessages - 1 + Cardinality(Clients)

\* acquire_session creates a session only when none is ACTIVE, so the pool
\* never offers more than one ACTIVE session beyond those that explicit
\* rotate_session calls added: there is nothing to round-robin over.
OneActiveSession == Cardinality(Active) <= 1 + rotations

\* An ACTIVE session is always under its message limit: lending one that is
\* already used up is impossible in any order of releases, rotations, health
\* checks and restarts.
ActiveUnderLimit == \A s \in Active : sessions[s].msgs < MaxMessages

\* The store mirrors the pool: the row of a pooled session has its message
\* count and its state, except that verdicts of health_check_all (EXPIRED,
\* ERROR) may be missing from it.
RowsMirrorPool ==
  outages = 0 =>
  \A s \in DOMAIN rows \cap DOMAIN sessions :
    /\ rows[s].msgs = sessions[s].msgs
    /\ \/ rows[s].state = sessions[s].state
       \/ sessions[s].state \in {"expired", "error"}

\* Round-robin is fair: as long as the set of ACTIVE sessions stays the same,
\* none of them is picked again before all the others were.
RoundRobinFair ==
  [][\A c \in Clients :
       held[c] = NoSession /\ held'[c] \in Active => held'[c] \notin round]_vars
=============================================================================
