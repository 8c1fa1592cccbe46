------------------------------ MODULE ChatProofs ------------------------------
(* Proofs about Chat: types, the books, the connections, the routes.        *)
EXTENDS Chat, FiniteSetTheorems, TLAPS

\* What a request has to its name before its reply, and after it.
InOrder(q) ==
  /\ q \in Request
  /\ q.at \notin {"commit", "done"} => q.reply = "none" /\ q.records = 0 /\ q.rows = 0
  /\ q.at = "commit" => q.reply = "none" /\ q.records = 1 /\ q.rows = 0
  /\ q.at \in {"new", "done"} => q.worker = Nobody
  /\ q.at \notin {"new", "done"} => q.worker \in Workers
  /\ q.reply \in {"merged", "bare", "unbilled"} => q.records = 1 /\ q.rows = 0
  /\ q.reply = "answer" => q.records = 1 /\ q.rows = 1
  /\ q.reply = "lost" => q.rows <= q.records
  /\ q.reply \in {"none", "unrouted", "stream", "error", "broken"} => q.rows = 0

Books == \A r \in Requests : InOrder(req[r])

\* As long as no edit left the file without a route, every worker has one.
RoutesLoaded ==
  ~badRules =>
    /\ file # Unreadable => Routable(file)
    /\ \A w \in Workers : Routable(rules[w])

RulesTyped ==
  /\ rules \in [Workers -> Contents]
  /\ file \in Contents \cup {Unreadable}
  /\ badRules \in BOOLEAN

-----------------------------------------------------------------------------
(* The connections.                                                        *)

ConnectionsTyped ==
  /\ rows \in Nat
  /\ turn \in [Workers -> Connection]
  /\ tx \in [Workers -> [Connection -> {NoTx, Begun} \cup Nat]]
  /\ writer \in Workers \cup {Nobody}
  /\ timeouts \in [Workers -> Nat]

\* Everything CostTracker does is one of these.
CostStep(w) ==
  \/ RecordSucceeds(w) \/ RecordStalls(w) \/ StallCommits(w) \/ StallFails(w)
  \/ RecordFails(w) \/ RecordTimesOut(w) \/ RecordRefused(w) \/ Read(w) \/ Dashboard(w)
  \/ \E committed \in BOOLEAN : RestartCost(w, committed)

LEMMA ConnectionsFinite == IsFiniteSet(Connection) /\ 1 \in Connection
  BY CostAssumption, FS_Interval DEF Connection

LEMMA NextTurn ==
  ASSUME NEW t \in Connection
  PROVE  /\ (t % PoolSize) + 1 \in Connection
         /\ ((t + 3) % PoolSize) + 1 \in Connection
  BY CostAssumption DEF Connection

\* The connection taken keeps its type whatever transaction it is left in.
LEMMA UseTyped ==
  ASSUME ConnectionsTyped, NEW w \in Workers, NEW s \in {NoTx, Begun} \cup Nat, Use(w, s)
  PROVE  /\ turn' \in [Workers -> Connection]
         /\ tx' \in [Workers -> [Connection -> {NoTx, Begun} \cup Nat]]
<1>1. turn[w] \in Connection
  BY DEF ConnectionsTyped
<1>2. (turn[w] % PoolSize) + 1 \in Connection
  BY <1>1, NextTurn
<1>3. turn' = [turn EXCEPT ![w] = (turn[w] % PoolSize) + 1]
  BY DEF Use
<1>4. turn' \in [Workers -> Connection]
  BY <1>2, <1>3 DEF ConnectionsTyped
<1>5. tx' = [tx EXCEPT ![w] = [tx[w] EXCEPT ![turn[w]] = s]]
  BY DEF Use
<1>6. [tx[w] EXCEPT ![turn[w]] = s] \in [Connection -> {NoTx, Begun} \cup Nat]
  BY DEF ConnectionsTyped
<1>7. tx' \in [Workers -> [Connection -> {NoTx, Begun} \cup Nat]]
  BY <1>5, <1>6 DEF ConnectionsTyped
<1> QED
  BY <1>4, <1>7

LEMMA CurrentTyped ==
  ASSUME ConnectionsTyped, NEW w \in Workers
  PROVE  Current(w) \in {NoTx, Begun} \cup Nat
  BY DEF ConnectionsTyped, Current

LEMMA CostStepTyped ==
  ASSUME ConnectionsTyped, NEW w \in Workers, CostStep(w)
  PROVE  ConnectionsTyped'
<1>0. Current(w) \in {NoTx, Begun} \cup Nat
  BY CurrentTyped
<1> USE DEF ConnectionsTyped
<1>1. CASE RecordSucceeds(w)
  BY <1>1, UseTyped DEF RecordSucceeds
<1>2. CASE RecordStalls(w)
  BY <1>2 DEF RecordStalls
<1>3. CASE StallCommits(w)
  BY <1>3, UseTyped DEF StallCommits
<1>4. CASE StallFails(w)
  BY <1>4, UseTyped DEF StallFails
<1>5. CASE RecordFails(w)
  BY <1>5, UseTyped DEF RecordFails
<1>6. CASE RecordTimesOut(w)
  <2> DEFINE s == IF Current(w) = NoTx THEN Begun ELSE Current(w)
  <2>1. s \in {NoTx, Begun} \cup Nat
    BY <1>0
  <2>2. Use(w, s)
    BY <1>6 DEF RecordTimesOut
  <2> QED
    BY <1>6, <2>1, <2>2, UseTyped DEF RecordTimesOut
<1>7. CASE RecordRefused(w)
  BY <1>7, <1>0, UseTyped DEF RecordRefused
<1>8. CASE Read(w)
  <2> DEFINE s == IF Current(w) = Begun THEN rows ELSE Current(w)
  <2>1. s \in {NoTx, Begun} \cup Nat
    BY <1>0
  <2>2. Use(w, s)
    BY <1>8 DEF Read
  <2> QED
    BY <1>8, <2>1, <2>2, UseTyped DEF Read
<1>9. CASE Dashboard(w)
  <2> DEFINE t == [c \in Connection |->
              IF tx[w][c] = Begun /\ (c - turn[w]) % PoolSize < 4 THEN rows ELSE tx[w][c]]
  <2>1. tx' = [tx EXCEPT ![w] = t]
    BY <1>9 DEF Dashboard
  <2>2. t \in [Connection -> {NoTx, Begun} \cup Nat]
    OBVIOUS
  <2>3. tx' \in [Workers -> [Connection -> {NoTx, Begun} \cup Nat]]
    BY <2>1, <2>2
  <2>4. ((turn[w] + 3) % PoolSize) + 1 \in Connection
    BY NextTurn
  <2>5. turn' = [turn EXCEPT ![w] = ((turn[w] + 3) % PoolSize) + 1]
    BY <1>9 DEF Dashboard
  <2>6. turn' \in [Workers -> Connection]
    BY <2>4, <2>5
  <2> QED
    BY <1>9, <2>3, <2>6 DEF Dashboard
<1>10. CASE \E committed \in BOOLEAN : RestartCost(w, committed)
  <2>1. PICK committed \in BOOLEAN : RestartCost(w, committed)
    BY <1>10
  <2>2. (1 % PoolSize) + 1 \in Connection
    BY ConnectionsFinite, NextTurn
  <2>3. turn' \in [Workers -> Connection]
    BY <2>1, <2>2 DEF RestartCost
  <2>4. [c \in Connection |-> NoTx] \in [Connection -> {NoTx, Begun} \cup Nat]
    OBVIOUS
  <2>5. tx' \in [Workers -> [Connection -> {NoTx, Begun} \cup Nat]]
    BY <2>1, <2>4 DEF RestartCost
  <2>6. timeouts' \in [Workers -> Nat]
    BY <2>1 DEF RestartCost
  <2>7. rows' \in Nat /\ writer' \in Workers \cup {Nobody}
    BY <2>1 DEF RestartCost
  <2> QED
    BY <2>3, <2>5, <2>6, <2>7
<1> QED
  BY <1>1, <1>2, <1>3, <1>4, <1>5, <1>6, <1>7, <1>8, <1>9, <1>10 DEF CostStep
\* Of the connections, only the one taken may change; of the workers, one.
LEMMA OthersKept ==
  ASSUME ConnectionsTyped, NEW w \in Workers, NEW s \in {NoTx, Begun} \cup Nat, Use(w, s)
  PROVE  /\ \A v \in Workers \ {w} : Open(v)' = Open(v)
         /\ Open(w)' \subseteq Open(w) \cup {turn[w]}
         /\ Current(w) # NoTx \/ s = NoTx => Open(w)' \subseteq Open(w)
<1>1. tx' = [tx EXCEPT ![w] = [tx[w] EXCEPT ![turn[w]] = s]]
  BY DEF Use
<1>2. \A v \in Workers \ {w} : tx'[v] = tx[v]
  BY <1>1 DEF ConnectionsTyped
<1>3. \A c \in Connection : tx'[w][c] = IF c = turn[w] THEN s ELSE tx[w][c]
  BY <1>1 DEF ConnectionsTyped
<1> QED
  BY <1>2, <1>3 DEF Open, Current, ConnectionsTyped

\* Fewer open connections, and as many timeouts: the bound is kept.
LEMMA NotMoreOpen ==
  ASSUME ConnectionsTyped, ConnectionsTyped', PoisonBounded,
         \A w \in Workers : Open(w)' \subseteq Open(w),
         timeouts' = timeouts
  PROVE  PoisonBounded'
<1> SUFFICES ASSUME NEW w \in Workers PROVE Cardinality(Open(w)') <= timeouts'[w]
  BY DEF PoisonBounded
<1>1. IsFiniteSet(Open(w))
  BY ConnectionsFinite, FS_Subset DEF Open
<1>2. Cardinality(Open(w)') <= Cardinality(Open(w)) /\ IsFiniteSet(Open(w)')
  BY <1>1, FS_Subset
<1>3. Cardinality(Open(w)') \in Nat /\ Cardinality(Open(w)) \in Nat
  BY <1>1, <1>2, FS_CardinalityType
<1> QED
  BY <1>2, <1>3 DEF PoisonBounded, ConnectionsTyped

LEMMA CostStepBounded ==
  ASSUME ConnectionsTyped, PoisonBounded, NEW w \in Workers, CostStep(w)
  PROVE  PoisonBounded'
<1>0. ConnectionsTyped'
  BY CostStepTyped
<1>c. Current(w) \in {NoTx, Begun} \cup Nat
  BY CurrentTyped
<1>d. NoTx \notin Nat /\ Begun \notin Nat /\ NoTx # Begun /\ rows \in Nat
  BY DEF NoTx, Begun, ConnectionsTyped
<1>u. ASSUME NEW s \in {NoTx, Begun} \cup Nat, Use(w, s), Current(w) # NoTx \/ s = NoTx
      PROVE  \A v \in Workers : Open(v)' \subseteq Open(v)
  BY <1>u, OthersKept
<1>1. CASE RecordSucceeds(w) \/ StallCommits(w) \/ StallFails(w) \/ RecordFails(w)
  <2>1. Use(w, NoTx) /\ timeouts' = timeouts
    BY <1>1 DEF RecordSucceeds, StallCommits, StallFails, RecordFails
  <2>2. \A v \in Workers : Open(v)' \subseteq Open(v)
    BY <2>1, <1>u
  <2> QED
    BY <2>1, <2>2, <1>0, NotMoreOpen
<1>2. CASE RecordStalls(w)
  <2>1. \A v \in Workers : Open(v)' \subseteq Open(v)
    BY <1>2 DEF RecordStalls, Open
  <2>2. timeouts' = timeouts
    BY <1>2 DEF RecordStalls
  <2> QED
    BY <2>1, <2>2, <1>0, NotMoreOpen
<1>3. CASE RecordRefused(w) \/ Read(w)
  <2>1. \E s \in {NoTx, Begun} \cup Nat : Use(w, s) /\ (Current(w) # NoTx \/ s = NoTx)
    <3>1. CASE RecordRefused(w)
      BY <3>1, <1>c DEF RecordRefused
    <3>2. CASE Read(w) /\ Current(w) = Begun
      <4>1. Use(w, rows)
        BY <3>2 DEF Read
      <4> QED
        BY <4>1, <3>2, <1>d
    <3>3. CASE Read(w) /\ Current(w) # Begun
      <4>1. Use(w, Current(w))
        BY <3>3 DEF Read
      <4> QED
        BY <4>1, <1>c
    <3> QED
      BY <1>3, <3>1, <3>2, <3>3
  <2>2. \A v \in Workers : Open(v)' \subseteq Open(v)
    BY <2>1, <1>u
  <2>3. timeouts' = timeouts
    BY <1>3 DEF RecordRefused, Read
  <2> QED
    BY <2>2, <2>3, <1>0, NotMoreOpen
<1>4. CASE Dashboard(w)
  <2>1. \A c \in Connection : tx'[w][c] # NoTx => tx[w][c] # NoTx
    BY <1>4, <1>d DEF Dashboard, ConnectionsTyped
  <2>2. \A v \in Workers \ {w} : tx'[v] = tx[v]
    BY <1>4 DEF Dashboard, ConnectionsTyped
  <2>3. \A v \in Workers : Open(v)' \subseteq Open(v)
    BY <2>1, <2>2 DEF Open
  <2>4. timeouts' = timeouts
    BY <1>4 DEF Dashboard
  <2> QED
    BY <2>3, <2>4, <1>0, NotMoreOpen
<1>5. CASE RecordTimesOut(w)
  <2> DEFINE s == IF Current(w) = NoTx THEN Begun ELSE Current(w)
  <2>1. s \in {NoTx, Begun} \cup Nat /\ Use(w, s)
    BY <1>5, <1>c DEF RecordTimesOut
  <2>2. /\ \A v \in Workers \ {w} : Open(v)' = Open(v)
        /\ Open(w)' \subseteq Open(w) \cup {turn[w]}
    BY <2>1, OthersKept
  <2>3. timeouts' = [timeouts EXCEPT ![w] = timeouts[w] + 1]
    BY <1>5 DEF RecordTimesOut
  <2>4. IsFiniteSet(Open(w)) /\ IsFiniteSet(Open(w) \cup {turn[w]})
    BY ConnectionsFinite, FS_Subset, FS_AddElement DEF Open
  <2>5. Cardinality(Open(w) \cup {turn[w]}) <= Cardinality(Open(w)) + 1
    <3>1. Cardinality(Open(w)) \in Nat
      BY <2>4, FS_CardinalityType
    <3>2. Cardinality(Open(w) \cup {turn[w]}) =
            IF turn[w] \in Open(w) THEN Cardinality(Open(w)) ELSE Cardinality(Open(w)) + 1
      BY <2>4, FS_AddElement
    <3> QED
      BY <3>1, <3>2
  <2>6. Cardinality(Open(w)') <= Cardinality(Open(w) \cup {turn[w]}) /\ IsFiniteSet(Open(w)')
    BY <2>2, <2>4, FS_Subset
  <2>7. /\ Cardinality(Open(w)') \in Nat /\ Cardinality(Open(w)) \in Nat
        /\ Cardinality(Open(w) \cup {turn[w]}) \in Nat
    BY <2>4, <2>6, FS_CardinalityType
  <2>8. Cardinality(Open(w)') <= timeouts'[w]
    BY <2>3, <2>5, <2>6, <2>7 DEF PoisonBounded, ConnectionsTyped
  <2>9. \A v \in Workers \ {w} : Cardinality(Open(v)') <= timeouts'[v]
    BY <2>2, <2>3 DEF PoisonBounded, ConnectionsTyped
  <2> QED
    BY <2>8, <2>9 DEF PoisonBounded
<1>6. CASE \E committed \in BOOLEAN : RestartCost(w, committed)
  <2>1. /\ tx' = [tx EXCEPT ![w] = [c \in Connection |-> NoTx]]
        /\ timeouts' = [timeouts EXCEPT ![w] = 0]
    BY <1>6 DEF RestartCost
  <2>2. Open(w)' = {} /\ timeouts'[w] = 0
    BY <2>1 DEF Open, ConnectionsTyped
  <2>3. Cardinality(Open(w)') = 0
    BY <2>2, FS_EmptySet
  <2>4. \A v \in Workers \ {w} : Open(v)' = Open(v) /\ timeouts'[v] = timeouts[v]
    BY <2>1 DEF Open, ConnectionsTyped
  <2> QED
    BY <2>2, <2>3, <2>4 DEF PoisonBounded
<1> QED
  BY <1>1, <1>2, <1>3, <1>4, <1>5, <1>6 DEF CostStep

\* Every step of the endpoint is a step of one worker's tracker, or none.
LEMMA NextCost ==
  ASSUME Books, Next
  PROVE  (\E w \in Workers : CostStep(w)) \/ UNCHANGED costVars
<1>1. CASE \E r \in Requests, w \in Workers : Arrive(r, w)
  BY <1>1 DEF Arrive
<1>2. CASE \E r \in Requests : SplitEnds(r) \/ ExecuteEnds(r) \/ AggregateEnds(r)
  BY <1>2 DEF SplitEnds, ExecuteEnds, AggregateEnds
<1>3. CASE \E r \in Requests : StreamEnds(r) \/ ChainRaises(r) \/ ChainAnswersBare(r)
  BY <1>3 DEF StreamEnds, ChainRaises, ChainAnswersBare
<1>4. CASE \E r \in Requests : ChainAnswers(r) \/ StallEnds(r)
  <2>1. PICK r \in Requests : ChainAnswers(r) \/ StallEnds(r)
    BY <1>4
  <2>2. CostStep(req[r].worker)
    BY <2>1 DEF ChainAnswers, StallEnds, CostStep
  <2>3. req[r].worker \in Workers
    <3>1. req[r].at \notin {"new", "done"}
      BY <2>1 DEF ChainAnswers, StallEnds, At
    <3>2. InOrder(req[r])
      BY DEF Books
    <3> QED
      BY <3>1, <3>2 DEF InOrder, Request
  <2> QED
    BY <2>2, <2>3
<1>5. CASE \E w \in Workers : ReloadRules(w) \/ Report(w) \/ Restart(w)
  BY <1>5 DEF ReloadRules, Report, Restart, CostStep
<1>6. CASE EditRules
  BY <1>6 DEF EditRules
<1> QED
  BY <1>1, <1>2, <1>3, <1>4, <1>5, <1>6 DEF Next, Proceeds

-----------------------------------------------------------------------------
(* The requests.                                                           *)

LEMMA BooksAccounted == Books => Accounted
  BY DEF Books, InOrder, Accounted, Request, Reply

LEMMA MovesInOrder ==
  ASSUME NEW q, InOrder(q), NEW w \in Workers,
         NEW place \in Place \ {"new", "commit", "done"}
  PROVE  /\ q.at = "new" => InOrder([q EXCEPT !.at = place, !.worker = w])
         /\ q.at \notin {"new", "commit", "done"} => InOrder([q EXCEPT !.at = place])
         /\ q.at = "chain" => InOrder([q EXCEPT !.at = "commit", !.records = @ + 1])
<1>1. q \in Request /\ w # Nobody /\ "commit" \in Place
  BY CostAssumption DEF InOrder, Place
<1>2. ASSUME q.at = "new"
      PROVE  InOrder([q EXCEPT !.at = place, !.worker = w])
  BY <1>1, <1>2 DEF InOrder, Request, Place
<1>3. ASSUME q.at \notin {"new", "commit", "done"}
      PROVE  InOrder([q EXCEPT !.at = place])
  BY <1>1, <1>3 DEF InOrder, Request, Place
<1>4. ASSUME q.at = "chain"
      PROVE  InOrder([q EXCEPT !.at = "commit", !.records = @ + 1])
  <2> DEFINE p == [q EXCEPT !.at = "commit", !.records = @ + 1]
  <2>1. p \in Request
    <3>1. q \in Request /\ q.records + 1 \in Nat
      BY <1>1 DEF Request
    <3>2. p = [q EXCEPT !.at = "commit", !.records = q.records + 1]
      BY <3>1 DEF Request
    <3> QED
      BY <1>1, <3>1, <3>2 DEF Request
  <2>2. /\ p.at = "commit" /\ p.worker = q.worker /\ p.records = q.records + 1
        /\ p.rows = q.rows /\ p.reply = q.reply
    BY <1>1 DEF Request
  <2>3. InOrder(q)
    OBVIOUS
  <2> HIDE DEF p
  <2>4. InOrder(p)
    BY <1>4, <2>1, <2>2, <2>3 DEF InOrder
  <2> QED
    BY <2>4 DEF p
<1> QED
  BY <1>2, <1>3, <1>4

LEMMA RepliesInOrder ==
  ASSUME NEW q, InOrder(q)
  PROVE  /\ q.at \in Place \ {"commit", "done"} =>
              /\ \A reply \in {"unrouted", "stream", "error", "broken"} : InOrder(Replied(q, reply, 0, 0))
              /\ \A reply \in {"merged", "bare", "unbilled"} :
                   InOrder(Replied(q, reply, 1, 0))
              /\ InOrder(Replied(q, "answer", 1, 1))
         /\ q.at = "commit" =>
              /\ InOrder(Replied(q, "answer", 0, 1))
              /\ InOrder(Replied(q, "unbilled", 0, 0))
<1>1. q \in Request
  BY DEF InOrder
<1>2. "done" \in Place /\ q.records \in Nat /\ q.rows \in Nat
  BY <1>1 DEF Request, Place
<1>3. ASSUME q.at \in Place \ {"commit", "done"}
      PROVE  /\ \A reply \in {"unrouted", "stream", "error", "broken"} : InOrder(Replied(q, reply, 0, 0))
             /\ \A reply \in {"merged", "bare", "unbilled"} :
                  InOrder(Replied(q, reply, 1, 0))
             /\ InOrder(Replied(q, "answer", 1, 1))
  <2>1. q.records = 0 /\ q.rows = 0
    BY <1>3 DEF InOrder
  <2>2. \A reply \in {"unrouted", "stream", "error", "broken"} : InOrder(Replied(q, reply, 0, 0))
    BY <2>1, <1>2 DEF InOrder, Replied, Request, Reply
  <2>3. \A reply \in {"merged", "bare", "unbilled"} : InOrder(Replied(q, reply, 1, 0))
    BY <2>1, <1>2 DEF InOrder, Replied, Request, Reply
  <2>4. InOrder(Replied(q, "answer", 1, 1))
    BY <2>1, <1>2 DEF InOrder, Replied, Request, Reply
  <2> QED
    BY <2>2, <2>3, <2>4
<1>4. ASSUME q.at = "commit"
      PROVE  InOrder(Replied(q, "answer", 0, 1)) /\ InOrder(Replied(q, "unbilled", 0, 0))
  <2>1. q.records = 1 /\ q.rows = 0
    BY <1>4 DEF InOrder
  <2> QED
    BY <2>1, <1>2 DEF InOrder, Replied, Request, Reply
<1> QED
  BY <1>3, <1>4

\* A step of one request leaves the books of the others.
LEMMA OneChanges ==
  ASSUME Books, NEW r \in Requests, req \in [Requests -> Request], NEW q, InOrder(q),
         req' = [req EXCEPT ![r] = q]
  PROVE  req' \in [Requests -> Request] /\ Books'
<1>1. q \in Request
  BY DEF InOrder
<1>2. req' \in [Requests -> Request]
  BY <1>1
<1>3. \A s \in Requests : req'[s] = IF s = r THEN q ELSE req[s]
  OBVIOUS
<1> QED
  BY <1>2, <1>3 DEF Books

\* The same for a reply.
LEMMA OneReplies ==
  ASSUME Books, NEW r \in Requests, req \in [Requests -> Request], NEW reply, NEW n, NEW m,
         Replies(r, reply, n, m), InOrder(Replied(req[r], reply, n, m))
  PROVE  req' \in [Requests -> Request] /\ Books'
<1>1. req' = [req EXCEPT ![r] = Replied(req[r], reply, n, m)]
  BY DEF Replies
<1> QED
  BY <1>1, OneChanges

\* The end of a worker loses its requests; at most the one in the commit has
\* been billed.
LEMMA LostInOrder ==
  ASSUME NEW q, InOrder(q), q.at \notin {"new", "done"}, NEW m \in 0 .. 1,
         m = 1 => q.at = "commit"
  PROVE  InOrder(Replied(q, "lost", 0, m))
<1>1. q \in Request
  BY DEF InOrder
<1>2. q.rows = 0 /\ (q.at = "commit" => q.records = 1) /\ q.records \in Nat
  BY <1>1 DEF InOrder, Request, Place
<1> QED
  BY <1>1, <1>2 DEF InOrder, Replied, Request, Place, Reply

LEMMA RestartKeepsBooks ==
  ASSUME Books, req \in [Requests -> Request], NEW w \in Workers, Restart(w)
  PROVE  req' \in [Requests -> Request] /\ Books'
<1>1. PICK committed \in BOOLEAN :
        req' = [r \in Requests |->
                    IF req[r].worker # w THEN req[r]
                    ELSE Replied(req[r], "lost", 0,
                                 IF committed /\ req[r].at = "commit" THEN 1 ELSE 0)]
  BY DEF Restart
<1>2. ASSUME NEW r \in Requests
      PROVE  InOrder(req'[r])
  <2>1. CASE req[r].worker # w
    BY <1>1, <2>1 DEF Books
  <2>2. CASE req[r].worker = w
    <3> DEFINE m == IF committed /\ req[r].at = "commit" THEN 1 ELSE 0
    <3>1. InOrder(req[r]) /\ req[r].at \notin {"new", "done"}
      BY <2>2, CostAssumption DEF Books, InOrder
    <3>2. req'[r] = Replied(req[r], "lost", 0, m)
      BY <1>1, <2>2
    <3>3. m \in 0 .. 1 /\ (m = 1 => req[r].at = "commit")
      OBVIOUS
    <3> HIDE DEF m
    <3> QED
      BY <3>1, <3>2, <3>3, LostInOrder
  <2> QED
    BY <2>1, <2>2
<1>3. req' \in [Requests -> Request]
  BY <1>1, <1>2 DEF InOrder
<1> QED
  BY <1>2, <1>3 DEF Books

LEMMA NextKeepsBooks ==
  ASSUME Books, req \in [Requests -> Request], Next
  PROVE  req' \in [Requests -> Request] /\ Books'
<1>0. \A r \in Requests : InOrder(req[r]) /\ req[r] \in Request
  BY DEF Books
<1>1. ASSUME NEW r \in Requests, NEW w \in Workers, Arrive(r, w)
      PROVE  req' \in [Requests -> Request] /\ Books'
  <2>1. req[r].at = "new" /\ req[r].at \in Place \ {"commit", "done"}
    BY <1>1 DEF Arrive, Place
  <2>2. CASE Routable(rules[w])
    <3>1. PICK place \in {"split", "chain", "stream"} :
            req' = [req EXCEPT ![r].at = place, ![r].worker = w]
      BY <1>1, <2>2 DEF Arrive
    <3>2. req' = [req EXCEPT ![r] = [req[r] EXCEPT !.at = place, !.worker = w]]
      BY <3>1, <1>0 DEF Request
    <3>3. InOrder([req[r] EXCEPT !.at = place, !.worker = w])
      BY <2>1, <1>0, MovesInOrder DEF Place
    <3> QED
      BY <3>2, <3>3, OneChanges
  <2>3. CASE ~Routable(rules[w])
    <3>1. Replies(r, "unrouted", 0, 0)
      BY <1>1, <2>3 DEF Arrive
    <3>2. InOrder(Replied(req[r], "unrouted", 0, 0))
      BY <2>1, <1>0, RepliesInOrder
    <3> QED
      BY <3>1, <3>2, OneReplies
  <2> QED
    BY <2>2, <2>3
<1>2. ASSUME NEW r \in Requests, NEW place \in Place \ {"new", "commit", "done"},
             Goes(r, place), req[r].at \notin {"new", "commit", "done"}
      PROVE  req' \in [Requests -> Request] /\ Books'
  <2>1. req[r].worker \in Workers
    BY <1>0, <1>2 DEF InOrder, Request
  <2>2. InOrder([req[r] EXCEPT !.at = place])
    BY <2>1, <1>0, <1>2, MovesInOrder
  <2>3. req' = [req EXCEPT ![r] = [req[r] EXCEPT !.at = place]]
    BY <1>0, <1>2 DEF Goes, Request
  <2> QED
    BY <2>2, <2>3, OneChanges
<1>3. ASSUME NEW r \in Requests, SplitEnds(r) \/ ExecuteEnds(r)
      PROVE  req' \in [Requests -> Request] /\ Books'
  <2>1. \E place \in {"execute", "aggregate", "chain"} : Goes(r, place)
    BY <1>3 DEF SplitEnds, ExecuteEnds
  <2>2. req[r].at \notin {"new", "commit", "done"}
    BY <1>3 DEF SplitEnds, ExecuteEnds, At
  <2> QED
    BY <2>1, <2>2, <1>2 DEF Place
<1>4. ASSUME NEW r \in Requests,
             AggregateEnds(r) \/ StreamEnds(r) \/ ChainRaises(r) \/ ChainAnswersBare(r)
      PROVE  req' \in [Requests -> Request] /\ Books'
  <2>1. req[r].at \notin {"new", "commit", "done"} /\ req[r].at \in Place \ {"commit", "done"}
    BY <1>4 DEF AggregateEnds, StreamEnds, ChainRaises, ChainAnswersBare, At, Place
  <2>2. \/ Goes(r, "chain")
        \/ \E reply \in {"stream", "error", "broken"} : Replies(r, reply, 0, 0)
        \/ \E reply \in {"merged", "bare"} : Replies(r, reply, 1, 0)
    BY <1>4 DEF AggregateEnds, StreamEnds, ChainRaises, ChainAnswersBare
  <2>3. CASE Goes(r, "chain")
    BY <2>1, <2>3, <1>2 DEF Place
  <2>4. CASE \E reply \in {"stream", "error", "broken"} : Replies(r, reply, 0, 0)
    BY <2>1, <2>4, <1>0, RepliesInOrder, OneReplies
  <2>5. CASE \E reply \in {"merged", "bare"} : Replies(r, reply, 1, 0)
    BY <2>1, <2>5, <1>0, RepliesInOrder, OneReplies
  <2> QED
    BY <2>2, <2>3, <2>4, <2>5
<1>5. ASSUME NEW r \in Requests, ChainAnswers(r)
      PROVE  req' \in [Requests -> Request] /\ Books'
  <2>1. req[r].at = "chain" /\ req[r].at \in Place \ {"commit", "done"}
    BY <1>5 DEF ChainAnswers, At, Place
  <2>2. \/ Replies(r, "answer", 1, 1) \/ Replies(r, "unbilled", 1, 0)
        \/ req' = [req EXCEPT ![r].at = "commit", ![r].records = @ + 1]
    BY <1>5 DEF ChainAnswers
  <2>3. CASE Replies(r, "answer", 1, 1) \/ Replies(r, "unbilled", 1, 0)
    BY <2>1, <2>3, <1>0, RepliesInOrder, OneReplies
  <2>4. CASE req' = [req EXCEPT ![r].at = "commit", ![r].records = @ + 1]
    <3>1. req' = [req EXCEPT ![r] = [req[r] EXCEPT !.at = "commit", !.records = @ + 1]]
      BY <2>4, <1>0 DEF Request
    <3>2. req[r].worker \in Workers
      BY <1>0, <2>1 DEF InOrder, Request
    <3>3. InOrder([req[r] EXCEPT !.at = "commit", !.records = @ + 1])
      BY <2>1, <3>2, <1>0, MovesInOrder DEF Place
    <3> QED
      BY <3>1, <3>3, OneChanges
  <2> QED
    BY <2>2, <2>3, <2>4
<1>6. ASSUME NEW r \in Requests, StallEnds(r)
      PROVE  req' \in [Requests -> Request] /\ Books'
  <2>1. req[r].at = "commit"
    BY <1>6 DEF StallEnds
  <2>2. Replies(r, "answer", 0, 1) \/ Replies(r, "unbilled", 0, 0)
    BY <1>6 DEF StallEnds
  <2> QED
    BY <2>1, <2>2, <1>0, RepliesInOrder, OneReplies
<1>7. ASSUME NEW w \in Workers, ReloadRules(w) \/ Report(w)
      PROVE  req' \in [Requests -> Request] /\ Books'
  BY <1>7 DEF ReloadRules, Report, Books
<1>8. CASE EditRules
  BY <1>8 DEF EditRules, Books
<1> QED
  BY <1>1, <1>3, <1>4, <1>5, <1>6, <1>7, <1>8, RestartKeepsBooks DEF Next, Proceeds

-----------------------------------------------------------------------------
(* The routes.                                                             *)

LEMMA LoadKeepsRoutes ==
  ASSUME RulesTyped, RoutesLoaded, NEW w \in Workers, file # Unreadable,
         rules' = [rules EXCEPT ![w] = file],
         UNCHANGED <<file, badRules>>
  PROVE  RulesTyped' /\ RoutesLoaded'
<1>1. RulesTyped'
  BY DEF RulesTyped
<1>2. \A v \in Workers :
        rules'[v] = IF v = w THEN file ELSE rules[v]
  BY DEF RulesTyped
<1>3. ASSUME NEW v \in Workers, ~badRules
      PROVE  Routable(rules'[v])
  BY <1>2, <1>3 DEF RoutesLoaded
<1>4. Routable(file) <=> Routable(file')
  OBVIOUS
<1> QED
  BY <1>1, <1>3, <1>4 DEF RoutesLoaded

\* Who has no route has been refused one on arrival.
LEMMA NoOtherUnrouted ==
  ASSUME req \in [Requests -> Request], NEW r \in Requests, Proceeds(r)
  PROVE  \A s \in Requests : req'[s].reply = "unrouted" => req[s].reply = "unrouted"
<1>1. \/ \E place \in Place : Goes(r, place)
      \/ req' = [req EXCEPT ![r].at = "commit", ![r].records = @ + 1]
      \/ \E reply \in Reply \ {"unrouted"}, n \in 0 .. 1, m \in 0 .. 1 : Replies(r, reply, n, m)
  <2>1. CASE SplitEnds(r) \/ ExecuteEnds(r)
    BY <2>1 DEF SplitEnds, ExecuteEnds, Place
  <2>2. CASE AggregateEnds(r)
    BY <2>2 DEF AggregateEnds, Place, Reply
  <2>3. CASE StreamEnds(r) \/ ChainRaises(r) \/ ChainAnswersBare(r)
    BY <2>3 DEF StreamEnds, ChainRaises, ChainAnswersBare, Reply
  <2>4. CASE ChainAnswers(r)
    <3>1. \/ Replies(r, "answer", 1, 1) \/ Replies(r, "unbilled", 1, 0)
          \/ req' = [req EXCEPT ![r].at = "commit", ![r].records = @ + 1]
      BY <2>4 DEF ChainAnswers
    <3> QED
      BY <3>1 DEF Reply
  <2>5. CASE StallEnds(r)
    <3>1. Replies(r, "answer", 0, 1) \/ Replies(r, "unbilled", 0, 0)
      BY <2>5 DEF StallEnds
    <3> QED
      BY <3>1 DEF Reply
  <2> QED
    BY <2>1, <2>2, <2>3, <2>4, <2>5 DEF Proceeds
<1>2. CASE \E place \in Place : Goes(r, place)
  BY <1>2 DEF Goes, Request
<1>3. CASE req' = [req EXCEPT ![r].at = "commit", ![r].records = @ + 1]
  BY <1>3 DEF Request
<1>4. CASE \E reply \in Reply \ {"unrouted"}, n \in 0 .. 1, m \in 0 .. 1 : Replies(r, reply, n, m)
  BY <1>4 DEF Replies, Replied
<1> QED
  BY <1>1, <1>2, <1>3, <1>4

LEMMA NextKeepsRoutes ==
  ASSUME RulesTyped, RoutesLoaded, RoutesKept, req \in [Requests -> Request], Next
  PROVE  RulesTyped' /\ RoutesLoaded' /\ RoutesKept'
<1>1. ASSUME UNCHANGED <<routerVars, badRules>>
      PROVE  RulesTyped' /\ RoutesLoaded'
  <2>1. RulesTyped'
    BY <1>1 DEF RulesTyped, routerVars
  <2>2. RoutesLoaded'
    BY <1>1 DEF RoutesLoaded, routerVars
  <2> QED
    BY <2>1, <2>2
<1>2. ASSUME badRules' = badRules,
             \A s \in Requests : req'[s].reply = "unrouted" => req[s].reply = "unrouted"
      PROVE  RoutesKept'
  BY <1>2 DEF RoutesKept
<1>3. ASSUME NEW r \in Requests, NEW w \in Workers, Arrive(r, w)
      PROVE  RulesTyped' /\ RoutesLoaded' /\ RoutesKept'
  <2>1. UNCHANGED <<routerVars, badRules>>
    BY <1>3 DEF Arrive
  <2>2. CASE Routable(rules[w])
    <3>1. PICK place \in {"split", "chain", "stream"} :
            req' = [req EXCEPT ![r].at = place, ![r].worker = w]
      BY <1>3, <2>2 DEF Arrive
    <3>2. \A s \in Requests : req'[s].reply = req[s].reply
      BY <3>1 DEF Request
    <3> QED
      BY <2>1, <3>2, <1>1, <1>2
  <2>3. CASE ~Routable(rules[w])
    <3>1. badRules /\ badRules'
      BY <2>1, <2>3 DEF RoutesLoaded, RulesTyped
    <3> QED
      BY <2>1, <3>1, <1>1 DEF RoutesKept
  <2> QED
    BY <2>2, <2>3
<1>4. ASSUME NEW r \in Requests, Proceeds(r)
      PROVE  RulesTyped' /\ RoutesLoaded' /\ RoutesKept'
  <2>1. UNCHANGED <<routerVars, badRules>>
    BY <1>4 DEF Proceeds, SplitEnds, ExecuteEnds, AggregateEnds, StreamEnds, ChainRaises,
                ChainAnswersBare, ChainAnswers, StallEnds
  <2> QED
    BY <2>1, <1>1, <1>2, <1>4, NoOtherUnrouted
<1>5. ASSUME NEW w \in Workers, ReloadRules(w)
      PROVE  RulesTyped' /\ RoutesLoaded' /\ RoutesKept'
  BY <1>5, <1>2, LoadKeepsRoutes DEF ReloadRules, Reload
<1>6. ASSUME NEW w \in Workers, Report(w)
      PROVE  RulesTyped' /\ RoutesLoaded' /\ RoutesKept'
  BY <1>6, <1>1, <1>2 DEF Report
<1>7. ASSUME NEW w \in Workers, Restart(w)
      PROVE  RulesTyped' /\ RoutesLoaded' /\ RoutesKept'
  <2>1. RulesTyped' /\ RoutesLoaded' /\ badRules' = badRules
    BY <1>7, LoadKeepsRoutes DEF Restart, RestartRouter
  <2>2. PICK committed \in BOOLEAN :
          req' = [r \in Requests |->
                    IF req[r].worker # w THEN req[r]
                    ELSE Replied(req[r], "lost", 0,
                                 IF committed /\ req[r].at = "commit" THEN 1 ELSE 0)]
    BY <1>7 DEF Restart
  <2>3. \A s \in Requests : req'[s].reply = "unrouted" => req[s].reply = "unrouted"
    BY <2>2 DEF Replied
  <2> QED
    BY <2>1, <2>3, <1>2
<1>8. CASE EditRules
  <2>1. RulesTyped'
    BY <1>8 DEF EditRules, Edit, RulesTyped
  <2>2. UNCHANGED <<rules, req>> /\ badRules' = (badRules \/ (file' # Unreadable /\ ~Routable(file')))
    BY <1>8 DEF EditRules, Edit
  <2>3. RoutesLoaded'
    BY <2>2 DEF RoutesLoaded
  <2>4. RoutesKept'
    BY <2>2 DEF RoutesKept
  <2> QED
    BY <2>1, <2>3, <2>4
<1> QED
  BY <1>3, <1>4, <1>5, <1>6, <1>7, <1>8 DEF Next

-----------------------------------------------------------------------------
(* The theorems.                                                           *)

IInv ==
  /\ ConnectionsTyped /\ PoisonBounded
  /\ req \in [Requests -> Request] /\ Books
  /\ RulesTyped /\ RoutesLoaded /\ RoutesKept

LEMMA InitIInv == Init => IInv
<1> SUFFICES ASSUME Init PROVE IInv
  OBVIOUS
<1>1. ConnectionsTyped
  BY ConnectionsFinite, NextTurn DEF Init, CostInit, ConnectionsTyped
<1>2. PoisonBounded
  <2>1. \A w \in Workers : Open(w) = {} /\ timeouts[w] = 0
    BY DEF Init, CostInit, Open
  <2> QED
    BY <2>1, FS_EmptySet DEF PoisonBounded
<1>3. req \in [Requests -> Request] /\ Books
  BY DEF Init, NewRequest, Request, Place, Reply, Books, InOrder
<1>4. RulesTyped /\ RoutesLoaded
  <2>1. file \in Contents /\ Routable(file) /\ badRules = FALSE
    BY DEF Init, RouterInit
  <2>2. \A w \in Workers : rules[w] = file
    BY DEF Init, RouterInit
  <2>3. rules \in [Workers -> Contents]
    BY <2>1 DEF Init, RouterInit
  <2>4. RulesTyped
    BY <2>1, <2>3 DEF RulesTyped
  <2> QED
    BY <2>1, <2>2, <2>4 DEF RoutesLoaded
<1>5. RoutesKept
  BY DEF Init, NewRequest, RoutesKept
<1> QED
  BY <1>1, <1>2, <1>3, <1>4, <1>5 DEF IInv

LEMMA StepIInv == IInv /\ [Next]_vars => IInv'
<1> SUFFICES ASSUME IInv, [Next]_vars PROVE IInv'
  OBVIOUS
<1>1. CASE Next
  <2>1. (\E w \in Workers : CostStep(w)) \/ UNCHANGED costVars
    BY <1>1, NextCost DEF IInv
  <2>2. ConnectionsTyped' /\ PoisonBounded'
    <3>1. CASE \E w \in Workers : CostStep(w)
      BY <3>1, CostStepTyped, CostStepBounded DEF IInv
    <3>2. CASE UNCHANGED costVars
      BY <3>2 DEF IInv, costVars, ConnectionsTyped, PoisonBounded, Open
    <3> QED
      BY <2>1, <3>1, <3>2
  <2>3. req' \in [Requests -> Request] /\ Books'
    BY <1>1, NextKeepsBooks DEF IInv
  <2>4. RulesTyped' /\ RoutesLoaded' /\ RoutesKept'
    BY <1>1, NextKeepsRoutes DEF IInv
  <2> QED
    BY <2>2, <2>3, <2>4 DEF IInv
<1>2. CASE UNCHANGED vars
  <2> USE <1>2 DEF vars, routerVars, costVars
  <2>1. ConnectionsTyped' /\ PoisonBounded'
    BY DEF IInv, ConnectionsTyped, PoisonBounded, Open
  <2>2. req' \in [Requests -> Request] /\ Books'
    BY DEF IInv, Books
  <2>3. RulesTyped' /\ RoutesLoaded' /\ RoutesKept'
    BY DEF IInv, RulesTyped, RoutesLoaded, RoutesKept
  <2> QED
    BY <2>1, <2>2, <2>3 DEF IInv
<1> QED
  BY <1>1, <1>2

LEMMA AlwaysIInv == Spec => []IInv
  BY InitIInv, StepIInv, PTL DEF Spec

\* The requests and the state of the usage database stay well typed
\* (chat_completions, CostTracker).
THEOREM TypeCorrect == Spec => []TypeOK
<1>1. IInv => TypeOK
  BY DEF IInv, ConnectionsTyped, TypeOK
<1> QED
  BY <1>1, AlwaysIInv, PTL

\* For any workers, requests, rules and pool, the records and rows of a request
\* agree with its reply, whatever SQLite does and whenever a worker ends
\* (chat_completions).
THEOREM BooksAgree == Spec => []Accounted
<1>1. IInv => Accounted
  BY BooksAccounted DEF IInv
<1> QED
  BY <1>1, AlwaysIInv, PTL

\* For any pool, a worker's connections with an open transaction are no more
\* than its writes that waited in vain (record_usage).
THEOREM PoisonIsBounded == Spec => []PoisonBounded
<1>1. IInv => PoisonBounded
  BY DEF IInv
<1> QED
  BY <1>1, AlwaysIInv, PTL

\* For any file contents, nobody is refused a route before a file without one
\* was saved (reload_config).
THEOREM RoutesAreKept == Spec => []RoutesKept
<1>1. IInv => RoutesKept
  BY DEF IInv
<1> QED
  BY <1>1, AlwaysIInv, PTL
=============================================================================
