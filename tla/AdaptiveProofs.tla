---------------------------- MODULE AdaptiveProofs ----------------------------
(* Proofs about Adaptive: types, the bounds of the limits, the tuner's flag  *)
(* against its loops, and that the limits do not flap.                      *)
EXTENDS Adaptive, SequenceTheorems, FiniteSetTheorems, TLAPS

\* Last returns a sequence of the same elements, no longer than asked for.
LEMMA LastType ==
  ASSUME NEW S, NEW seq \in Seq(S), NEW n \in Nat
  PROVE  Last(seq, n) \in Seq(S) /\ Len(Last(seq, n)) <= n
<1>1. Len(seq) \in Nat
  BY LenProperties
<1>2. CASE n < Len(seq)
  <2>1. Len(seq) - n + 1 \in 1 .. Len(seq) + 1
    BY <1>1, <1>2
  <2>2. \A i \in Len(seq) - n + 1 .. Len(seq) : seq[i] \in S
    BY <2>1, <1>1, ElementOfSeq
  <2>3. SubSeq(seq, Len(seq) - n + 1, Len(seq)) \in Seq(S)
    BY <2>1, <2>2, <1>1
  <2>4. Len(SubSeq(seq, Len(seq) - n + 1, Len(seq))) <= n
    BY <2>1, <1>1, <1>2
  <2> QED
    BY <1>2, <2>3, <2>4 DEF Last
<1>3. CASE ~(n < Len(seq))
  BY <1>1, <1>3 DEF Last
<1> QED
  BY <1>2, <1>3

\* A cut and a raise are numbers, and stay between the bounds.
LEMMA CutsAndRaises ==
  ASSUME NEW m \in Nat, NEW s \in Nat
  PROVE  /\ CutMessages(m) \in Nat /\ RaiseMessages(m) \in Nat
         /\ CutSessions(s) \in Nat /\ RaiseSessions(s) \in Nat
         /\ m \in MinMessages .. MaxMessages =>
              /\ CutMessages(m) \in MinMessages .. MaxMessages
              /\ RaiseMessages(m) \in MinMessages .. MaxMessages
         /\ s \in MinSessions .. MaxSessions =>
              /\ CutSessions(s) \in MinSessions .. MaxSessions
              /\ RaiseSessions(s) \in MinSessions .. MaxSessions
<1>1. /\ (9 * m) \div 10 \in Nat /\ (9 * m) \div 10 <= m
      /\ (11 * m) \div 10 \in Nat /\ m <= (11 * m) \div 10
  OBVIOUS
<1>2. /\ MinMessages \in Nat /\ MaxMessages \in Nat /\ MinMessages <= MaxMessages
      /\ MinSessions \in Nat \ {0} /\ MaxSessions \in Nat /\ MinSessions <= MaxSessions
  BY AdaptiveAssumption
<1> QED
  BY <1>1, <1>2 DEF CutMessages, RaiseMessages, CutSessions, RaiseSessions, AtLeast, AtMost

\* An evaluation returns limits, inside the bounds if it was given such.
LEMMA EvaluatedLimits ==
  ASSUME NEW lim \in [messages : Nat, sessions : Nat]
  PROVE  /\ Evaluated(lim) \in [messages : Nat, sessions : Nat]
         /\ lim \in Limits => Evaluated(lim) \in Limits
<1> DEFINE m == CASE HighTruncation -> CutMessages(lim.messages)
                  [] ~HighTruncation /\ LowTruncation -> RaiseMessages(lim.messages)
                  [] OTHER -> lim.messages
           s == CASE HighError -> CutSessions(lim.sessions)
                  [] ~HighError /\ HighSuccess /\ FastOnAverage -> RaiseSessions(lim.sessions)
                  [] OTHER -> lim.sessions
<1>1. lim.messages \in Nat /\ lim.sessions \in Nat
  OBVIOUS
<1>2. m \in {CutMessages(lim.messages), RaiseMessages(lim.messages), lim.messages}
  OBVIOUS
<1>3. s \in {CutSessions(lim.sessions), RaiseSessions(lim.sessions), lim.sessions}
  OBVIOUS
<1>4. m \in Nat /\ s \in Nat
  BY <1>1, <1>2, <1>3, CutsAndRaises
<1>5. ASSUME lim \in Limits
      PROVE  m \in MinMessages .. MaxMessages /\ s \in MinSessions .. MaxSessions
  <2>1. lim.messages \in MinMessages .. MaxMessages /\ lim.sessions \in MinSessions .. MaxSessions
    BY <1>5 DEF Limits
  <2> QED
    BY <2>1, <1>1, <1>2, <1>3, CutsAndRaises
<1>6. Evaluated(lim) = [messages |-> m, sessions |-> s]
  BY DEF Evaluated
<1> QED
  BY <1>4, <1>5, <1>6 DEF Limits

LEMMA FlipType == FlipRecords \in [messages : Int, sessions : Int]
<1>1. Window \in Nat
  BY AdaptiveAssumption
<1> DEFINE m == ((3 * Window) \div 10 + 1) - ((Window + 9) \div 10 - 1)
           s == (Window \div 5 + 1) - ((Window + 19) \div 20 - 1)
<1>2. m \in Int
  BY <1>1
<1>3. s \in Int
  BY <1>1
<1> HIDE DEF m, s
<1>4. FlipRecords = [messages |-> m, sessions |-> s]
  BY DEF FlipRecords, m, s
<1> QED
  BY <1>2, <1>3, <1>4

Keys == {"messages", "sessions"}

LEMMA FlipFunction == FlipRecords \in [Keys -> Int]
  BY FlipType DEF Keys

-----------------------------------------------------------------------------
\* The inductive invariant: types, and the flag against the loops.
IInv == TypeOK /\ RunningIsAlive

LEMMA InitInductive == Init => IInv
<1> SUFFICES ASSUME Init PROVE IInv
  OBVIOUS
<1>1. limits \in [messages : Nat, sessions : Nat]
  BY AdaptiveAssumption DEF Init, Limits
<1>2. buffer \in Seq(Outcomes) /\ Len(buffer) <= Buffer
  BY AdaptiveAssumption DEF Init
<1>3. sinceCut \in [Keys -> Int]
  BY FlipFunction DEF Init
<1>4. loops \in [LoopId -> {"none", "asleep", "cancelled", "ended"}]
      /\ awaits \in [Controllers -> LoopId \cup {NoLoop}]
      /\ handle \in LoopId \cup {NoLoop} /\ running = FALSE /\ rotated = FALSE
  BY DEF Init
<1> QED
  BY <1>1, <1>2, <1>3, <1>4 DEF IInv, TypeOK, RunningIsAlive, Keys

\* The part of the state that an evaluation writes keeps its types.
LEMMA ApplyTypes ==
  ASSUME TypeOK, ApplyRecommendations
  PROVE  /\ limits' \in [messages : Nat, sessions : Nat]
         /\ sinceCut' \in [Keys -> Int]
         /\ buffer' = buffer /\ rotated' = rotated
<1>1. limits' \in [messages : Nat, sessions : Nat]
  BY EvaluatedLimits DEF TypeOK, ApplyRecommendations
<1>2. sinceCut \in [Keys -> Int]
  BY DEF TypeOK, Keys
<1>3. sinceCut' \in [Keys -> Int]
  BY <1>2 DEF ApplyRecommendations
<1> QED
  BY <1>1, <1>3 DEF ApplyRecommendations

LEMMA RecordTypes ==
  ASSUME TypeOK, NEW o \in Outcomes, RecordRequest(o)
  PROVE  /\ buffer' \in Seq(Outcomes) /\ Len(buffer') <= Buffer
         /\ sinceCut' \in [Keys -> Int]
<1>1. Append(buffer, o) \in Seq(Outcomes)
  BY DEF TypeOK
<1>2. Buffer \in Nat
  BY AdaptiveAssumption
<1>3. buffer' \in Seq(Outcomes) /\ Len(buffer') <= Buffer
  BY <1>1, <1>2, LastType DEF RecordRequest
<1>4. sinceCut \in [Keys -> Int]
  BY DEF TypeOK, Keys
<1>5. \A k \in Keys : AtMost(FlipRecords[k], sinceCut[k] + 1) \in Int
  BY <1>4, FlipFunction DEF AtMost
<1>6. sinceCut' = [k \in Keys |-> AtMost(FlipRecords[k], sinceCut[k] + 1)]
  BY <1>4 DEF RecordRequest
<1> QED
  BY <1>3, <1>5, <1>6

LEMMA StepInductive == IInv /\ [Next]_vars => IInv'
<1> SUFFICES ASSUME IInv, [Next]_vars PROVE IInv'
  OBVIOUS
<1> USE DEF IInv
<1>1. ASSUME NEW o \in Outcomes, RecordRequest(o) PROVE IInv'
  BY <1>1, RecordTypes DEF RecordRequest, TypeOK, RunningIsAlive, tuner, Keys
<1>2. ASSUME RecordRotation PROVE IInv'
  BY <1>2 DEF RecordRotation, TypeOK, RunningIsAlive, tuner
<1>3. ASSUME Reset PROVE IInv'
  <2>1. sinceCut' \in [Keys -> Int]
    BY <1>3, FlipFunction DEF Reset
  <2>2. buffer' \in Seq(Outcomes) /\ Len(buffer') <= Buffer
    BY <1>3, AdaptiveAssumption DEF Reset
  <2> QED
    BY <1>3, <2>1, <2>2 DEF Reset, TypeOK, RunningIsAlive, tuner, Keys
<1>4. ASSUME Apply PROVE IInv'
  BY <1>4, ApplyTypes DEF Apply, TypeOK, RunningIsAlive, tuner, Keys
<1>5. ASSUME NEW c \in Controllers, Start(c) PROVE IInv'
  <2>1. PICK l \in LoopId : loops' = [loops EXCEPT ![l] = "asleep"] /\ handle' = l
    BY <1>5 DEF Start
  <2>2. loops' \in [LoopId -> {"none", "asleep", "cancelled", "ended"}] /\ loops'[l] = "asleep"
    BY <2>1 DEF TypeOK
  <2> QED
    BY <1>5, <2>1, <2>2 DEF Start, TypeOK, RunningIsAlive
<1>6. ASSUME NEW c \in Controllers, Stop(c) PROVE IInv'
  <2>1. loops' \in [LoopId -> {"none", "asleep", "cancelled", "ended"}]
    BY <1>6 DEF Stop, TypeOK
  <2>2. awaits' \in [Controllers -> LoopId \cup {NoLoop}]
    BY <1>6 DEF Stop, TypeOK
  <2> QED
    BY <1>6, <2>1, <2>2 DEF Stop, TypeOK, RunningIsAlive
<1>7. ASSUME NEW c \in Controllers, StopReturns(c) PROVE IInv'
  BY <1>7 DEF StopReturns, TypeOK, RunningIsAlive
<1>8. ASSUME NEW l \in LoopId, Wake(l) PROVE IInv'
  <2>1. CASE running
    BY <1>8, <2>1, ApplyTypes DEF Wake, TypeOK, RunningIsAlive, Keys
  <2>2. CASE ~running
    BY <1>8, <2>2 DEF Wake, TypeOK, RunningIsAlive
  <2> QED
    BY <2>1, <2>2
<1>9. ASSUME NEW l \in LoopId, Cancelled(l) PROVE IInv'
  <2>1. loops' = [loops EXCEPT ![l] = "ended"] /\ loops[l] = "cancelled"
    BY <1>9 DEF Cancelled
  <2>2. \A k \in LoopId : loops[k] = "asleep" => loops'[k] = "asleep"
    BY <2>1 DEF TypeOK
  <2> QED
    BY <1>9, <2>1, <2>2 DEF Cancelled, TypeOK, RunningIsAlive
<1>10. ASSUME UNCHANGED vars PROVE IInv'
  BY <1>10 DEF vars, tuner, TypeOK, RunningIsAlive
<1> QED
  BY <1>1, <1>2, <1>3, <1>4, <1>5, <1>6, <1>7, <1>8, <1>9, <1>10 DEF Next

\* The types of Adaptive hold in every reachable state (adaptive_manager.py).
THEOREM TypeCorrect == Spec => []TypeOK
<1>1. IInv => TypeOK
  BY DEF IInv
<1> QED
  BY <1>1, InitInductive, StepInductive, PTL DEF Spec

\* A running tuner has a loop that will wake, for any number of controllers
\* that start and stop it (AutoTuner.start, stop, _run_loop).
THEOREM RunningHasLoop == Spec => []RunningIsAlive
<1>1. IInv => RunningIsAlive
  BY DEF IInv
<1> QED
  BY <1>1, InitInductive, StepInductive, PTL DEF Spec

\* The limits stay between the floors and ceilings, for all floors, ceilings,
\* outcomes and windows (AdaptiveManager.evaluate).
THEOREM LimitsBounded == Spec => []InBounds
<1>1. Init => InBounds
  BY AdaptiveAssumption DEF Init, InBounds
<1>2. TypeOK /\ InBounds /\ [Next]_vars => InBounds'
  <2> SUFFICES ASSUME TypeOK, InBounds, [Next]_vars PROVE InBounds'
    OBVIOUS
  <2>1. ASSUME ApplyRecommendations PROVE InBounds'
    BY <2>1, EvaluatedLimits DEF ApplyRecommendations, InBounds, TypeOK
  <2>2. ASSUME UNCHANGED limits PROVE InBounds'
    BY <2>2 DEF InBounds
  <2>3. ApplyRecommendations \/ UNCHANGED limits
    BY DEF Next, vars, RecordRequest, RecordRotation, Reset, Apply, Start, Stop,
           StopReturns, Wake, Cancelled
  <2> QED
    BY <2>1, <2>2, <2>3
<1> QED
  BY <1>1, <1>2, TypeCorrect, PTL DEF Spec

\* Within the bounds a cut never raises and a raise never cuts.
LEMMA Directions ==
  ASSUME NEW m \in MinMessages .. MaxMessages, NEW s \in MinSessions .. MaxSessions
  PROVE  /\ CutMessages(m) <= m /\ m <= RaiseMessages(m)
         /\ CutSessions(s) <= s /\ s <= RaiseSessions(s)
<1>1. /\ MinMessages \in Nat /\ MaxMessages \in Nat
      /\ MinSessions \in Nat \ {0} /\ MaxSessions \in Nat
  BY AdaptiveAssumption
<1>2. m \in Nat /\ s \in Nat
  BY <1>1
<1>3. /\ (9 * m) \div 10 \in Nat /\ (9 * m) \div 10 <= m
      /\ (11 * m) \div 10 \in Nat /\ m <= (11 * m) \div 10
  BY <1>2
<1> QED
  BY <1>1, <1>2, <1>3 DEF CutMessages, RaiseMessages, CutSessions, RaiseSessions, AtLeast, AtMost

LEMMA AdviceCovers == InBounds => AdviceMatches
<1> SUFFICES ASSUME InBounds PROVE AdviceMatches
  OBVIOUS
<1> DEFINE new == Evaluated(limits)
           m == limits.messages
           s == limits.sessions
<1>1. m \in MinMessages .. MaxMessages /\ s \in MinSessions .. MaxSessions
  BY DEF InBounds, Limits
<1>2. m \in Nat /\ s \in Nat
  BY <1>1, AdaptiveAssumption
<1>3. /\ CutMessages(m) <= m /\ m <= RaiseMessages(m)
      /\ CutSessions(s) <= s /\ s <= RaiseSessions(s)
      /\ CutMessages(m) \in Nat /\ RaiseMessages(m) \in Nat
      /\ CutSessions(s) \in Nat /\ RaiseSessions(s) \in Nat
  BY <1>1, <1>2, Directions, CutsAndRaises
<1>4. /\ HighTruncation => new.messages = CutMessages(m)
      /\ ~HighTruncation /\ LowTruncation => new.messages = RaiseMessages(m)
      /\ ~HighTruncation /\ ~LowTruncation => new.messages = m
  BY DEF Evaluated
<1>5. /\ HighError => new.sessions = CutSessions(s)
      /\ ~HighError /\ HighSuccess /\ FastOnAverage => new.sessions = RaiseSessions(s)
      /\ ~HighError /\ ~(HighSuccess /\ FastOnAverage) => new.sessions = s
  BY DEF Evaluated
<1>6. /\ HighTruncation <=> "fewer messages" \in Advice
      /\ ~HighTruncation /\ LowTruncation /\ Len(buffer) >= AdviceFloor
           <=> "more messages" \in Advice
      /\ HighError <=> "fewer sessions" \in Advice
      /\ HighSuccess /\ FastOnAverage <=> "more sessions" \in Advice
  BY DEF Advice
<1>7. new.messages < m => HighTruncation
  BY <1>2, <1>3, <1>4
<1>8. new.messages > m => ~HighTruncation /\ LowTruncation
  BY <1>2, <1>3, <1>4
<1>9. new.sessions < s => HighError
  BY <1>2, <1>3, <1>5
<1>10. new.sessions > s => HighSuccess /\ FastOnAverage
  BY <1>2, <1>3, <1>5
<1> HIDE DEF new, m, s
<1> QED
  BY <1>6, <1>7, <1>8, <1>9, <1>10 DEF AdviceMatches, new, m, s

\* What evaluate does and what get_recommendations says never disagree, for
\* all limits inside the bounds and all windows.
THEOREM AdviceHolds == Spec => []AdviceMatches
  BY LimitsBounded, AdviceCovers, PTL

-----------------------------------------------------------------------------
(* A limit that was cut is not raised before the window has turned.         *)

\* The end of a sequence, no longer than n.
EndOf(seq, n, l) ==
  /\ Len(l) = IF n < Len(seq) THEN n ELSE Len(seq)
  /\ \A i \in 1 .. Len(l) : l[i] = seq[Len(seq) - Len(l) + i]

LEMMA LastElements ==
  ASSUME NEW S, NEW seq \in Seq(S), NEW n \in Nat, NEW l, l = Last(seq, n)
  PROVE  l \in Seq(S) /\ EndOf(seq, n, l)
<1>1. Len(seq) \in Nat /\ l \in Seq(S)
  BY LenProperties, LastType
<1>2. CASE n < Len(seq)
  <2> DEFINE N == Len(seq)
             k == N - n + 1
  <2>1. N \in Nat /\ n < N
    BY <1>1, <1>2
  <2>2. l = SubSeq(seq, k, N)
    BY <1>2 DEF Last
  <2> HIDE DEF N
  <2>3. /\ k \in 1 .. N + 1 /\ N - k + 1 = n /\ N + 1 - k = n
        /\ \A i \in 1 .. n : k + i - 1 = N - n + i
    BY <2>1
  <2> HIDE DEF k
  <2>4. \A i \in k .. N : seq[i] \in S
    <3>1. \A i \in k .. N : i \in 1 .. N
      BY <2>1, <2>3
    <3> QED  BY <3>1, ElementOfSeq DEF N
  <2>5. k \in Int /\ N \in Int /\ k <= N + 1
    BY <2>1, <2>3
  <2>6. /\ Len(l) = IF k <= N THEN N - k + 1 ELSE 0
        /\ \A i \in 1 .. (N - k + 1) : l[i] = seq[k + i - 1]
    BY <2>2, <2>4, <2>5, SubSeqProperties
  <2>7. Len(l) = n
    BY <2>1, <2>3, <2>5, <2>6
  <2>8. \A i \in 1 .. n : l[i] = seq[N - n + i]
    BY <2>3, <2>6
  <2> QED  BY <1>1, <1>2, <2>7, <2>8 DEF N, EndOf
<1>3. CASE ~(n < Len(seq))
  <2>1. l = seq
    BY <1>3 DEF Last
  <2>2. \A i \in 1 .. Len(l) : Len(seq) - Len(l) + i = i
    BY <1>1, <2>1
  <2> QED  BY <1>1, <1>3, <2>1, <2>2 DEF EndOf
<1> QED  BY <1>2, <1>3

\* How many elements of a sequence are in a set.
Hits(seq, H) == Cardinality({i \in DOMAIN seq : seq[i] \in H})

LEMMA HitsType ==
  ASSUME NEW S, NEW seq \in Seq(S), NEW H
  PROVE  /\ Hits(seq, H) \in Nat /\ DOMAIN seq = 1 .. Len(seq) /\ Len(seq) \in Nat
         /\ IsFiniteSet({i \in DOMAIN seq : seq[i] \in H})
<1> DEFINE A == {i \in DOMAIN seq : seq[i] \in H}
<1>1. DOMAIN seq = 1 .. Len(seq) /\ Len(seq) \in Nat
  BY LenProperties
<1>2. IsFiniteSet(1 .. Len(seq)) /\ A \in SUBSET (1 .. Len(seq))
  BY <1>1, FS_Interval
<1> HIDE DEF A
<1>3. IsFiniteSet(A) /\ Cardinality(A) \in Nat
  BY <1>2, FS_Subset, FS_CardinalityType
<1> QED  BY <1>1, <1>3 DEF A, Hits

\* A sequence that continues another has as many hits at least.
LEMMA HitsGrow ==
  ASSUME NEW S, NEW r \in Seq(S), NEW q \in Seq(S), NEW H,
         Len(r) <= Len(q), \A i \in 1 .. Len(r) : q[i] = r[i]
  PROVE  Hits(r, H) <= Hits(q, H)
<1> DEFINE A == {i \in DOMAIN r : r[i] \in H}
           B == {i \in DOMAIN q : q[i] \in H}
<1>1. /\ DOMAIN r = 1 .. Len(r) /\ Len(r) \in Nat /\ DOMAIN q = 1 .. Len(q) /\ Len(q) \in Nat
      /\ IsFiniteSet(B)
  BY HitsType
<1>2. A \in SUBSET B
  BY <1>1
<1> HIDE DEF A, B
<1>3. Cardinality(A) <= Cardinality(B)
  BY <1>1, <1>2, FS_Subset
<1> QED  BY <1>3 DEF A, B, Hits

\* A sequence that lost its first element has one hit less at most.
LEMMA HitsSlide ==
  ASSUME NEW S, NEW r \in Seq(S), NEW q \in Seq(S), NEW H,
         Len(q) = Len(r), \A i \in 1 .. (Len(r) - 1) : q[i] = r[i + 1]
  PROVE  Hits(r, H) <= Hits(q, H) + 1
<1> DEFINE A == {i \in DOMAIN r : r[i] \in H}
           B == {i \in DOMAIN q : q[i] \in H}
           C == {i \in B : i + 1 \in A}
           g == [i \in C |-> i + 1]
           D == A \ {1}
<1>1. /\ DOMAIN r = 1 .. Len(r) /\ Len(r) \in Nat /\ DOMAIN q = 1 .. Len(q)
      /\ IsFiniteSet(A) /\ Cardinality(A) \in Nat /\ IsFiniteSet(B) /\ Cardinality(B) \in Nat
  BY HitsType DEF Hits
<1>2. \A i \in D : i - 1 \in C /\ (i - 1) + 1 = i
  <2> SUFFICES ASSUME NEW i \in D PROVE i - 1 \in C /\ (i - 1) + 1 = i
    OBVIOUS
  <2>1. i \in 1 .. Len(r) /\ i # 1 /\ r[i] \in H
    BY <1>1
  <2>2. i - 1 \in 1 .. (Len(r) - 1) /\ (i - 1) + 1 = i
    BY <1>1, <2>1
  <2>3. q[i - 1] = r[i]
    BY <2>2
  <2> QED  BY <1>1, <2>1, <2>2, <2>3
<1>3. \A i \in C : i + 1 \in D
  <2> SUFFICES ASSUME NEW i \in C PROVE i + 1 \in D
    OBVIOUS
  <2>1. i \in 1 .. Len(q) /\ i + 1 \in A
    BY <1>1
  <2> QED  BY <2>1
<1>4. g \in Surjection(C, D)
  <2>1. g \in [C -> D]
    BY <1>3
  <2>2. \A i \in D : \E j \in C : g[j] = i
    BY <1>2
  <2> HIDE DEF g, C, D
  <2> QED  BY <2>1, <2>2 DEF Surjection
<1>5. C \in SUBSET B
  OBVIOUS
<1> HIDE DEF A, B, C, g
<1>6. Cardinality(D) <= Cardinality(C) /\ Cardinality(C) <= Cardinality(B)
  <2>1. IsFiniteSet(C) /\ Cardinality(C) <= Cardinality(B)
    BY <1>1, <1>5, FS_Subset
  <2> HIDE DEF D
  <2> QED  BY <1>4, <2>1, FS_Surjection
<1>7. IsFiniteSet(C) /\ Cardinality(C) \in Nat /\ IsFiniteSet(D) /\ Cardinality(D) \in Nat
  <2>1. D \in SUBSET A
    OBVIOUS
  <2> HIDE DEF D
  <2> QED  BY <1>1, <1>5, <2>1, FS_Subset, FS_CardinalityType
<1>8. Cardinality(A) <= Cardinality(D) + 1
  <2>1. CASE 1 \in A
    <3>1. Cardinality(A \ {1}) = Cardinality(A) - 1
      BY <1>1, <2>1, FS_RemoveElement
    <3> QED  BY <1>1, <1>7, <3>1
  <2>2. CASE 1 \notin A
    <3>1. D = A
      BY <2>2
    <3> HIDE DEF D
    <3> QED  BY <1>1, <3>1
  <2> QED  BY <2>1, <2>2
<1> HIDE DEF D
<1>9. Cardinality(A) <= Cardinality(B) + 1
  BY <1>1, <1>6, <1>7, <1>8
<1> QED  BY <1>9 DEF A, B, Hits

\* The window after a record: it grows by the record, or slides over it.
LEMMA WindowMoves ==
  ASSUME NEW S, NEW b \in Seq(S), NEW H,
         NEW w \in Nat, NEW m \in Nat, w <= m, w > 0,
         NEW r, r = Last(b, w),
         NEW a \in Seq(S), Len(a) = Len(b) + 1, \A i \in 1 .. Len(b) : a[i] = b[i],
         NEW l, l = Last(a, m), NEW q, q = Last(l, w)
  PROVE  /\ Hits(r, H) \in Nat /\ Hits(q, H) \in Nat /\ Len(r) \in Nat /\ Len(r) <= w
         /\ Len(r) < w => Len(q) = Len(r) + 1 /\ Hits(r, H) <= Hits(q, H)
         /\ Len(r) = w => Len(q) = w /\ Hits(r, H) <= Hits(q, H) + 1
<1>1. Len(b) \in Nat /\ Len(a) \in Nat
  BY LenProperties
<1>2. l \in Seq(S) /\ EndOf(a, m, l)
  BY LastElements
<1>3. r \in Seq(S) /\ EndOf(b, w, r)
  BY LastElements
<1>4. q \in Seq(S) /\ EndOf(l, w, q)
  BY <1>2, LastElements
<1>5. Hits(r, H) \in Nat /\ Hits(q, H) \in Nat /\ Len(r) \in Nat /\ Len(q) \in Nat /\ Len(l) \in Nat
  BY <1>2, <1>3, <1>4, HitsType
<1>6. Len(q) = IF w < Len(a) THEN w ELSE Len(a)
  BY <1>1, <1>2, <1>4 DEF EndOf
<1>7. \A i \in 1 .. Len(q) : q[i] = a[Len(a) - Len(q) + i]
  <2> SUFFICES ASSUME NEW i \in 1 .. Len(q) PROVE q[i] = a[Len(a) - Len(q) + i]
    OBVIOUS
  <2> DEFINE A == Len(a)
             L == Len(l)
             Q == Len(q)
             j == L - Q + i
  <2>1. A \in Nat /\ L \in Nat /\ Q \in Nat /\ Q <= L /\ i \in 1 .. Q
    BY <1>1, <1>4, <1>5 DEF EndOf
  <2>2. q[i] = l[j]
    BY <1>4 DEF EndOf
  <2>3. \A k \in 1 .. L : l[k] = a[A - L + k]
    BY <1>2 DEF EndOf
  <2> HIDE DEF A, L, Q
  <2>4. j \in 1 .. L /\ A - L + j = A - Q + i
    BY <2>1
  <2> HIDE DEF j
  <2>5. l[j] = a[A - Q + i]
    BY <2>3, <2>4
  <2> QED  BY <2>2, <2>5 DEF A, Q
<1>8. Len(r) <= w
  BY <1>1, <1>3 DEF EndOf
<1>9. ASSUME Len(r) < w PROVE Len(q) = Len(r) + 1 /\ Hits(r, H) <= Hits(q, H)
  <2>1. Len(r) = Len(b) /\ Len(q) = Len(b) + 1
    BY <1>1, <1>3, <1>6, <1>9 DEF EndOf
  <2>2. \A i \in 1 .. Len(r) : q[i] = r[i]
    <3> SUFFICES ASSUME NEW i \in 1 .. Len(r) PROVE q[i] = r[i]
      OBVIOUS
    <3>1. i \in 1 .. Len(b) /\ i \in 1 .. Len(q)
          /\ Len(a) - Len(q) + i = i /\ Len(b) - Len(r) + i = i
      BY <1>1, <2>1
    <3>2. q[i] = a[i] /\ r[i] = b[i]
      BY <1>3, <1>7, <3>1 DEF EndOf
    <3> QED  BY <3>1, <3>2
  <2>3. Len(r) <= Len(q)
    BY <1>1, <2>1
  <2> QED  BY <1>3, <1>4, <2>1, <2>2, <2>3, HitsGrow
<1>10. ASSUME Len(r) = w PROVE Len(q) = w /\ Hits(r, H) <= Hits(q, H) + 1
  <2>1. Len(q) = w /\ w <= Len(b)
    BY <1>1, <1>3, <1>6, <1>10 DEF EndOf
  <2>2. \A i \in 1 .. (Len(r) - 1) : q[i] = r[i + 1]
    <3> SUFFICES ASSUME NEW i \in 1 .. (Len(r) - 1) PROVE q[i] = r[i + 1]
      OBVIOUS
    <3> DEFINE j == Len(b) - w + 1 + i
    <3>1. /\ i \in 1 .. Len(q) /\ i + 1 \in 1 .. Len(r) /\ j \in 1 .. Len(b)
          /\ Len(a) - Len(q) + i = j /\ Len(b) - Len(r) + (i + 1) = j
      BY <1>1, <1>10, <2>1
    <3> HIDE DEF j
    <3>2. q[i] = a[j]
      BY <1>7, <3>1
    <3>3. r[i + 1] = b[j]
      BY <1>3, <3>1 DEF EndOf
    <3> QED  BY <3>1, <3>2, <3>3
  <2>3. Len(q) = Len(r)
    BY <1>10, <2>1
  <2>4. Hits(r, H) <= Hits(q, H) + 1
    BY <1>3, <1>4, <2>2, <2>3, HitsSlide
  <2> QED  BY <2>1, <2>4
<1> QED  BY <1>5, <1>8, <1>9, <1>10

Truncated == {o \in Outcomes : o.truncated}
Failed    == {o \in Outcomes : ~o.success}

LEMMA CountsAreHits ==
  ASSUME TypeOK
  PROVE  /\ Recent \in Seq(Outcomes) /\ Len(Recent) \in Nat
         /\ Truncations = Hits(Recent, Truncated) /\ Truncations \in Nat
         /\ Failures = Hits(Recent, Failed) /\ Failures \in Nat
<1>1. Window \in Nat /\ buffer \in Seq(Outcomes)
  BY AdaptiveAssumption DEF TypeOK
<1>2. Recent \in Seq(Outcomes)
  BY <1>1, LastType DEF Recent
<1>3. /\ Len(Recent) \in Nat
      /\ Hits(Recent, Truncated) \in Nat /\ Hits(Recent, Failed) \in Nat
  BY <1>2, HitsType
<1>4. DOMAIN Recent = 1 .. Len(Recent)
  BY <1>2, LenProperties
<1>5. \A i \in DOMAIN Recent : Recent[i] \in Outcomes
  BY <1>2, <1>4, ElementOfSeq
<1>6. /\ {i \in DOMAIN Recent : Recent[i].truncated}
           = {i \in DOMAIN Recent : Recent[i] \in Truncated}
      /\ {i \in DOMAIN Recent : ~Recent[i].success}
           = {i \in DOMAIN Recent : Recent[i] \in Failed}
  BY <1>5 DEF Truncated, Failed
<1>7. Truncations = Hits(Recent, Truncated) /\ Failures = Hits(Recent, Failed)
  BY <1>6 DEF Truncations, Failures, Hits
<1> QED
  BY <1>2, <1>3, <1>7

LEMMA EmptyWindow == Recent = <<>> => Len(Recent) = 0 /\ Truncations = 0 /\ Failures = 0
<1> SUFFICES ASSUME Recent = <<>> PROVE Len(Recent) = 0 /\ Truncations = 0 /\ Failures = 0
  OBVIOUS
<1>1. DOMAIN Recent = {} /\ Len(Recent) = 0
  OBVIOUS
<1>2. /\ {i \in DOMAIN Recent : Recent[i].truncated} = {}
      /\ {i \in DOMAIN Recent : ~Recent[i].success} = {}
  BY <1>1
<1>3. Cardinality({}) = 0
  BY FS_EmptySet
<1> QED
  BY <1>1, <1>2, <1>3 DEF Truncations, Failures

\* What a window of n records with t bad ones still knows of a cut c records
\* ago: a full window loses at most one bad record to every new one, one that
\* is not full loses none.
KnowsTruncation(c, n, t) ==
  /\ c >= 0
  /\ IF n < Window THEN t >= 1 /\ 10 * t > 3 * (n - c) ELSE 10 * (t + c) > 3 * n

KnowsErrors(c, n, t) ==
  /\ c >= 0
  /\ IF n < Window THEN t >= 1 /\ 5 * t > n - c ELSE 5 * (t + c) > n

\* One more record makes a window of n records with t bad ones into one of m
\* with u.
Turns(n, t, m, u) ==
  /\ n < Window => m = n + 1 /\ t <= u
  /\ n = Window => m = Window /\ t <= u + 1

LEMMA OneMore ==
  ASSUME NEW c \in Int, NEW n \in Nat, NEW t \in Nat, NEW m \in Nat, NEW u \in Nat,
         n <= Window, Turns(n, t, m, u)
  PROVE  /\ KnowsTruncation(c, n, t) => KnowsTruncation(c + 1, m, u)
         /\ KnowsErrors(c, n, t) => KnowsErrors(c + 1, m, u)
<1>1. Window \in Nat
  BY AdaptiveAssumption
<1> QED
  BY <1>1 DEF KnowsTruncation, KnowsErrors, Turns

\* A window that called for a cut and calls for a raise has seen enough records.
LEMMA EnoughForMessages ==
  ASSUME NEW c \in Int, NEW n \in Nat, NEW t \in Nat, n <= Window,
         KnowsTruncation(c, n, t), (n = 0 /\ t = 0) \/ 10 * t < n,
         FlipRecords.messages <= 8
  PROVE  c >= FlipRecords.messages
<1> DEFINE high == (3 * Window) \div 10
           low  == (Window + 9) \div 10
<1>1. Window \in Nat /\ Window > 0
  BY AdaptiveAssumption
<1>2. /\ high \in Nat /\ 10 * high <= 3 * Window /\ 3 * Window < 10 * (high + 1)
      /\ low \in Nat /\ Window <= 10 * low /\ 10 * low <= Window + 9
  BY <1>1
<1>3. FlipRecords.messages = (high + 1) - (low - 1)
  BY DEF FlipRecords
<1> HIDE DEF high, low
<1>4. CASE n < Window
  <2>1. c >= 8
    BY <1>4, <1>1 DEF KnowsTruncation
  <2> QED  BY <2>1, <1>2, <1>3
<1>5. CASE n = Window
  <2>1. 10 * (t + c) > 3 * Window /\ 10 * t < Window
    BY <1>1, <1>5 DEF KnowsTruncation
  <2>2. t + c >= high + 1 /\ t <= low - 1
    BY <1>1, <1>2, <2>1
  <2> QED  BY <1>2, <1>3, <2>2
<1> QED
  BY <1>1, <1>4, <1>5

LEMMA EnoughForSessions ==
  ASSUME NEW c \in Int, NEW n \in Nat, NEW t \in Nat, n <= Window,
         KnowsErrors(c, n, t), (n = 0 /\ t = 0) \/ 20 * t < n,
         FlipRecords.sessions <= 17
  PROVE  c >= FlipRecords.sessions
<1> DEFINE high == Window \div 5
           low  == (Window + 19) \div 20
<1>1. Window \in Nat /\ Window > 0
  BY AdaptiveAssumption
<1>2. /\ high \in Nat /\ 5 * high <= Window /\ Window < 5 * (high + 1)
      /\ low \in Nat /\ Window <= 20 * low /\ 20 * low <= Window + 19
  BY <1>1
<1>3. FlipRecords.sessions = (high + 1) - (low - 1)
  BY DEF FlipRecords
<1> HIDE DEF high, low
<1>4. CASE n < Window
  <2>1. c >= 17
    BY <1>4, <1>1 DEF KnowsErrors
  <2> QED  BY <2>1, <1>2, <1>3
<1>5. CASE n = Window
  <2>1. 5 * (t + c) > Window /\ 20 * t < Window
    BY <1>1, <1>5 DEF KnowsErrors
  <2>2. t + c >= high + 1 /\ t <= low - 1
    BY <1>1, <1>2, <2>1
  <2> QED  BY <1>2, <1>3, <2>2
<1> QED
  BY <1>1, <1>4, <1>5

\* The invariant: the window remembers the cuts of the last few records.
CutsRemembered ==
  /\ sinceCut.messages < FlipRecords.messages =>
       KnowsTruncation(sinceCut.messages, Len(Recent), Truncations)
  /\ sinceCut.sessions < FlipRecords.sessions =>
       KnowsErrors(sinceCut.sessions, Len(Recent), Failures)

LEMMA WindowBound == TypeOK => Len(Recent) <= Window
  BY AdaptiveAssumption, LastType DEF TypeOK, Recent

\* A new record: the window grows by it, or turns by one.
LEMMA RecordRemembered ==
  ASSUME TypeOK, CutsRemembered, Window <= Buffer, NEW o \in Outcomes, RecordRequest(o)
  PROVE  CutsRemembered'
<1> DEFINE a == Append(buffer, o)
           r == Recent
           q == Recent'
<1>1. /\ Window \in Nat /\ Window > 0 /\ Buffer \in Nat
      /\ buffer \in Seq(Outcomes)
  BY AdaptiveAssumption DEF TypeOK
<1>2. /\ a \in Seq(Outcomes) /\ Len(a) = Len(buffer) + 1
      /\ \A i \in 1 .. Len(buffer) : a[i] = buffer[i]
  BY <1>1, AppendProperties
<1>3. buffer' = Last(a, Buffer) /\ r = Last(buffer, Window) /\ q = Last(buffer', Window)
  BY DEF RecordRequest, Recent
<1>4. TypeOK'
  <2>1. buffer' \in Seq(Outcomes) /\ Len(buffer') <= Buffer
        /\ sinceCut' \in [Keys -> Int]
    BY RecordTypes
  <2> QED  BY <2>1 DEF RecordRequest, TypeOK, tuner, Keys
<1>5. /\ Len(r) \in Nat /\ Truncations = Hits(r, Truncated) /\ Failures = Hits(r, Failed)
      /\ Truncations \in Nat /\ Failures \in Nat
  BY CountsAreHits
<1>6. (/\ Len(Recent) \in Nat /\ Truncations = Hits(Recent, Truncated)
       /\ Failures = Hits(Recent, Failed)
       /\ Truncations \in Nat /\ Failures \in Nat)'
  BY <1>4, CountsAreHits, PTL
<1>7. /\ Len(q) \in Nat /\ Truncations' = Hits(q, Truncated) /\ Failures' = Hits(q, Failed)
      /\ Truncations' \in Nat /\ Failures' \in Nat
  BY <1>6 DEF Hits, Truncated, Failed
<1>8. /\ sinceCut.messages \in Int /\ sinceCut.sessions \in Int
      /\ FlipRecords.messages \in Int /\ FlipRecords.sessions \in Int
      /\ sinceCut'.messages = AtMost(FlipRecords.messages, sinceCut.messages + 1)
      /\ sinceCut'.sessions = AtMost(FlipRecords.sessions, sinceCut.sessions + 1)
  BY FlipType DEF TypeOK, RecordRequest
<1> HIDE DEF a, r, q
<1>9. Turns(Len(r), Truncations, Len(q), Truncations')
  <2>1. /\ Len(r) < Window => Len(q) = Len(r) + 1 /\ Hits(r, Truncated) <= Hits(q, Truncated)
        /\ Len(r) = Window => Len(q) = Window /\ Hits(r, Truncated) <= Hits(q, Truncated) + 1
    BY <1>1, <1>2, <1>3, WindowMoves
  <2> QED  BY <1>5, <1>7, <2>1 DEF Turns
<1>10. Turns(Len(r), Failures, Len(q), Failures')
  <2>1. /\ Len(r) < Window => Len(q) = Len(r) + 1 /\ Hits(r, Failed) <= Hits(q, Failed)
        /\ Len(r) = Window => Len(q) = Window /\ Hits(r, Failed) <= Hits(q, Failed) + 1
    BY <1>1, <1>2, <1>3, WindowMoves
  <2> QED  BY <1>5, <1>7, <2>1 DEF Turns
<1>11. Len(r) <= Window
  BY WindowBound DEF r
<1>12. ASSUME sinceCut'.messages < FlipRecords.messages
       PROVE  KnowsTruncation(sinceCut'.messages, Len(q), Truncations')
  <2>1. sinceCut.messages < FlipRecords.messages /\ sinceCut'.messages = sinceCut.messages + 1
    BY <1>8, <1>12 DEF AtMost
  <2>2. KnowsTruncation(sinceCut.messages, Len(r), Truncations)
    BY <2>1 DEF CutsRemembered, r
  <2>3. sinceCut.messages \in Int /\ Len(r) \in Nat /\ Truncations \in Nat
        /\ Len(q) \in Nat /\ Truncations' \in Nat
    BY <1>5, <1>7, <1>8
  <2>4. KnowsTruncation(sinceCut.messages + 1, Len(q), Truncations')
    BY <1>9, <1>11, <2>2, <2>3, OneMore
  <2> QED  BY <2>1, <2>4
<1>13. ASSUME sinceCut'.sessions < FlipRecords.sessions
       PROVE  KnowsErrors(sinceCut'.sessions, Len(q), Failures')
  <2>1. sinceCut.sessions < FlipRecords.sessions /\ sinceCut'.sessions = sinceCut.sessions + 1
    BY <1>8, <1>13 DEF AtMost
  <2>2. KnowsErrors(sinceCut.sessions, Len(r), Failures)
    BY <2>1 DEF CutsRemembered, r
  <2>3. sinceCut.sessions \in Int /\ Len(r) \in Nat /\ Failures \in Nat
        /\ Len(q) \in Nat /\ Failures' \in Nat
    BY <1>5, <1>7, <1>8
  <2>4. KnowsErrors(sinceCut.sessions + 1, Len(q), Failures')
    BY <1>10, <1>11, <2>2, <2>3, OneMore
  <2> QED  BY <2>1, <2>4
<1>14. /\ sinceCut'.messages < FlipRecords.messages =>
            KnowsTruncation(sinceCut'.messages, Len(Recent'), Truncations')
       /\ sinceCut'.sessions < FlipRecords.sessions =>
            KnowsErrors(sinceCut'.sessions, Len(Recent'), Failures')
  BY <1>12, <1>13 DEF q
<1> QED
  BY <1>14 DEF CutsRemembered, KnowsTruncation, KnowsErrors, FlipRecords

\* What moves the limits: only a window that calls for it.
LEMMA MovesAreCalledFor ==
  ASSUME InBounds
  PROVE  /\ Evaluated(limits).messages < limits.messages => HighTruncation
         /\ Evaluated(limits).messages > limits.messages => LowTruncation
         /\ Evaluated(limits).sessions < limits.sessions => HighError
         /\ Evaluated(limits).sessions > limits.sessions => HighSuccess
<1> DEFINE new == Evaluated(limits)
           m == limits.messages
           s == limits.sessions
<1>1. m \in MinMessages .. MaxMessages /\ s \in MinSessions .. MaxSessions
  BY DEF InBounds, Limits
<1>2. m \in Nat /\ s \in Nat
  BY <1>1, AdaptiveAssumption
<1>3. /\ CutMessages(m) <= m /\ m <= RaiseMessages(m)
      /\ CutSessions(s) <= s /\ s <= RaiseSessions(s)
      /\ CutMessages(m) \in Nat /\ RaiseMessages(m) \in Nat
      /\ CutSessions(s) \in Nat /\ RaiseSessions(s) \in Nat
  BY <1>1, <1>2, Directions, CutsAndRaises
<1>4. /\ HighTruncation => new.messages = CutMessages(m)
      /\ ~HighTruncation /\ LowTruncation => new.messages = RaiseMessages(m)
      /\ ~HighTruncation /\ ~LowTruncation => new.messages = m
  BY DEF Evaluated
<1>5. /\ HighError => new.sessions = CutSessions(s)
      /\ ~HighError /\ HighSuccess /\ FastOnAverage => new.sessions = RaiseSessions(s)
      /\ ~HighError /\ ~(HighSuccess /\ FastOnAverage) => new.sessions = s
  BY DEF Evaluated
<1> HIDE DEF new, m, s
<1>6. new.messages < m => HighTruncation
  BY <1>2, <1>3, <1>4
<1>7. new.messages > m => LowTruncation
  BY <1>2, <1>3, <1>4
<1>8. new.sessions < s => HighError
  BY <1>2, <1>3, <1>5
<1>9. new.sessions > s => HighSuccess
  BY <1>2, <1>3, <1>5
<1> QED
  BY <1>6, <1>7, <1>8, <1>9 DEF new, m, s

\* A cut starts the count anew, on a window that calls for it.
LEMMA ApplyRemembered ==
  ASSUME TypeOK, InBounds, CutsRemembered, ApplyRecommendations
  PROVE  CutsRemembered'
<1>1. limits' = Evaluated(limits) /\ buffer' = buffer
  BY DEF ApplyRecommendations
<1>2. /\ sinceCut'.messages = IF limits'.messages < limits.messages THEN 0 ELSE sinceCut.messages
      /\ sinceCut'.sessions = IF limits'.sessions < limits.sessions THEN 0 ELSE sinceCut.sessions
  BY DEF ApplyRecommendations, TypeOK
<1>3. Recent' = Recent /\ Truncations' = Truncations /\ Failures' = Failures
  BY <1>1 DEF Recent, Truncations, Failures
<1>4. /\ Len(Recent) \in Nat /\ Truncations \in Nat /\ Failures \in Nat
      /\ Window \in Nat /\ Len(Recent) <= Window
  BY CountsAreHits, WindowBound, AdaptiveAssumption
<1>5. limits'.messages < limits.messages => KnowsTruncation(0, Len(Recent), Truncations)
  <2>1. limits'.messages < limits.messages => 10 * Truncations > 3 * Len(Recent)
    BY <1>1, MovesAreCalledFor DEF HighTruncation
  <2> QED  BY <1>4, <2>1 DEF KnowsTruncation
<1>6. limits'.sessions < limits.sessions => KnowsErrors(0, Len(Recent), Failures)
  <2>1. limits'.sessions < limits.sessions => 5 * Failures > Len(Recent)
    BY <1>1, MovesAreCalledFor DEF HighError
  <2> QED  BY <1>4, <2>1 DEF KnowsErrors
<1>7. /\ sinceCut'.messages < FlipRecords.messages =>
            KnowsTruncation(sinceCut'.messages, Len(Recent), Truncations)
      /\ sinceCut'.sessions < FlipRecords.sessions =>
            KnowsErrors(sinceCut'.sessions, Len(Recent), Failures)
  BY <1>2, <1>5, <1>6 DEF CutsRemembered
<1> QED
  BY <1>3, <1>7 DEF CutsRemembered, KnowsTruncation, KnowsErrors, FlipRecords

LEMMA InitRemembered == Init => CutsRemembered
<1> SUFFICES ASSUME Init PROVE CutsRemembered
  OBVIOUS
<1>1. /\ sinceCut.messages = FlipRecords.messages /\ sinceCut.sessions = FlipRecords.sessions
      /\ FlipRecords.messages \in Int /\ FlipRecords.sessions \in Int
  BY FlipType DEF Init
<1> QED
  BY <1>1 DEF CutsRemembered

LEMMA StepRemembered ==
  ASSUME TypeOK, InBounds, CutsRemembered, Window <= Buffer, [Next]_vars
  PROVE  CutsRemembered'
<1>1. ASSUME NEW o \in Outcomes, RecordRequest(o) PROVE CutsRemembered'
  BY <1>1, RecordRemembered
<1>2. ASSUME Reset PROVE CutsRemembered'
  <2>1. /\ sinceCut'.messages = FlipRecords.messages /\ sinceCut'.sessions = FlipRecords.sessions
        /\ FlipRecords.messages \in Int /\ FlipRecords.sessions \in Int
    BY <1>2, FlipType DEF Reset
  <2>2. /\ ~(sinceCut'.messages < FlipRecords.messages)
        /\ ~(sinceCut'.sessions < FlipRecords.sessions)
    BY <2>1
  <2> QED  BY <2>2 DEF CutsRemembered, FlipRecords
<1>3. ASSUME ApplyRecommendations PROVE CutsRemembered'
  BY <1>3, ApplyRemembered
<1>4. ASSUME UNCHANGED <<buffer, sinceCut>> PROVE CutsRemembered'
  BY <1>4 DEF CutsRemembered, KnowsTruncation, KnowsErrors, FlipRecords, Recent,
              Truncations, Failures
<1>5. \/ \E o \in Outcomes : RecordRequest(o)
      \/ Reset \/ ApplyRecommendations \/ UNCHANGED <<buffer, sinceCut>>
  BY DEF Next, vars, RecordRotation, Apply, Start, Stop, StopReturns, Wake, Cancelled
<1> QED
  BY <1>1, <1>2, <1>3, <1>4, <1>5

\* A raise finds a window that has forgotten the cut.
LEMMA RaisesAreLate ==
  ASSUME TypeOK, InBounds, CutsRemembered, [Next]_vars,
         FlipRecords.messages <= 8, FlipRecords.sessions <= 17
  PROVE  \A k \in DOMAIN limits : limits'[k] > limits[k] => sinceCut[k] >= FlipRecords[k]
<1>1. ApplyRecommendations \/ UNCHANGED limits
  BY DEF Next, vars, RecordRequest, RecordRotation, Reset, Apply, Start, Stop,
         StopReturns, Wake, Cancelled
<1>2. CASE UNCHANGED limits
  <2>1. limits \in [messages : Nat, sessions : Nat]
    BY DEF TypeOK
  <2>2. \A k \in DOMAIN limits : limits[k] \in Nat
    BY <2>1
  <2>3. \A k \in DOMAIN limits : ~(limits[k] > limits[k])
    BY <2>2
  <2> QED  BY <1>2, <2>3
<1>3. CASE ApplyRecommendations
  <2>1. limits' = Evaluated(limits) /\ DOMAIN limits = {"messages", "sessions"}
    BY <1>3 DEF ApplyRecommendations, TypeOK
  <2>2. /\ Len(Recent) \in Nat /\ Truncations \in Nat /\ Failures \in Nat
        /\ Len(Recent) <= Window
        /\ sinceCut.messages \in Int /\ sinceCut.sessions \in Int
        /\ FlipRecords.messages \in Int /\ FlipRecords.sessions \in Int
    BY CountsAreHits, WindowBound, FlipType DEF TypeOK
  <2>3. ASSUME limits'.messages > limits.messages
        PROVE  sinceCut.messages >= FlipRecords.messages
    <3>1. (Len(Recent) = 0 /\ Truncations = 0) \/ 10 * Truncations < Len(Recent)
      BY <2>1, <2>3, MovesAreCalledFor, EmptyWindow DEF LowTruncation
    <3>2. sinceCut.messages < FlipRecords.messages => sinceCut.messages >= FlipRecords.messages
      BY <2>2, <3>1, EnoughForMessages DEF CutsRemembered
    <3> QED  BY <2>2, <3>2
  <2>4. ASSUME limits'.sessions > limits.sessions
        PROVE  sinceCut.sessions >= FlipRecords.sessions
    <3>1. (Len(Recent) = 0 /\ Failures = 0) \/ 20 * Failures < Len(Recent)
      BY <2>1, <2>4, MovesAreCalledFor, EmptyWindow DEF HighSuccess
    <3>2. sinceCut.sessions < FlipRecords.sessions => sinceCut.sessions >= FlipRecords.sessions
      BY <2>2, <3>1, EnoughForSessions DEF CutsRemembered
    <3> QED  BY <2>2, <3>2
  <2> QED  BY <2>1, <2>3, <2>4
<1> QED
  BY <1>1, <1>2, <1>3

\* A limit that was cut is not raised again before enough requests came in, for
\* all outcomes, bounds, tuners and resets (evaluate over recent_metrics). A
\* window that is not full turns on its own counts: with one bad record among
\* few it is good enough for a raise after 8 more records (17 for the
\* sessions), so the window must not be so long that a full one takes more. The
\* code's window of 20 asks for 6 and 5.
THEOREM LimitsDoNotFlap ==
  ASSUME Window <= Buffer, FlipRecords.messages <= 8, FlipRecords.sessions <= 17
  PROVE  Spec => NoFlapping
<1>1. Init => CutsRemembered
  BY InitRemembered
<1>2. TypeOK /\ InBounds /\ CutsRemembered /\ [Next]_vars => CutsRemembered'
  BY StepRemembered
<1>3. TypeOK /\ InBounds /\ CutsRemembered /\ [Next]_vars
        => [\A k \in DOMAIN limits : limits'[k] > limits[k] => sinceCut[k] >= FlipRecords[k]]_vars
  BY RaisesAreLate
<1> QED
  BY <1>1, <1>2, <1>3, TypeCorrect, LimitsBounded, PTL DEF Spec, NoFlapping
=============================================================================
