------------------------------- MODULE Adaptive -------------------------------
(***************************************************************************)
(* router/adaptive_manager.py: the PerformanceTracker's window of request   *)
(* outcomes, the AdaptiveManager that moves the limits of the session pool  *)
(* by it, and the AutoTuner, a background task that applies the manager's   *)
(* proposals at an interval.                                               *)
(*                                                                         *)
(* Rates are compared as integers: the float comparisons of the code agree  *)
(* with the comparisons below for every window of up to 100 records, and    *)
(* int(m * 0.9), int(m * 1.1) with the integer divisions.                  *)
(***************************************************************************)
EXTENDS Integers, Sequences, FiniteSets

CONSTANTS
  Outcomes,      \* request outcomes: records [success, truncated, duration]
  Buffer,        \* _BUFFER_SIZE
  Window,        \* the window of evaluate, 20 in the code
  AdviceFloor,   \* records get_recommendations wants before it advises more
                 \* messages, 10 in the code
  MinMessages, MaxMessages,   \* _MIN_MAX_MESSAGES, _MAX_MAX_MESSAGES
  MinSessions, MaxSessions,   \* _MIN_MAX_SESSIONS, _MAX_MAX_SESSIONS
  Starts,        \* the limits a PoolConfig may start with
  Controllers,   \* coroutines that start and stop the tuner
  MaxLoops       \* bound of the model: loops ever started

Fast == 5    \* _FAST_RESPONSE_TIME
Slow == 30   \* _SLOW_RESPONSE_TIME

Limits == [messages : MinMessages .. MaxMessages, sessions : MinSessions .. MaxSessions]

ASSUME AdaptiveAssumption ==
  /\ Outcomes \subseteq [success : BOOLEAN, truncated : BOOLEAN, duration : Nat]
  /\ Window \in Nat \ {0} /\ Buffer \in Nat \ {0} /\ AdviceFloor \in Nat
  /\ MinMessages \in Nat \ {0} /\ MaxMessages \in Nat /\ MinMessages <= MaxMessages
  /\ MinSessions \in Nat \ {0} /\ MaxSessions \in Nat /\ MinSessions <= MaxSessions
  /\ Starts \subseteq Limits
  /\ MaxLoops \in Nat

VARIABLES
  buffer,     \* _buffer: the last outcomes, oldest first
  rotated,    \* _total_rotation_count > 0
  limits,     \* _config of the manager
  running,    \* _running of the tuner
  handle,     \* _task: the loop the tuner holds, or NoLoop
  loops,      \* the loops ever started, as asyncio tasks
  awaits,     \* the loop each controller awaits inside stop()
  sinceCut    \* history: records since an evaluation last lowered each limit,
              \* up to the number a change of direction takes

tuner == <<running, handle, loops, awaits>>
vars  == <<buffer, rotated, limits, tuner, sinceCut>>

NoLoop == 0
LoopId == 1 .. MaxLoops

-----------------------------------------------------------------------------
(* PerformanceTracker.                                                     *)

Last(seq, n) == IF n < Len(seq) THEN SubSeq(seq, Len(seq) - n + 1, Len(seq)) ELSE seq

\* Mutated form: only the last outcome is looked at.
RecentOne == Last(buffer, 1)

Recent == Last(buffer, Window)

Truncations == Cardinality({i \in DOMAIN Recent : Recent[i].truncated})
Failures    == Cardinality({i \in DOMAIN Recent : ~Recent[i].success})

TotalDuration(seq) ==
  LET sum[i \in 0 .. Len(seq)] == IF i = 0 THEN 0 ELSE sum[i - 1] + seq[i].duration
  IN  sum[Len(seq)]

\* _compute_metrics, as the tests made of it; an empty window has success
\* rate 1 and every other rate 0.
HighTruncation == 10 * Truncations > 3 * Len(Recent)
LowTruncation  == Recent = <<>> \/ 10 * Truncations < Len(Recent)
HighError      == 5 * Failures > Len(Recent)
HighSuccess    == Recent = <<>> \/ 20 * Failures < Len(Recent)
FastOnAverage  == Recent = <<>> \/ TotalDuration(Recent) < Fast * Len(Recent)
SlowOnAverage  == TotalDuration(Recent) > Slow * Len(Recent)

-----------------------------------------------------------------------------
(* AdaptiveManager.                                                        *)

AtLeast(floor, n) == IF n < floor THEN floor ELSE n
AtMost(ceiling, n) == IF n > ceiling THEN ceiling ELSE n

CutMessages(m)   == AtLeast(MinMessages, (9 * m) \div 10)
RaiseMessages(m) == AtMost(MaxMessages, (11 * m) \div 10)
CutSessions(s)   == AtLeast(MinSessions, s - 1)
RaiseSessions(s) == AtMost(MaxSessions, s + 1)


\* evaluate.
Evaluated(lim) ==
  [messages |-> CASE HighTruncation -> CutMessages(lim.messages)
                  [] ~HighTruncation /\ LowTruncation -> RaiseMessages(lim.messages)
                  [] OTHER -> lim.messages,
   sessions |-> CASE HighError -> CutSessions(lim.sessions)
                  [] ~HighError /\ HighSuccess /\ FastOnAverage -> RaiseSessions(lim.sessions)
                  [] OTHER -> lim.sessions]

\* Mutated form: every raise waits for enough records, as that of the messages
\* does.
AdviceLate ==
  {a \in {"fewer messages", "more messages", "fewer sessions", "more sessions", "slow", "rotations"} :
     CASE a = "fewer messages" -> HighTruncation
       [] a = "more messages"  -> ~HighTruncation /\ LowTruncation /\ Len(buffer) >= AdviceFloor
       [] a = "fewer sessions" -> HighError
       [] a = "more sessions"  -> HighSuccess /\ FastOnAverage /\ Len(buffer) >= AdviceFloor
       [] a = "slow"           -> SlowOnAverage
       [] a = "rotations"      -> rotated}

\* get_recommendations, the kinds of advice it gives.
Advice ==
  {a \in {"fewer messages", "more messages", "fewer sessions", "more sessions", "slow", "rotations"} :
     CASE a = "fewer messages" -> HighTruncation
       [] a = "more messages"  -> ~HighTruncation /\ LowTruncation /\ Len(buffer) >= AdviceFloor
       [] a = "fewer sessions" -> HighError
       [] a = "more sessions"  -> HighSuccess /\ FastOnAverage
       [] a = "slow"           -> SlowOnAverage
       [] a = "rotations"      -> rotated}

\* The records between a full window that calls for a cut and one that calls
\* for a raise: as many as the counts of truncated (failed) requests differ by.
FlipRecords ==
  [messages |-> ((3 * Window) \div 10 + 1) - ((Window + 9) \div 10 - 1),
   sessions |-> (Window \div 5 + 1) - ((Window + 19) \div 20 - 1)]

\* apply_recommendations; the manager keeps its own copy of the limits.
ApplyRecommendations ==
  /\ limits' = Evaluated(limits)
  /\ sinceCut' = [k \in DOMAIN sinceCut |->
                    IF limits'[k] < limits[k] THEN 0 ELSE sinceCut[k]]
  /\ UNCHANGED <<buffer, rotated>>

-----------------------------------------------------------------------------
(* Requests and direct calls.                                              *)

RecordRequest(o) ==
  /\ buffer' = Last(Append(buffer, o), Buffer)
  /\ sinceCut' = [k \in DOMAIN sinceCut |-> AtMost(FlipRecords[k], sinceCut[k] + 1)]
  /\ UNCHANGED <<rotated, limits, tuner>>

RecordRotation ==
  /\ rotated' = TRUE
  /\ UNCHANGED <<buffer, limits, tuner, sinceCut>>

\* reset: the evidence of the cuts is gone as well.
Reset ==
  /\ buffer' = <<>>
  /\ rotated' = FALSE
  /\ sinceCut' = FlipRecords
  /\ UNCHANGED <<limits, tuner>>

Apply == ApplyRecommendations /\ UNCHANGED tuner

-----------------------------------------------------------------------------
(* AutoTuner.                                                              *)

\* A controller is inside stop() while it awaits a loop.
Free(c) == awaits[c] = NoLoop

\* Mutated form: whoever starts while a stop is pending gets no loop of its
\* own, as the old one is still held.
StartHeld(c) ==
  /\ Free(c)
  /\ ~running
  /\ running' = TRUE
  /\ IF handle # NoLoop
       THEN UNCHANGED <<loops, handle>>
       ELSE \E l \in LoopId :
              /\ loops[l] = "none"
              /\ \A k \in 1 .. l - 1 : loops[k] # "none"
              /\ loops' = [loops EXCEPT ![l] = "asleep"]
              /\ handle' = l
  /\ UNCHANGED <<buffer, rotated, limits, awaits, sinceCut>>

Start(c) ==
  /\ Free(c)
  /\ ~running
  /\ \E l \in LoopId :
       /\ loops[l] = "none"
       /\ \A k \in 1 .. l - 1 : loops[k] # "none"
       /\ loops' = [loops EXCEPT ![l] = "asleep"]
       /\ handle' = l
  /\ running' = TRUE
  /\ UNCHANGED <<buffer, rotated, limits, awaits, sinceCut>>

\* stop, up to its await: the task is cancelled in its sleep.
Stop(c) ==
  /\ Free(c)
  /\ running
  /\ running' = FALSE
  /\ IF handle = NoLoop
       THEN UNCHANGED <<loops, awaits>>
       ELSE /\ loops' = [loops EXCEPT ![handle] = IF @ = "asleep" THEN "cancelled" ELSE @]
            /\ awaits' = [awaits EXCEPT ![c] = handle]
  /\ UNCHANGED <<buffer, rotated, limits, handle, sinceCut>>

\* stop, after the await: whatever the tuner holds by now is let go.
StopReturns(c) ==
  /\ ~Free(c)
  /\ loops[awaits[c]] = "ended"
  /\ awaits' = [awaits EXCEPT ![c] = NoLoop]
  /\ handle' = NoLoop
  /\ UNCHANGED <<buffer, rotated, limits, running, loops, sinceCut>>

\* Mutated form: a cycle ends the loop.
WakeOnce(l) ==
  /\ loops[l] = "asleep"
  /\ loops' = [loops EXCEPT ![l] = "ended"]
  /\ IF running
       THEN ApplyRecommendations
       ELSE UNCHANGED <<buffer, rotated, limits, sinceCut>>
  /\ UNCHANGED <<running, handle, awaits>>

\* _run_loop after its sleep: one cycle, or the end.
Wake(l) ==
  /\ loops[l] = "asleep"
  /\ IF running
       THEN ApplyRecommendations /\ UNCHANGED loops
       ELSE loops' = [loops EXCEPT ![l] = "ended"] /\ UNCHANGED <<buffer, rotated, limits, sinceCut>>
  /\ UNCHANGED <<running, handle, awaits>>

\* The CancelledError reaches the loop, also one that has not begun.
Cancelled(l) ==
  /\ loops[l] = "cancelled"
  /\ loops' = [loops EXCEPT ![l] = "ended"]
  /\ UNCHANGED <<buffer, rotated, limits, running, handle, awaits, sinceCut>>

Init ==
  /\ buffer = <<>>
  /\ rotated = FALSE
  /\ limits \in Starts
  /\ running = FALSE
  /\ handle = NoLoop
  /\ loops = [l \in LoopId |-> "none"]
  /\ awaits = [c \in Controllers |-> NoLoop]
  /\ sinceCut = FlipRecords

Next ==
  \/ \E o \in Outcomes : RecordRequest(o)
  \/ RecordRotation
  \/ Reset
  \/ Apply
  \/ \E c \in Controllers : Start(c) \/ Stop(c) \/ StopReturns(c)
  \/ \E l \in LoopId : Wake(l) \/ Cancelled(l)

\* The event loop runs every task that is ready, and sleeps end.
Fairness ==
  /\ \A l \in LoopId : WF_vars(Wake(l)) /\ WF_vars(Cancelled(l))
  /\ \A c \in Controllers : WF_vars(StopReturns(c))

Spec == Init /\ [][Next]_vars /\ Fairness

-----------------------------------------------------------------------------
\* Types; the buffer holds no more than its size.
TypeOK ==
  /\ buffer \in Seq(Outcomes) /\ Len(buffer) <= Buffer
  /\ rotated \in BOOLEAN
  /\ limits \in [messages : Nat, sessions : Nat]
  /\ running \in BOOLEAN
  /\ handle \in LoopId \cup {NoLoop}
  /\ loops \in [LoopId -> {"none", "asleep", "cancelled", "ended"}]
  /\ awaits \in [Controllers -> LoopId \cup {NoLoop}]
  /\ sinceCut \in [{"messages", "sessions"} -> Int]

\* "Changes are bounded by the min/max constants, preventing runaway scaling":
\* a pool configuration inside the bounds stays inside them, however often the
\* same window is applied again (evaluate).
InBounds == limits \in Limits

\* What the dashboard advises (get_recommendations) and what the tuner does
\* (evaluate) are two copies of the rules: a limit is never moved against the
\* advice, and with enough records never without it.
AdviceMatches ==
  LET new == Evaluated(limits)
  IN  /\ new.messages < limits.messages => "fewer messages" \in Advice
      /\ new.sessions < limits.sessions => "fewer sessions" \in Advice
      /\ new.sessions > limits.sessions => "more sessions" \in Advice
      /\ new.messages > limits.messages =>
           /\ "fewer messages" \notin Advice
           /\ Len(buffer) >= AdviceFloor => "more messages" \in Advice

\* The limits do not flap: after a cut a limit is raised again only once as
\* many requests were recorded as it takes to turn one verdict of the window
\* into the other, whatever the tuner, direct calls and the requests do.
NoFlapping ==
  [][\A k \in DOMAIN limits :
       limits'[k] > limits[k] => sinceCut[k] >= FlipRecords[k]]_vars

\* A tuner that says it is running has a loop that will wake, also when it was
\* started while another coroutine was waiting for the old loop to end.
RunningIsAlive == running => \E l \in LoopId : loops[l] = "asleep"

\* While the tuner keeps running and the window keeps calling for a cut, the
\* cycles bring the limit down to its floor: no loop dies silently, and the
\* rounding of the cut never stalls above the floor.
ReachesFloor ==
  <>[]((running /\ HighTruncation) = TRUE) => <>[](limits.messages = MinMessages)
=============================================================================
