--------------------------------- MODULE Chat ---------------------------------
(***************************************************************************)
(* POST /v1/chat/completions of router/main.py, in the worker processes of   *)
(* the service (deepseek-hybrid-router.service starts two): routing, the     *)
(* session-manager flow for large requests, the fallback chain, the record   *)
(* for the adaptive manager and the usage row; with the cost endpoints, the  *)
(* reload, and the end of a worker at any point.                            *)
(*                                                                         *)
(* What happens inside the splitter, the executor, the aggregator and the    *)
(* fallback manager is the subject of Pipeline, ParallelExecutor and         *)
(* Fallback; here each of them returns or raises.                           *)
(***************************************************************************)
EXTENDS Router, CostTracker

CONSTANTS
  Requests,    \* chat requests
  MaxRestarts  \* bound of the model: workers that end and are replaced

ASSUME ChatAssumption == MaxRestarts \in Nat

VARIABLES
  req,       \* the local state of each request
  restarts,  \* workers replaced so far
  badRules   \* history: an edit left routing.yaml without a usable route

vars == <<routerVars, costVars, req, restarts, badRules>>

\* "stream": the chain runs inside the stream that is being sent.
Place == {"new", "split", "execute", "aggregate", "chain", "stream", "commit", "done"}

\* "unrouted", "broken" and "unbilled" are internal server errors; "lost" is no
\* reply at all.
Reply == {"none", "merged", "answer", "bare", "error", "stream",
          "unrouted", "broken", "unbilled", "lost"}

Request ==
  [at      : Place,
   worker  : Workers \cup {Nobody},
   records : Nat,   \* its records for the adaptive manager
   rows    : Nat,   \* its rows in usage_records
   reply   : Reply]

NewRequest ==
  [at |-> "new", worker |-> Nobody, records |-> 0, rows |-> 0, reply |-> "none"]

TypeOK ==
  /\ req \in [Requests -> Request]
  /\ rows \in Nat
  /\ turn \in [Workers -> Connection]
  /\ tx \in [Workers -> [Connection -> {NoTx, Begun} \cup Nat]]
  /\ writer \in Workers \cup {Nobody}
  /\ timeouts \in [Workers -> Nat]

-----------------------------------------------------------------------------
\* Request r is at the place, and its worker is not blocked.
At(r, place) == req[r].at = place /\ Runs(req[r].worker)

Goes(r, place) == req' = [req EXCEPT ![r].at = place]

\* The reply is sent after n more records and m more rows, and the coroutine
\* is gone.
Replied(q, reply, n, m) ==
  [at |-> "done", worker |-> Nobody, records |-> q.records + n, rows |-> q.rows + m,
   reply |-> reply]

Replies(r, reply, n, m) == req' = [req EXCEPT ![r] = Replied(@, reply, n, m)]

-----------------------------------------------------------------------------
(* A request comes to a worker: route, chain and fallback manager are made   *)
(* without suspending; whatever routing raises is an internal server error.  *)

Arrive(r, w) ==
  /\ req[r].at = "new"
  /\ Runs(w)
  /\ IF Routable(rules[w])
       THEN \E place \in {"split", "chain", "stream"} :
              req' = [req EXCEPT ![r].at = place, ![r].worker = w]
       ELSE Replies(r, "unrouted", 0, 0)
  /\ UNCHANGED <<routerVars, costVars, restarts, badRules>>

\* The session-manager flow: one sub-task is no split, and whatever raises
\* falls through to the fallback chain, also after the work is done.
SplitEnds(r) ==
  /\ At(r, "split")
  /\ \E place \in {"execute", "chain"} : Goes(r, place)
  /\ UNCHANGED <<routerVars, costVars, restarts, badRules>>

\* Mutated form: the record is made before the results are aggregated.
ExecuteEndsRecorded(r) ==
  /\ At(r, "execute")
  /\ \/ req' = [req EXCEPT ![r].at = "aggregate", ![r].records = @ + 1]
     \/ Goes(r, "chain")
  /\ UNCHANGED <<routerVars, costVars, restarts, badRules>>

ExecuteEnds(r) ==
  /\ At(r, "execute")
  /\ \E place \in {"aggregate", "chain"} : Goes(r, place)
  /\ UNCHANGED <<routerVars, costVars, restarts, badRules>>

\* The merged answer is recorded and never billed.
AggregateEnds(r) ==
  /\ At(r, "aggregate")
  /\ Replies(r, "merged", 1, 0) \/ Goes(r, "chain")
  /\ UNCHANGED <<routerVars, costVars, restarts, badRules>>

-----------------------------------------------------------------------------
(* The fallback chain.                                                     *)

\* A stream is neither recorded nor billed, however it ends.
StreamEnds(r) ==
  /\ At(r, "stream")
  /\ Replies(r, "stream", 0, 0)
  /\ UNCHANGED <<routerVars, costVars, restarts, badRules>>

\* All providers failed: RuntimeError is answered, and not recorded.  Or there
\* is an answer whose usage is null, and looking into it raises.
ChainRaises(r) ==
  /\ At(r, "chain")
  /\ \E reply \in {"error", "broken"} : Replies(r, reply, 0, 0)
  /\ UNCHANGED <<routerVars, costVars, restarts, badRules>>

\* An answer that does not say what it used.
ChainAnswersBare(r) ==
  /\ At(r, "chain")
  /\ Replies(r, "bare", 1, 0)
  /\ UNCHANGED <<routerVars, costVars, restarts, badRules>>

\* An answer with its usage is recorded and then billed; SQLite's errors are no
\* RuntimeError, so the answer is lost with them.
ChainAnswers(r) ==
  LET w == req[r].worker
  IN  /\ At(r, "chain")
      /\ \/ RecordSucceeds(w) /\ Replies(r, "answer", 1, 1)
         \/ RecordFails(w)    /\ Replies(r, "unbilled", 1, 0)
         \/ RecordTimesOut(w) /\ Replies(r, "unbilled", 1, 0)
         \/ RecordRefused(w)  /\ Replies(r, "unbilled", 1, 0)
         \/ /\ RecordStalls(w)
            /\ req' = [req EXCEPT ![r].at = "commit", ![r].records = @ + 1]
      /\ UNCHANGED <<routerVars, restarts, badRules>>

StallEnds(r) ==
  LET w == req[r].worker
  IN  /\ req[r].at = "commit"
      /\ \/ StallCommits(w) /\ Replies(r, "answer", 0, 1)
         \/ StallFails(w)   /\ Replies(r, "unbilled", 0, 0)
      /\ UNCHANGED <<routerVars, restarts, badRules>>

-----------------------------------------------------------------------------
EditRules ==
  /\ Edit
  /\ badRules' = (badRules \/ (file' # Unreadable /\ ~Routable(file')))
  /\ UNCHANGED <<costVars, req, restarts>>

ReloadRules(w) ==
  /\ Runs(w)
  /\ Reload(w)
  /\ UNCHANGED <<costVars, req, restarts, badRules>>

Report(w) ==
  /\ Runs(w)
  /\ Read(w) \/ Dashboard(w)
  /\ UNCHANGED <<routerVars, req, restarts, badRules>>

\* A worker ends with the requests it has, and another takes its place.
Restart(w) ==
  /\ restarts < MaxRestarts
  /\ restarts' = restarts + 1
  /\ RestartRouter(w)
  /\ \E committed \in BOOLEAN :
       /\ RestartCost(w, committed)
       /\ req' = [r \in Requests |->
                    IF req[r].worker # w THEN req[r]
                    ELSE Replied(req[r], "lost", 0,
                                 IF committed /\ req[r].at = "commit" THEN 1 ELSE 0)]
  /\ UNCHANGED badRules

Init ==
  /\ RouterInit
  /\ CostInit
  /\ req = [r \in Requests |-> NewRequest]
  /\ restarts = 0
  /\ badRules = FALSE

Proceeds(r) ==
  \/ SplitEnds(r) \/ ExecuteEnds(r) \/ AggregateEnds(r)
  \/ StreamEnds(r) \/ ChainRaises(r) \/ ChainAnswersBare(r) \/ ChainAnswers(r)
  \/ StallEnds(r)

Next ==
  \/ \E r \in Requests :
       \/ \E w \in Workers : Arrive(r, w)
       \/ Proceeds(r)
  \/ \E w \in Workers : ReloadRules(w) \/ Report(w) \/ Restart(w)
  \/ EditRules

\* Every call a request makes returns or raises: the chain by Fallback!Ends, the
\* executor by ParallelExecutor!Answers, a commit when the disk does.
Fairness == \A r \in Requests : WF_vars(Proceeds(r))

Spec == Init /\ [][Next]_vars /\ Fairness

-----------------------------------------------------------------------------
\* The books agree with the replies, on every path through the endpoint and
\* after every fall-through: a merged answer is recorded once and not billed,
\* an answer is recorded as one success and billed once if it says what it
\* used, and nothing that was not answered is billed; only a worker that ends
\* in the commit may leave a row without a reply (chat_completions).
Accounted ==
  \A r \in Requests :
    CASE req[r].reply = "merged"      -> req[r].records = 1 /\ req[r].rows = 0
      [] req[r].reply = "answer"      -> req[r].records = 1 /\ req[r].rows = 1
      [] req[r].reply = "bare"        -> req[r].records = 1 /\ req[r].rows = 0
      [] req[r].reply = "unbilled"    -> req[r].records = 1 /\ req[r].rows = 0
      [] req[r].reply = "lost"        -> req[r].rows <= req[r].records
      [] OTHER                        -> req[r].rows = 0

\* A write that raised leaves a transaction open on its connection, and with it
\* totals that stand still and rows that are refused: at most one connection of
\* a worker for each write that waited in vain, and none otherwise, whatever
\* reads, refusals and failures of the disk follow (record_usage).
PoisonBounded == \A w \in Workers : Cardinality(Open(w)) <= timeouts[w]

\* A request finds no route only if somebody saved a routing.yaml without a
\* usable one; a file that cannot be read does no harm to a running worker
\* (reload_config).
RoutesKept == \A r \in Requests : req[r].reply = "unrouted" => badRules
=============================================================================
