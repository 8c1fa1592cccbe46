------------------------------- MODULE Pipeline -------------------------------
(***************************************************************************)
(* The session-manager flow of one request: detect, split, execute, record   *)
(* the context, aggregate, reply.  Requests share the executor and its       *)
(* sessions (ParallelExecutor, SessionPool) and nothing of what is here.    *)
(*                                                                         *)
(* Two flows are composed from the same parts: that of chat_completions,     *)
(* with the hybrid splitter and aggregator, and that of the rules alone,     *)
(* as in tests/test_session_manager.py.  Whatever raises in the endpoint     *)
(* sends the request to the fallback chain (Chat).                          *)
(***************************************************************************)
EXTENDS TaskSplitting, ResultAggregation

CONSTANTS
  Texts,    \* texts of requests
  Answers   \* plans an LLM may answer with, [id, deps] each; unchecked

ASSUME PipelineAssumption ==
  /\ Texts \subseteq Text
  /\ Answers \subseteq Seq([id : Int, deps : Seq(Int)])

VARIABLES
  flow,      \* "endpoint" or "rules"
  at,        \* "new", "split", "execute", "merge", "replied" or "chain"
  text,      \* the text of the request, until it is no longer read
  plan,      \* the sub-tasks
  results,   \* what the executor returned
  context,   \* the store of the request's ContextManager
  reply      \* the merged reply, or NoReply

vars == <<flow, at, text, plan, results, context, reply>>

NoReply == [by |-> "nobody"]
Empty == [tasks |-> <<>>, allFiles |-> <<>>]

Init ==
  /\ flow \in {"endpoint", "rules"}
  /\ at = "new"
  /\ text \in Texts
  /\ plan = <<>> /\ results = <<>>
  /\ context = Empty
  /\ reply = NoReply

-----------------------------------------------------------------------------
\* One sub-task is no split: the request goes to the chain.
Planned(p) ==
  /\ plan' = p
  /\ at' = IF Len(p) > 1 THEN "execute" ELSE "chain"
  /\ UNCHANGED <<flow, text, results, context, reply>>

\* TaskSizeDetector.analyze, then the rules or the call of the LLM.
Detect ==
  /\ at = "new"
  /\ \/ /\ ~NeedsSplitting(text)
        /\ at' = "chain"
        /\ UNCHANGED <<flow, text, plan, results, context, reply>>
     \/ /\ NeedsSplitting(text) /\ flow = "rules"
        /\ Planned(RulesSplit(text, SuggestedCount(text)))
     \/ /\ NeedsSplitting(text) /\ flow = "endpoint" /\ ~UsesLLM(text)
        /\ Planned(HybridRulesSplit(text))
     \/ /\ NeedsSplitting(text) /\ flow = "endpoint" /\ UsesLLM(text)
        /\ at' = "split"
        /\ UNCHANGED <<flow, text, plan, results, context, reply>>

\* LLMTaskSplitter.split: each sub-task carries the whole text.
LLMSplits ==
  /\ at = "split"
  /\ \E answer \in Answers :
       Planned([i \in DOMAIN answer |->
                  SubTask(answer[i].id, answer[i].deps, 1, Len(text), text)])

\* It raises: no connection, no JSON, a field missing or no number.
LLMSplitFails ==
  /\ at = "split"
  /\ Planned(HybridRulesSplit(text))

-----------------------------------------------------------------------------
(* ContextManager.record_result, for each result in turn.                   *)

FilesOf(r) == IF HasText(r) THEN Distinct(r.content.files) ELSE <<>>

\* Mutated form: the list of all files is that of the result.
RecordedAlone(store, r) ==
  [tasks    |-> [t \in (DOMAIN store.tasks) \cup {r.id} |->
                   IF t = r.id THEN r ELSE store.tasks[t]],
   allFiles |-> FilesOf(r)]

Recorded(store, r) ==
  [tasks    |-> [t \in (DOMAIN store.tasks) \cup {r.id} |->
                   IF t = r.id THEN r ELSE store.tasks[t]],
   allFiles |-> Distinct(store.allFiles \o FilesOf(r))]

RecordAll(rs) ==
  LET store[n \in 0 .. Len(rs)] ==
        IF n = 0 THEN Empty ELSE Recorded(store[n - 1], rs[n])
  IN store[Len(rs)]

Readable(rs) == \A i \in DOMAIN rs : rs[i].content # Malformed

\* What the aggregator reads of a sub-task.
Outline(p) == [i \in DOMAIN p |-> [id |-> p[i].id, deps |-> p[i].deps]]

\* The sub-tasks with an identifier share the last of their results
\* (ParallelExecutor.execute).  Recording stops at a result that cannot be
\* read; nothing suspends until the aggregator calls an LLM.
Executed(rs) ==
  /\ results' = rs
  /\ plan' = Outline(plan)
  /\ text' = NoText
  /\ context' = RecordAll(rs)
  /\ IF flow = "endpoint" /\ AsksLLM(rs)
       THEN at' = "merge" /\ UNCHANGED reply
       ELSE at' = "replied" /\ reply' = MergeByRules(rs, Outline(plan))
  /\ UNCHANGED flow

ExecuteReturns ==
  /\ at = "execute"
  /\ \E outcome \in [Ids(plan) -> Contents \cup {Silent, Malformed, Failure}] :
       LET rs == [i \in DOMAIN plan |-> [id |-> plan[i].id, content |-> outcome[plan[i].id]]]
       IN IF Readable(rs)
            THEN Executed(rs)
            ELSE /\ at' = "chain"
                 /\ UNCHANGED <<flow, text, plan, results, context, reply>>

\* The adapter the sub-tasks are sent to cannot be made.
ExecuteRaises ==
  /\ at = "execute" /\ flow = "endpoint"
  /\ at' = "chain"
  /\ UNCHANGED <<flow, text, plan, results, context, reply>>

-----------------------------------------------------------------------------
LLMMerges ==
  /\ at = "merge"
  /\ at' = "replied"
  /\ reply' = MergeByLLM(results)
  /\ UNCHANGED <<flow, text, plan, results, context>>

LLMMergeFails ==
  /\ at = "merge"
  /\ at' = "replied"
  /\ reply' = MergeByRules(results, plan)
  /\ UNCHANGED <<flow, text, plan, results, context>>

\* The next request, with a ContextManager of its own.
NextRequest ==
  /\ at \in {"replied", "chain"}
  /\ flow' = flow
  /\ at' = "new"
  /\ text' \in Texts
  /\ plan' = <<>> /\ results' = <<>>
  /\ context' = Empty
  /\ reply' = NoReply

Next ==
  \/ Detect \/ LLMSplits \/ LLMSplitFails
  \/ ExecuteReturns \/ ExecuteRaises
  \/ LLMMerges \/ LLMMergeFails
  \/ NextRequest

Spec == Init /\ [][Next]_vars

-----------------------------------------------------------------------------
UniqueIds == Cardinality(Ids(plan)) = Len(plan)

Known(i) == ToSet(plan[i].deps) \cap Ids(plan)
Dependencies(t) == UNION {Known(i) : i \in {j \in DOMAIN plan : plan[j].id = t}}

Acyclic ==
  \A S \in SUBSET Ids(plan) : S # {} => \E t \in S : Dependencies(t) \cap S = {}

\* A plan of the rules that had the request runs as it stands: two sub-tasks or
\* more, each after earlier ones only.  No word is told twice or lost once the
\* first chunk or step has begun, also when there are fewer words than chunks;
\* with sub-tasks by file each file is told (TaskSplitter.split).
PlansRunnable ==
  flow = "rules" /\ at = "execute" =>
    LET told(i) == {t \in DOMAIN plan : i \in plan[t].first .. plan[t].last}
    IN  /\ Len(plan) >= 2
        /\ \A t \in DOMAIN plan : plan[t].id = t /\ ToSet(plan[t].deps) \subseteq 1 .. (t - 1)
        /\ IF Len(DistinctFiles(text)) >= 2
             THEN \A i \in DOMAIN text :
                    text[i] \in Files => \E j \in DOMAIN text : text[j] = text[i] /\ told(j) # {}
             ELSE \A i \in plan[1].first .. Len(text) : Cardinality(told(i)) = 1

\* "original_context: Full original request text": whoever made the plan.
CarriesRequest ==
  at = "execute" => \A t \in DOMAIN plan : plan[t].context = text

\* The sections of a reply of the rules, for any answer of an LLM with distinct
\* identifiers: each result once; if the plan has no cycle, none before one it
\* depends on, and a larger identifier before a smaller one only while that
\* waits (_order_by_dependencies).
PartsInOrder ==
  at = "replied" /\ reply.by = "rules" /\ UniqueIds =>
    LET parts == reply.listed
    IN  /\ Len(parts) = Len(plan)
        /\ ToSet(parts) = Ids(plan)
        /\ Acyclic =>
             \A j \in DOMAIN parts : \A i \in 1 .. (j - 1) :
               /\ parts[j] \notin Dependencies(parts[i])
               /\ parts[j] < parts[i] =>
                    \E k \in i .. (j - 1) : parts[k] \in Dependencies(parts[j])

\* No sub-task is forgotten on the way to the reply, whatever its plan and
\* whoever merges: all are listed, those that failed as failed, what has a text
\* is in the text or told to the LLM, and the reply is complete only if nothing
\* failed (execute, aggregate, format_response).
AllTold ==
  at = "replied" =>
    LET failed == {results[i].id : i \in {j \in DOMAIN results : ~Succeeded(results[j])}}
    IN  /\ ToSet(reply.listed) = Ids(plan)
        /\ reply.failed = failed
        /\ reply.finish = "stop" <=> failed = {}
        /\ \A i \in DOMAIN results : HasText(results[i]) => results[i].id \in ToSet(reply.text)

\* With distinct identifiers the reply names exactly the conflicts there are:
\* any two results that change a file, in one record with it, and any two that
\* hold opposite directives, in either order (ConflictDetector).
ConflictsTold ==
  at = "replied" /\ UniqueIds =>
    \A i, j \in DOMAIN results :
      i # j /\ HasText(results[i]) /\ HasText(results[j]) =>
        LET both == {results[i].id, results[j].id}
            one   == results[i].content
            other == results[j].content
        IN  /\ \A f \in Files :
                 (one.modifies /\ other.modifies /\ f \in ToSet(one.files) \cap ToSet(other.files))
                   <=> \E c \in reply.conflicts :
                         "file" \in DOMAIN c /\ c.file = f /\ both \subseteq c.ids
            /\ \A p \in Opposites :
                 ((p[1] \in one.says /\ p[2] \in other.says) \/ (p[2] \in one.says /\ p[1] \in other.says))
                   <=> [pair |-> p, ids |-> both] \in reply.conflicts

\* The context of a request knows each result it recorded, and every file that
\* any of them mentions, once (record_result).
ContextKept ==
  at \in {"merge", "replied"} =>
    /\ \A i \in DOMAIN results : context.tasks[results[i].id] = results[i]
    /\ ToSet(context.allFiles) = UNION {ToSet(FilesOf(results[i])) : i \in DOMAIN results}
    /\ \A i, j \in DOMAIN context.allFiles :
         context.allFiles[i] = context.allFiles[j] => i = j
=============================================================================
