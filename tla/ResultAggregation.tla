-------------------------- MODULE ResultAggregation --------------------------
(***************************************************************************)
(* router/result_aggregator.py: the order of the results of a plan, the      *)
(* conflicts between them, and the reply they are merged into, by the rules   *)
(* or by an LLM.                                                           *)
(*                                                                         *)
(* A plan is a sequence of sub-tasks, of which the identifier and the        *)
(* dependencies matter; they are a model's answer as often as not, so the     *)
(* identifiers may repeat and the dependencies be unknown or circular.  What  *)
(* a sub-task answered is told by the files it mentions, whether it speaks    *)
(* of changing them, and the directives in it.                             *)
(***************************************************************************)
EXTENDS Lists, SequencesExt, FiniteSetsExt

CONSTANTS
  Contents,    \* answers: [files : sequence, modifies : BOOLEAN, says : set]
  Silent,      \* an answer without a text
  Malformed,   \* one whose choices cannot be read
  Failure,     \* no answer: every attempt failed
  Opposites    \* pairs of directives that contradict each other

ASSUME AggregationAssumption ==
  /\ \A c \in Contents : c.files \in Seq(ToSet(c.files)) /\ c.modifies \in BOOLEAN
  /\ Cardinality({Silent, Malformed, Failure}) = 3
  /\ {Silent, Malformed, Failure} \cap Contents = {}

-----------------------------------------------------------------------------
(* Results: one per sub-task of the plan, [id, content].                    *)

Succeeded(r) == r.content # Failure
HasText(r) == r.content \in Contents
WithText(results) == {i \in DOMAIN results : HasText(results[i])}
Ids(s) == {s[i].id : i \in DOMAIN s}

-----------------------------------------------------------------------------
(* _order_by_dependencies.                                                 *)

\* The in-degree is that of the last sub-task with the identifier, while the
\* edges of all of them count down.
InDegree(plan, t) ==
  LET last == Max({i \in DOMAIN plan : plan[i].id = t})
  IN Cardinality({k \in DOMAIN plan[last].deps : plan[last].deps[k] \in Ids(plan)})

\* Mutated form: one finished dependency is enough.
ReleasedByOne(plan, done, t) ==
  InDegree(plan, t) = 0 \/ \E i \in DOMAIN plan : plan[i].id = t /\ ToSet(plan[i].deps) \cap done # {}

Released(plan, done, t) ==
  LET counted(i) == {k \in DOMAIN plan[i].deps : plan[i].deps[k] \in done}
      own == {i \in DOMAIN plan : plan[i].id = t}
  IN Cardinality(UNION {{i} \X counted(i) : i \in own}) >= InDegree(plan, t)

\* Kahn's algorithm with a sorted queue: the smallest released one is next.
KahnOrder(plan) ==
  LET ids == Ids(plan)
      ordered[n \in 0 .. Cardinality(ids)] ==
        IF n = 0 THEN <<>>
        ELSE LET done  == ToSet(ordered[n - 1])
                 ready == {t \in ids \ done : Released(plan, done, t)}
             IN IF ready = {} THEN ordered[n - 1] ELSE Append(ordered[n - 1], Min(ready))
  IN ordered[Cardinality(ids)]

\* Mutated form: what is in a cycle is left out.
OrderIdsRunnable(plan) == KahnOrder(plan)

OrderIds(plan) ==
  LET ordered == KahnOrder(plan)
  IN ordered \o Ascending(Ids(plan) \ ToSet(ordered))

\* Results by identifier: of several with the same one the last is kept.
OrderByDependencies(results, plan) ==
  LET order == OrderIds(plan)
      lastOf(t) == Max({i \in DOMAIN results : results[i].id = t})
  IN [n \in DOMAIN order |-> results[lastOf(order[n])]]

-----------------------------------------------------------------------------
(* ConflictDetector: conflicts as records, without their wording.           *)

Modifiers(results, f) ==
  {i \in DOMAIN results : /\ HasText(results[i])
                          /\ results[i].content.modifies
                          /\ f \in ToSet(results[i].content.files)}

FileConflicts(results) ==
  LET mentioned == UNION {ToSet(results[i].content.files) : i \in WithText(results)}
  IN {[file |-> f, ids |-> {results[i].id : i \in Modifiers(results, f)}] :
        f \in {g \in mentioned : Cardinality(Modifiers(results, g)) >= 2}}

Says(r, directive) == directive \in r.content.says

\* Mutated form: only the first result may hold the first of the directives.
ContradictionsOneWay(results) ==
  LET found == {c \in Opposites \X WithText(results) \X WithText(results) :
                  c[2] < c[3] /\ Says(results[c[2]], c[1][1]) /\ Says(results[c[3]], c[1][2])}
  IN {[pair |-> c[1], ids |-> {results[c[2]].id, results[c[3]].id}] : c \in found}

Contradictions(results) ==
  LET found == {c \in Opposites \X WithText(results) \X WithText(results) :
                  /\ c[2] < c[3]
                  /\ \/ Says(results[c[2]], c[1][1]) /\ Says(results[c[3]], c[1][2])
                     \/ Says(results[c[2]], c[1][2]) /\ Says(results[c[3]], c[1][1])}
  IN {[pair |-> c[1], ids |-> {results[c[2]].id, results[c[3]].id}] : c \in found}

Conflicts(results) == FileConflicts(results) \cup Contradictions(results)

-----------------------------------------------------------------------------
(* The merged replies, as format_response gives them out.                   *)

IdsOf(results) == [i \in DOMAIN results |-> results[i].id]
Good(results) == {i \in DOMAIN results : Succeeded(results[i])}

Reply(by, results, conflicts, text) ==
  [by        |-> by,
   listed    |-> IdsOf(results),                          \* sub_task_results
   failed    |-> {results[i].id : i \in DOMAIN results \ Good(results)},
   conflicts |-> conflicts,
   finish    |-> IF Good(results) = DOMAIN results THEN "stop" ELSE "partial",
   text      |-> text]   \* the sections of the content, in their order

\* ResultAggregator.aggregate: sections with the conflicts below, or the
\* errors in the order of the identifiers when nothing succeeded.
MergeByRules(results, plan) ==
  LET ordered == OrderByDependencies(results, plan)
      errors  == Ascending(Ids(ordered))
  IN Reply("rules", ordered, Conflicts(ordered),
           IF Good(ordered) = {} THEN errors ELSE IdsOf(ordered))

\* LLMResultAggregator.aggregate: the model is told the answers with a text.
MergeByLLM(results) ==
  Reply("llm", results, Conflicts(results), IdsOf(KeepAt(results, WithText(results))))

\* HybridResultAggregator, then the early returns of LLMResultAggregator.
AsksLLM(results) ==
  /\ Len(results) > 2
  /\ \E i \in DOMAIN results : HasText(results[i])
=============================================================================
