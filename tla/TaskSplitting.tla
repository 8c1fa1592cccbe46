---------------------------- MODULE TaskSplitting ----------------------------
(***************************************************************************)
(* router/task_splitter.py: when a request is split, and into which         *)
(* sub-tasks the rules split it.                                           *)
(*                                                                         *)
(* A text is a sequence of words; a word is a file path, the number that     *)
(* opens a step, a phrase of the complexity patterns, or plain, and counts   *)
(* for the same number of tokens.  A sub-task is told the words from first   *)
(* to last of its text; that a description is cut at 300 characters and the  *)
(* context at 1000 is left out.                                            *)
(***************************************************************************)
EXTENDS Lists, SequencesExt, FiniteSetsExt

CONSTANTS
  Files,      \* file paths
  Patterns,   \* phrases like "step by step" or "all files"
  StepMark,   \* "1.", "Step 2:", "finally,"
  Plain,      \* any other word
  Weight,     \* tokens of a word
  Around,     \* words of context on each side of a file path
  Threshold   \* TOKEN_SPLIT_THRESHOLD

Text == Seq(Files \cup Patterns \cup {StepMark, Plain})

ASSUME SplittingAssumption ==
  /\ StepMark # Plain
  /\ Files \cap Patterns = {}
  /\ {StepMark, Plain} \cap (Files \cup Patterns) = {}
  /\ Weight \in Nat \ {0}
  /\ Around \in Nat
  /\ Threshold \in Nat

-----------------------------------------------------------------------------
(* TaskSizeDetector.                                                       *)

FileHits(text) == Cardinality({i \in DOMAIN text : text[i] \in Files})
PatternHits(text) == Cardinality(ToSet(text) \cap Patterns)
StepStarts(text) == {i \in DOMAIN text : text[i] = StepMark}
Tokens(text) == Weight * Len(text)

IsComplex(text) ==
  LET bySize  == CASE Tokens(text) > 8000 -> 3
                   [] Tokens(text) \in 4001 .. 8000 -> 2
                   [] Tokens(text) \in 2001 .. 4000 -> 1
                   [] OTHER -> 0
      byFiles == CASE FileHits(text) >= 3 -> 2
                   [] FileHits(text) \in 1 .. 2 -> 1
                   [] OTHER -> 0
  IN bySize + PatternHits(text) + byFiles >= 4

\* _should_split counts every mention of a file, also of the same one.
NeedsSplitting(text) ==
  \/ Tokens(text) > Threshold
  \/ IsComplex(text)
  \/ FileHits(text) >= 2
  \/ Cardinality(StepStarts(text)) >= 3

SuggestedCount(text) ==
  CASE FileHits(text) >= 2 -> Min({FileHits(text), 10})
    [] FileHits(text) < 2 /\ Cardinality(StepStarts(text)) >= 3 ->
         Min({Cardinality(StepStarts(text)), 10})
    [] OTHER -> Max({2, Min({Tokens(text) \div 2000, 10})})

-----------------------------------------------------------------------------
(* TaskSplitter.                                                           *)

SubTask(id, deps, first, last, context) ==
  [id |-> id, deps |-> deps, first |-> first, last |-> last, context |-> context]

AfterThePrevious(i) == IF i = 1 THEN <<>> ELSE <<i - 1>>

DistinctFiles(text) == Distinct(KeepAt(text, {i \in DOMAIN text : text[i] \in Files}))

SplitByFile(text) ==
  LET files == DistinctFiles(text)
      place(f) == Min({i \in DOMAIN text : text[i] = f})
  IN [i \in DOMAIN files |->
        SubTask(i, <<>>, Max({1, place(files[i]) - Around}),
                Min({Len(text), place(files[i]) + Around}), text)]

SplitBySteps(text) ==
  LET starts == Ascending(StepStarts(text))
  IN [i \in DOMAIN starts |->
        SubTask(i, AfterThePrevious(i), starts[i],
                IF i = Len(starts) THEN Len(text) ELSE starts[i + 1] - 1, text)]

\* Mutated form: the last chunk is as long as the others.
SplitByTokensEvenly(text, n) ==
  LET size == Max({1, Len(text) \div n})
  IN [i \in 1 .. n |->
        SubTask(i, AfterThePrevious(i), (i - 1) * size + 1, Min({i * size, Len(text)}), text)]

\* Chunks beyond the end of a short text are empty.
SplitByTokens(text, n) ==
  LET size == Max({1, Len(text) \div n})
  IN [i \in 1 .. n |->
        SubTask(i, AfterThePrevious(i), (i - 1) * size + 1,
                IF i = n THEN Len(text) ELSE Min({i * size, Len(text)}), text)]

\* TaskSplitter.split of a request that has the text and is to be split.
RulesSplit(text, count) ==
  IF Len(DistinctFiles(text)) >= 2 THEN SplitByFile(text)
  ELSE IF Cardinality(StepStarts(text)) >= 3 THEN SplitBySteps(text)
  ELSE SplitByTokens(text, Max({1, count}))

-----------------------------------------------------------------------------
(* HybridTaskSplitter.                                                     *)

UsesLLM(text) == IsComplex(text) \/ SuggestedCount(text) > 3

\* _extract_text of what is neither a request nor a dict.
NoText == <<>>

\* The hybrid hands the rules the text in the place of the request.
HybridRulesSplit(text) == RulesSplit(NoText, SuggestedCount(text))
=============================================================================
