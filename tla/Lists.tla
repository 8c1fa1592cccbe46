-------------------------------- MODULE Lists --------------------------------
(***************************************************************************)
(* What the code does with sorted() and with list comprehensions: the        *)
(* elements of a set of numbers in their order, the elements of a sequence   *)
(* that are kept, and a sequence without its repetitions.                    *)
(***************************************************************************)
EXTENDS Integers, FiniteSets, Sequences

\* The n-th element is the one that has n - 1 smaller ones.
Ascending(S) ==
  [n \in 1 .. Cardinality(S) |->
     CHOOSE x \in S : Cardinality({y \in S : y < x}) = n - 1]

\* The elements at the positions P, in the order they had.
KeepAt(s, P) ==
  LET order == Ascending(P)
  IN [n \in DOMAIN order |-> s[order[n]]]

\* Each element where it occurs first.
Distinct(s) == KeepAt(s, {i \in DOMAIN s : \A j \in 1 .. (i - 1) : s[j] # s[i]})
=============================================================================
