----------------------------- MODULE MCFallback ------------------------------
(* Instances of Fallback for TLC.                                          *)
EXTENDS Fallback

CONSTANTS c1, c2, m, a, b

TwoCalls == {c1, c2}
AB == {a, b}

\* A chain as shipped, one that comes back to its first provider, and one
\* without a fallback.
ABChains == {<<a, b>>, <<a, b, a>>, <<a>>}
JustAB   == {<<a, b>>}

\* All calls on one manager; and one manager for each call, as main.py does.
Shared     == {m}
AllOnOne   == [c \in TwoCalls |-> m]
OneEach    == [c \in TwoCalls |-> c]
=============================================================================
