--------------------------- MODULE MCSessionStore ----------------------------
(* Instances of SessionStore for TLC.                                      *)
EXTENDS SessionStore

CONSTANTS k1, k2, w1, w2

TwoKeys == {k1, k2}
OneKey == {k1}
OneWorker == {w1}
TwoWorkers == {w1, w2}

Deployed(faults, awaits, durable, workers, keys) ==
  [faults : faults, awaits : awaits, durable : durable,
   workers : {workers}, keys : {keys}]

\* A healthy hook, bad hooks, and everything that can go wrong, with a hook that
\* suspends and with one that does not: one worker, in memory and in SQLite, and
\* two workers on one database.  The hook of the repository is prompt and does
\* not suspend: two workers with two keys.
SomeDeployments ==
  LET Bad == {{}, {"slow", "fail"}, Fault}
  IN Deployed(Bad, BOOLEAN, BOOLEAN, OneWorker, TwoKeys)
     \cup Deployed(Bad, BOOLEAN, {TRUE}, TwoWorkers, OneKey)
     \cup Deployed({{}, {"restart"}}, {FALSE}, {TRUE}, TwoWorkers, TwoKeys)
=============================================================================
