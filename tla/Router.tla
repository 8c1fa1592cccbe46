-------------------------------- MODULE Router --------------------------------
(***************************************************************************)
(* router/routing.py in each worker process of the service: the rules it    *)
(* loaded from routing.yaml, the chain a request gets from them, and        *)
(* POST /v1/routing/reload, which one worker answers.                       *)
(*                                                                         *)
(* One request type stands for all: types do not share anything but the     *)
(* file.  The adapter cache decides only which HTTP client a chain uses, and *)
(* a reload leaves the clients of running requests open, so it is left out.  *)
(***************************************************************************)
EXTENDS Naturals, Sequences, Service

CONSTANTS
  Providers,   \* provider:model specs a rule may name
  Unusable,    \* those whose adapter cannot be made: unknown, or no API key
  Rules,       \* the rules routing.yaml may hold: [primary, fallbacks, single]
  NoRule,      \* a file without a rule for the type: empty, misspelt
  Null,        \* "routing_rules:" with nothing under it
  Unreadable,  \* no file, or no YAML
  None,        \* an absent entry
  MaxEdits     \* bound of the model: edits of routing.yaml

Contents == Rules \cup {NoRule, Null}

ASSUME RouterAssumption ==
  /\ Unusable \subseteq Providers
  /\ \A rule \in Rules :
       /\ rule.primary \in Providers
       /\ rule.fallbacks \in Seq(Providers)
       /\ rule.single \in Providers \cup {None}
  /\ Rules \cap {NoRule, Null, Unreadable} = {}
  /\ None \notin Providers
  /\ MaxEdits \in Nat

VARIABLES
  file,     \* what routing.yaml holds
  edits,    \* the number of its edits
  rules     \* _routing_rules of each worker

routerVars == <<file, edits, rules>>

-----------------------------------------------------------------------------
Usable(p) == p \notin Unusable

\* get_fallback_chain: the list, then the single one unless it is in the list.
FallbackChain(rule) ==
  IF rule.single = None \/ \E i \in DOMAIN rule.fallbacks : rule.fallbacks[i] = rule.single
    THEN rule.fallbacks
    ELSE Append(rule.fallbacks, rule.single)

UsableFallbacks(rule) == SelectSeq(FallbackChain(rule), Usable)

\* route raises when there is no rule, or nothing in it is usable; else the
\* first usable provider and every usable fallback make the chain
\* (_build_fallback_chain), without suspending in between.
Routable(content) ==
  /\ content \in Rules
  /\ Usable(content.primary) \/ UsableFallbacks(content) # <<>>

-----------------------------------------------------------------------------
RouterInit ==
  /\ file \in {content \in Contents : Routable(content)}
  /\ edits = 0
  /\ rules = [w \in Workers |-> file]

Edit ==
  /\ edits < MaxEdits
  /\ edits' = edits + 1
  /\ file' \in (Contents \cup {Unreadable}) \ {file}
  /\ UNCHANGED rules

\* Mutated form: the rules are cleared with the cache, before the file is read.
ReloadClears(w) ==
  /\ rules' = [rules EXCEPT ![w] = IF file = Unreadable THEN NoRule ELSE file]
  /\ UNCHANGED <<file, edits>>

\* reload_config: it raises before anything is assigned when the file cannot be
\* read; null rules are assigned before counting them raises.  The other
\* workers keep the rules they have.
Reload(w) ==
  /\ file # Unreadable
  /\ rules' = [rules EXCEPT ![w] = file]
  /\ UNCHANGED <<file, edits>>

\* A new process loads the file, or does not come up.
RestartRouter(w) ==
  /\ file \notin {Unreadable, Null}
  /\ rules' = [rules EXCEPT ![w] = file]
  /\ UNCHANGED <<file, edits>>
=============================================================================
