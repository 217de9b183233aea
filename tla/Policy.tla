------------------------------- MODULE Policy -------------------------------
(***************************************************************************)
(* The decision functions of crates/policy: when a rate sample calls for a *)
(* handoff (should_trigger) and which kind of agent receives it            *)
(* (pick_next).  Both are pure; the failover engine calls them with the    *)
(* policy it has just read from .handoff/config.toml.                      *)
(*                                                                         *)
(* An Option<i64> is a natural number or NoValue.                          *)
(***************************************************************************)
EXTENDS Integers, Sequences

CONSTANT Kinds      \* the agent kinds a failover chain may name

NoValue == -1       \* None

OptNat == Nat \cup {NoValue}

(***************************************************************************)
(* The [failover] table.  tokens_remaining_pct is an f64 in the code; the  *)
(* comparison is done here in integers by multiplying out, which keeps the *)
(* strict inequality.  return_to_primary is parsed and never read.         *)
(***************************************************************************)
FailoverPolicy ==
  [tokens_remaining_pct : Nat,
   tokens_remaining_abs : OptNat,
   requests_remaining   : Nat,
   chain                : Seq(Kinds),
   auto_spawn           : BOOLEAN,
   summarize            : BOOLEAN,
   use_worktree         : BOOLEAN]

\* Seeded fault: a zero is taken for a missing header.
should_trigger_zero_unseen(p, tokens, requests, initial) ==
  \/ tokens > 0 /\ tokens < p.tokens_remaining_abs
  \/ tokens > 0 /\ 100 * tokens < p.tokens_remaining_pct * initial
  \/ requests > 0 /\ requests < p.requests_remaining

should_trigger(p, tokens, requests, initial) ==
  \/ /\ tokens # NoValue
     /\ p.tokens_remaining_abs # NoValue
     /\ tokens < p.tokens_remaining_abs
  \/ /\ tokens # NoValue
     /\ initial # NoValue
     /\ initial > 0
     /\ 100 * tokens < p.tokens_remaining_pct * initial
  \/ /\ requests # NoValue
     /\ requests < p.requests_remaining

(***************************************************************************)
(* samples[k] is the tokens_remaining of the newest sample of kind k, or   *)
(* NoValue when the store has none for it.                                 *)
(***************************************************************************)
candidates(chain, current) == {i \in DOMAIN chain : chain[i] # current}

samples_empty(chain, samples) ==
  \A i \in DOMAIN chain : samples[chain[i]] = NoValue

tokens_of(samples, k) == IF samples[k] = NoValue THEN 0 ELSE samples[k]

\* Seeded faults: the first of several maximal elements; the fewest tokens.
preferred_first(chain, samples, i, j) ==
  LET s == tokens_of(samples, chain[i])
      t == tokens_of(samples, chain[j])
  IN  s > t \/ (s = t /\ i < j)

preferred_least(chain, samples, i, j) ==
  LET s == tokens_of(samples, chain[i])
      t == tokens_of(samples, chain[j])
  IN  s < t \/ (s = t /\ i > j)

\* Position i is preferred to j: the first one without any samples, else the
\* one with more tokens; Iterator::max_by_key returns the LAST of several
\* maximal elements.
preferred(chain, samples, i, j) ==
  IF samples_empty(chain, samples)
  THEN i < j
  ELSE LET s == tokens_of(samples, chain[i])
           t == tokens_of(samples, chain[j])
       IN  s > t \/ (s = t /\ i > j)

\* The Option<&str> of the code as a set: {} is None.
pick_next(chain, current, samples) ==
  {chain[i] : i \in
     {i \in candidates(chain, current) :
        \A j \in candidates(chain, current) \ {i} :
          preferred(chain, samples, i, j)}}
=============================================================================
