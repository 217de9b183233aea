----------------------------- MODULE MCFailover -----------------------------
(***************************************************************************)
(* Small instances of module Failover for TLC.                             *)
(***************************************************************************)
EXTENDS Failover, TLC

MCKinds == {"claude", "codex"}
MCHeadless == {"claude"}

BasePolicy ==
  [tokens_remaining_pct |-> 10,
   tokens_remaining_abs |-> NoValue,
   requests_remaining   |-> 5,
   chain                |-> <<"claude", "codex">>,
   auto_spawn           |-> TRUE,
   summarize            |-> FALSE,
   use_worktree         |-> FALSE]

\* The default configuration, with a chain of two.
DefaultPolicies == {BasePolicy}

\* One with an absolute threshold that asks for a brief and a worktree.
BriefPolicy ==
  [BasePolicy EXCEPT !.tokens_remaining_abs = 50, !.summarize = TRUE,
                     !.use_worktree = TRUE]

\* With and without a brief and a worktree: the user edits config.toml.
BriefPolicies == {BasePolicy, BriefPolicy}

OneBriefPolicy == {BriefPolicy}

OnlyEmpty == {0}
MCTokens == {0, 100}
MCRequests == {NoValue}
=============================================================================
