------------------------------ MODULE MCDaemon ------------------------------
(***************************************************************************)
(* Small instances of module Daemon for TLC.                               *)
(***************************************************************************)
EXTENDS Daemon, TLC

MCKinds == {"claude", "codex"}
MCHeadless == {"claude", "codex"}

BasePolicy ==
  [tokens_remaining_pct |-> 10,
   tokens_remaining_abs |-> NoValue,
   requests_remaining   |-> 5,
   chain                |-> <<"claude", "codex">>,
   auto_spawn           |-> TRUE,
   summarize            |-> FALSE,
   use_worktree         |-> FALSE]

SpawningPolicies == {BasePolicy}

\* The agent is started in a worktree of its own.
WorktreePolicies == {[BasePolicy EXCEPT !.use_worktree = TRUE]}

\* The snapshot is summarized before the agent is started.
BriefingPolicies == {[BasePolicy EXCEPT !.summarize = TRUE]}

\* The handoff is only recorded; no agent is started.
NotingPolicies == {[BasePolicy EXCEPT !.auto_spawn = FALSE]}

\* An editor whose companion reports two assistants under its own pid.
MCPrograms == MCKinds \cup {"editor"}
MCReported ==
  [g \in MCPrograms |-> IF g = "editor" THEN {"claude", "codex"} ELSE {g}]

\* No action tells one handler from another.
HandlerSymmetry == Permutations(Handlers)

Low == {0}
NoKinds == {}
NoNumbers == {NoValue}
=============================================================================
