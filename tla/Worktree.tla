------------------------------ MODULE Worktree ------------------------------
(***************************************************************************)
(* The worktree of one agent id (daemon/src/worktree.rs): `create` for the *)
(* next agent with that id, `handoff worktree clean`, and those who work   *)
(* in the directory meanwhile.  Ids are given out again once the database  *)
(* has been deleted.  Each git command may fail.                           *)
(***************************************************************************)
EXTENDS Integers

CONSTANT MaxSteps      \* bound on creations, cleanings and edits

ASSUME WorktreeAssumption == MaxSteps \in Nat

\* What may be in a worktree besides its checkout: changes to tracked files, new
\* files, and commits, which no branch names.
Pieces == {"tracked", "untracked", "commits"}

VARIABLES
  there,         \* whether the directory exists
  pieces,        \* what is in it
  listed_by_git, \* whether git knows it
  creating,      \* where create is
  steps,         \* so far (bounded)
  late,          \* history: something was written since create read the status
  blind          \* history: the status could not be read

treeVars == <<there, pieces, listed_by_git, creating, steps, late, blind>>

WorktreeInit ==
  /\ there = FALSE
  /\ pieces = {}
  /\ listed_by_git = FALSE
  /\ creating = "no"
  /\ steps = 0
  /\ late = FALSE
  /\ blind = FALSE

OneStep == steps < MaxSteps /\ steps' = steps + 1

Uncommitted_pieces == pieces \cap {"tracked", "untracked"}

------------------------------------------------------------------------------
(* Work in the directory *)

WriteInTree ==
  /\ there
  /\ OneStep
  /\ \/ \E p \in {"tracked", "untracked"} : pieces' = pieces \cup {p}
     \/ Uncommitted_pieces # {} /\ pieces' = {"commits"}
  /\ late' = (creating # "no")
  /\ UNCHANGED <<there, listed_by_git, creating, blind>>

\* The user removes the directory without git.
DeleteTree ==
  /\ there
  /\ OneStep
  /\ there' = FALSE
  /\ pieces' = {}
  /\ UNCHANGED <<listed_by_git, creating, late, blind>>

------------------------------------------------------------------------------
(* create *)

\* Seeded fault: the status as `git diff HEAD` tells it, without new files.
has_uncommitted_changes_diff == "tracked" \in pieces

\* git status --porcelain.
has_uncommitted_changes == Uncommitted_pieces # {}

\* A status that fails prints nothing, which counts as clean.
CheckTree ==
  /\ creating = "no"
  /\ OneStep
  /\ late' = FALSE
  /\ \/ /\ creating' = IF there /\ has_uncommitted_changes THEN "no" ELSE "checked"
        /\ blind' = FALSE
     \/ /\ there
        /\ creating' = "checked"
        /\ blind' = TRUE
  /\ UNCHANGED <<there, pieces, listed_by_git>>

\* git worktree remove --force, and prune.  A directory this project's git does
\* not know, or cannot remove, stays.
Removed ==
  \/ /\ there /\ listed_by_git
     /\ there' = FALSE /\ pieces' = {} /\ listed_by_git' = FALSE
  \/ UNCHANGED <<there, pieces, listed_by_git>>

\* What create finds in the way is removed, and nothing is if it is not there.
RemoveStale ==
  /\ creating = "checked"
  /\ creating' = "removed"
  /\ IF there THEN Removed ELSE UNCHANGED <<there, pieces, listed_by_git>>
  /\ UNCHANGED <<steps, late, blind>>

\* Seeded fault: what git says of the new worktree is not looked at.
add_failed_ignored == "ready"

\* ensure!: the agent is not started.
add_failed == "no"

\* git worktree add, which refuses a directory that is there and a path it still
\* lists.
AddTree ==
  /\ creating = "removed"
  /\ \/ /\ ~there /\ ~listed_by_git
        /\ there' = TRUE /\ listed_by_git' = TRUE /\ pieces' = {}
        /\ creating' = "ready"
     \/ creating' = add_failed /\ UNCHANGED <<there, pieces, listed_by_git>>
  /\ late' = FALSE
  /\ UNCHANGED <<steps, blind>>

\* The agent is started in it.
StartAgent ==
  /\ creating = "ready"
  /\ creating' = "no"
  /\ UNCHANGED <<there, pieces, listed_by_git, steps, late, blind>>

\* `handoff worktree clean`.
Clean ==
  /\ there
  /\ OneStep
  /\ Removed
  /\ UNCHANGED <<creating, late, blind>>

WorktreeNext ==
  WriteInTree \/ DeleteTree \/ CheckTree \/ RemoveStale \/ AddTree \/ StartAgent \/ Clean

WorktreeSpec == WorktreeInit /\ [][WorktreeNext]_treeVars

------------------------------------------------------------------------------
(* Properties *)

WorktreeTypeOK ==
  /\ {there, listed_by_git, late, blind} \subseteq BOOLEAN
  /\ pieces \subseteq Pieces
  /\ pieces # {} => there
  /\ creating \in {"no", "checked", "removed", "ready"}

\* create discards no uncommitted work, new files included, unless it was written
\* after the status was read or the status could not be read; what is committed
\* only in the worktree it may discard ("Refuse to clobber an existing worktree
\* that has uncommitted work").
UncommittedIsKept ==
  [][creating = "checked" /\ creating' = "removed" /\ there /\ ~there' /\ ~late /\ ~blind
     => Uncommitted_pieces = {}]_treeVars

\* An agent is started only in a worktree made for it: what others have left
\* in the directory, or written since, is not what it finds.
StartsInItsOwn ==
  creating = "ready" /\ ~late => pieces = {} \/ ~there
=============================================================================
