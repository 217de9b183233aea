------------------------------ MODULE Snapshot ------------------------------
(***************************************************************************)
(* ContextEngine::snapshot and write_snapshot: what git tells about the    *)
(* project, one command after the other while the user works on it, and    *)
(* the two files of a snapshot, whose name is the second it was begun in.  *)
(* An executor of a handoff writes them twice, the second time with the    *)
(* summarizer's brief, and records their path; `handoff snapshot` writes   *)
(* them once.  The critic's reports have names of the same form.           *)
(*                                                                         *)
(* A piece of work is a change to one file.  Fewer commits are made        *)
(* meanwhile than `git log` lists.                                         *)
(***************************************************************************)
EXTENDS Integers, Sequences

CONSTANTS
  Work,                   \* pieces of work
  Executors, Snappers,    \* handoffs under way, and `handoff snapshot`
  LastSecond,             \* bound on time
  MaxTouches,             \* bound on what the user does
  MaxLapses               \* bound on commands and writes that fail

ASSUME SnapshotAssumption ==
  /\ Executors \cap Snappers = {}
  /\ {LastSecond, MaxTouches, MaxLapses} \subseteq Nat

Makers == Executors \cup Snappers

VARIABLES
  work,           \* per piece: "none", "untracked", "tracked" or "committed"
  second,
  stage,          \* per maker, what it does next
  stem,           \* per maker, generated_at: the second its snapshot began
  named,          \* per maker, the work its snapshot names
  brief,          \* per maker, whether its snapshot has a brief
  pages,          \* per second, whose contents the .json and the .md have
  touches, lapses,    \* so far (bounded)
  pending_work,   \* history, per maker: work that was there when it began and
                  \* has not been undone since
  unread,         \* history: makers for which git has failed
  recorded        \* history: makers whose path is in table handoffs

snapshotVars == <<work, second, stage, stem, named, brief, pages, touches, lapses,
                  pending_work, unread, recorded>>

\* Seeded fault: the history is read before the state of the files.
git_commands_history_first == <<"log", "diff", "status", "ls">>

\* diff_head, files_touched, head_info and log, untracked_files.
git_commands == <<"diff", "status", "log", "ls">>

SnapshotStages == {"begin", "git", "json", "md", "ask", "final_json", "final_md", "record", "done"}

NoContents == [by |-> "none", brief |-> FALSE]

SnapshotInit ==
  /\ work \in [Work -> {"none", "untracked", "tracked"}]
  /\ second = 0
  /\ stage = [m \in Makers |-> <<"begin", 0>>]
  /\ stem = [m \in Makers |-> 0]
  /\ named = [m \in Makers |-> {}]
  /\ brief = [m \in Makers |-> FALSE]
  /\ pages = [s \in 0 .. LastSecond |-> [json |-> NoContents, md |-> NoContents]]
  /\ touches = 0
  /\ lapses = 0
  /\ pending_work = [m \in Makers |-> {}]
  /\ unread = {}
  /\ recorded = {}

Lapse == lapses < MaxLapses /\ lapses' = lapses + 1

At(m, s) == stage[m][1] = s

Next_stage(m, s) == stage' = [stage EXCEPT ![m] = <<s, 0>>]

------------------------------------------------------------------------------
(* The user *)

Uncommitted == {w \in Work : work[w] \in {"untracked", "tracked"}}

\* An edit, git add, git commit, or an end to what was not committed.
Touch ==
  /\ touches < MaxTouches
  /\ touches' = touches + 1
  /\ \/ \E w \in Work :
          \/ /\ work[w] = "none"
             /\ \E s \in {"untracked", "tracked"} : work' = [work EXCEPT ![w] = s]
             /\ UNCHANGED pending_work
          \/ /\ work[w] = "untracked"
             /\ work' = [work EXCEPT ![w] = "tracked"]
             /\ UNCHANGED pending_work
          \/ /\ w \in Uncommitted
             /\ work' = [work EXCEPT ![w] = "none"]
             /\ pending_work' = [m \in Makers |-> pending_work[m] \ {w}]
     \/ /\ work' = [w \in Work |-> IF work[w] = "tracked" THEN "committed" ELSE work[w]]
        /\ UNCHANGED pending_work
  /\ UNCHANGED <<second, stage, stem, named, brief, pages, lapses, unread, recorded>>

SecondPasses ==
  /\ second < LastSecond
  /\ second' = second + 1
  /\ UNCHANGED <<work, stage, stem, named, brief, pages, touches, lapses,
                 pending_work, unread, recorded>>

------------------------------------------------------------------------------
(* snapshot *)

BeginSnapshot(m) ==
  /\ At(m, "begin")
  /\ stage' = [stage EXCEPT ![m] = <<"git", 1>>]
  /\ stem' = [stem EXCEPT ![m] = second]
  /\ pending_work' = [pending_work EXCEPT ![m] = Uncommitted]
  /\ UNCHANGED <<work, second, named, brief, pages, touches, lapses, unread, recorded>>

In(states) == {w \in Work : work[w] \in states}

\* A long diff is cut off, so any part of it may be missing.
Told(command) ==
  CASE command = "diff" -> SUBSET In({"tracked"})
    [] command = "status" -> {Uncommitted}
    [] command = "log" -> {In({"committed"})}
    [] command = "ls" -> {In({"untracked"})}

is_last(i) == i = Len(git_commands)

\* A command that fails is as one that tells nothing.
AskGit(m) ==
  /\ At(m, "git")
  /\ \/ /\ \E told \in Told(git_commands[stage[m][2]]) :
             named' = [named EXCEPT ![m] = @ \cup told]
        /\ UNCHANGED <<lapses, unread>>
     \/ /\ Lapse
        /\ unread' = unread \cup {m}
        /\ UNCHANGED named
  /\ IF is_last(stage[m][2])
     THEN Next_stage(m, "json")
     ELSE stage' = [stage EXCEPT ![m][2] = @ + 1]
  /\ UNCHANGED <<work, second, stem, brief, pages, touches, pending_work, recorded>>

------------------------------------------------------------------------------
(* write_snapshot *)

\* Seeded fault: the file is named by the second it is written in.
written_stem_now(m) == second

\* Both writes of an executor go to the same path.
written_stem(m) == stem[m]

Contents_of(m) == [by |-> m, brief |-> brief[m]]

after ==
  [json |-> "md", md |-> "ask", final_json |-> "final_md", final_md |-> "record"]

\* A write that fails ends the handoff, or the command.
WriteFile(m) ==
  /\ stage[m][1] \in DOMAIN after
  /\ \/ /\ LET ext == IF stage[m][1] \in {"json", "final_json"} THEN "json" ELSE "md" IN
           pages' = [pages EXCEPT ![written_stem(m)][ext] = Contents_of(m)]
        /\ Next_stage(m, IF m \in Snappers /\ At(m, "md") THEN "done" ELSE after[stage[m][1]])
        /\ UNCHANGED lapses
     \/ Lapse /\ Next_stage(m, "done") /\ UNCHANGED pages
  /\ UNCHANGED <<work, second, stem, named, brief, touches, pending_work, unread, recorded>>

\* The summarizer answers, fails, or is not asked.
AskForBrief(m) ==
  /\ At(m, "ask")
  /\ \E answered \in BOOLEAN : brief' = [brief EXCEPT ![m] = answered]
  /\ Next_stage(m, "final_json")
  /\ UNCHANGED <<work, second, stem, named, pages, touches, lapses, pending_work,
                 unread, recorded>>

\* The path goes to the next agent and to table handoffs.
RecordPath(m) ==
  /\ At(m, "record")
  /\ recorded' = recorded \cup {m}
  /\ Next_stage(m, "done")
  /\ UNCHANGED <<work, second, stem, named, brief, pages, touches, lapses,
                 pending_work, unread>>

SnapshotNext ==
  \/ Touch \/ SecondPasses
  \/ \E m \in Makers :
       BeginSnapshot(m) \/ AskGit(m) \/ WriteFile(m) \/ AskForBrief(m) \/ RecordPath(m)

SnapshotSpec == SnapshotInit /\ [][SnapshotNext]_snapshotVars

------------------------------------------------------------------------------
(* Properties *)

SnapshotTypeOK ==
  /\ \A m \in Makers :
       /\ stage[m][1] \in SnapshotStages
       /\ At(m, "git") => stage[m][2] \in DOMAIN git_commands
       /\ stem[m] \in 0 .. second
       /\ named[m] \subseteq Work
  /\ recorded \subseteq Executors

\* All work that was not committed when a snapshot was begun is named in it, in
\* the diff, among the files touched or in the log, although the diff may be
\* cut off and the user adds and commits while git is asked: unless it was
\* undone meanwhile or git has failed (snapshot asks for the history last).
WorkIsNamed ==
  \A m \in Makers :
    stage[m][1] \notin {"begin", "git"} /\ m \notin unread => pending_work[m] \subseteq named[m]

Alone(m) == \A n \in Makers \ {m} : At(n, "begin") \/ stem[n] # stem[m]

\* The path of a recorded handoff holds its own snapshot, both forms of it and
\* with its brief, unless another was begun in the same second (generated_at).
RecordedIsItsOwn ==
  \A m \in recorded :
    Alone(m) => /\ pages[stem[m]].md = Contents_of(m)
                /\ pages[stem[m]].json = Contents_of(m)
=============================================================================
