------------------------------- MODULE Review -------------------------------
(***************************************************************************)
(* `handoff critic watch` and `handoff critic run`: the watcher of         *)
(* crates/critic/src/watch.rs and the worker/critic loop of lib.rs, as     *)
(* crates/cli drives them from one task.                                   *)
(*                                                                         *)
(* The watcher polls modification times; once no change has been seen for  *)
(* the debounce period it runs the critic, and polls again only when that  *)
(* run is over.  Users and agents edit files at any moment: while the      *)
(* watcher is between two files of a scan, and while an agent works.       *)
(*                                                                         *)
(* Modification times are counted in edits, which keep their order; two    *)
(* edits within one tick of the file system's clock are one edit here.     *)
(* Time is what has passed since a reading of the clock, up to Debounce.   *)
(***************************************************************************)
EXTENDS Integers, FiniteSets, Sequences

CONSTANTS
  Files,        \* the tracked files of the project
  MaxRounds,    \* max_rounds of the [review] table
  Debounce,     \* the debounce period, in units of time
  MaxEdits      \* bound on edits

ASSUME ReviewAssumption ==
  /\ IsFiniteSet(Files)
  /\ {MaxRounds, Debounce, MaxEdits} \subseteq Nat

VARIABLES
  mtime,         \* per file, its modification time, or Absent
  edits,         \* edits so far
  one_shot,      \* whether this is `critic run`
  pc,            \* where the task is
  mtimes, pending, last_change,   \* WatchLoop; last_change as time passed
  unscanned, changed,             \* locals of tick: the files left to look at
  quiet, read_at,                 \* and its `now`: the time that had passed
                                  \* since last_change, and that has since
  run,           \* critic runs begun
  round, feedback, output, verdict,   \* locals of CriticRunner::run
  scratch,       \* the critic's files under .handoff/scratch
  critic_runs,   \* table critic_runs
  unreviewed,    \* history: files edited since the last run began
  judgements     \* history: what the critic has said of which output

fileVars == <<mtime, edits, unreviewed>>
tickVars == <<unscanned, changed, quiet, read_at>>
watchVars == <<mtimes, pending, last_change>>
runVars == <<run, round, feedback, output, verdict, judgements>>
outVars == <<scratch, critic_runs>>
reviewVars == <<fileVars, one_shot, pc, tickVars, watchVars, runVars, outVars>>

Absent == -1
Never == -1        \* last_change is None

\* The worker's answer: in which run and round it was given, which notes it
\* was asked to take up, and whether it has a <diff>.
Output == [run : Nat, round : Nat, takes_up : Nat \X Nat, diff : BOOLEAN]

NoNotes == <<0, 0>>
NoOutput == [run |-> 0, round |-> 0, takes_up |-> NoNotes, diff |-> FALSE]

\* parse_verdict knows two verdicts; whatever else the critic says is a
\* redirect with notes of its own.
Verdicts == {"approve", "redirect"}

Result == [run : Nat, verdict : {"APPROVED", "MAX_ROUNDS_REACHED"}, output : Output]

PC == {"sleep", "scan", "worker", "critic", "write_md", "write_diff", "record",
       "done"}

\* Where CriticRunner::run begins: without rounds, the report is all there is.
first_round == IF MaxRounds > 0 THEN 1 ELSE 0
first_step == IF MaxRounds > 0 THEN "worker" ELSE "write_md"

\* WatchLoop::new takes a first snapshot; `critic run` starts at once.
ReviewInit ==
  /\ mtime \in [Files -> {0, Absent}]
  /\ edits = 0
  /\ one_shot \in BOOLEAN
  /\ mtimes = [f \in {g \in Files : mtime[g] # Absent /\ ~one_shot} |-> 0]
  /\ pending = {}
  /\ last_change = Never
  /\ unscanned = {}
  /\ changed = {}
  /\ quiet = Never
  /\ read_at = 0
  /\ feedback = NoNotes
  /\ output = NoOutput
  /\ verdict = "MAX_ROUNDS_REACHED"
  /\ scratch = {}
  /\ critic_runs = <<>>
  /\ unreviewed = {}
  /\ judgements = {}
  /\ IF one_shot
     THEN run = 1 /\ round = first_round /\ pc = first_step
     ELSE run = 0 /\ round = 0 /\ pc = "sleep"

------------------------------------------------------------------------------
(* WatchLoop::tick *)

\* tick_now reads the clock, and scan lists the tracked files.
BeginTick ==
  /\ pc = "sleep"
  /\ pc' = "scan"
  /\ unscanned' = Files
  /\ changed' = {}
  /\ quiet' = last_change
  /\ read_at' = 0
  /\ UNCHANGED <<fileVars, one_shot, watchVars, runVars, outVars>>

\* One file's metadata.  A file that is not there keeps its old time, and one
\* that is new is only remembered.
Stat(f) ==
  /\ pc = "scan"
  /\ f \in unscanned
  /\ unscanned' = unscanned \ {f}
  /\ IF mtime[f] = Absent
     THEN UNCHANGED <<mtimes, changed>>
     ELSE /\ mtimes' = [g \in DOMAIN mtimes \cup {f} |->
                          IF g = f THEN mtime[f] ELSE mtimes[g]]
          /\ changed' = IF f \in DOMAIN mtimes /\ mtime[f] > mtimes[f]
                        THEN changed \cup {f} ELSE changed
  /\ UNCHANGED <<fileVars, one_shot, pc, quiet, read_at, pending, last_change,
                 runVars, outVars>>

pending_now == pending \cup changed

since_change == IF changed # {} THEN 0 ELSE quiet

fired ==
  since_change # Never /\ pending_now # {} /\ since_change >= Debounce

\* Seeded fault: what has been reviewed stays pending.
cleared_keeping == [pending |-> pending_now, last_change |-> last_change]

cleared == [pending |-> {}, last_change |-> Never]

Scanned == pc = "scan" /\ unscanned = {}

\* Seeded fault: every tick with something pending restarts the period.
Wait_restarting ==
  /\ Scanned
  /\ ~fired
  /\ pending' = pending_now
  /\ last_change' = IF pending_now # {} THEN read_at ELSE last_change
  /\ pc' = "sleep"
  /\ UNCHANGED <<fileVars, one_shot, tickVars, mtimes, runVars, outVars>>

\* Not quiet for long enough, or nothing to review.
Wait ==
  /\ Scanned
  /\ ~fired
  /\ pending' = pending_now
  /\ last_change' = IF changed # {} THEN read_at ELSE last_change
  /\ pc' = "sleep"
  /\ UNCHANGED <<fileVars, one_shot, tickVars, mtimes, runVars, outVars>>

\* Seeded fault: the notes of the last run's critic are still there.
notes_at_start_kept == feedback

notes_at_start == NoNotes

\* The watcher forgets what it has seen and CriticRunner::run begins.
StartRun ==
  /\ Scanned
  /\ fired
  /\ pending' = cleared.pending
  /\ last_change' = cleared.last_change
  /\ run' = run + 1
  /\ feedback' = notes_at_start
  /\ output' = NoOutput
  /\ verdict' = "MAX_ROUNDS_REACHED"
  /\ round' = first_round
  /\ pc' = first_step
  /\ unreviewed' = {}
  /\ UNCHANGED <<mtime, edits, one_shot, tickVars, mtimes, judgements, outVars>>

------------------------------------------------------------------------------
(* CriticRunner::run *)

\* Seeded fault: the watcher starts afresh after a run.
EndRun_afresh ==
  /\ pc' = IF one_shot THEN "done" ELSE "sleep"
  /\ mtimes' = [f \in {g \in Files : mtime[g] # Absent} |-> mtime[f]]
  /\ UNCHANGED <<pending, last_change>>

\* The watcher polls again; `critic run` is over.
EndRun ==
  /\ pc' = IF one_shot THEN "done" ELSE "sleep"
  /\ UNCHANGED watchVars

\* An agent that cannot be started or exits with an error ends the run.
Fails == EndRun /\ UNCHANGED <<runVars, outVars>>

\* The worker, with the critic's notes if there are any.
AskWorker ==
  /\ pc = "worker"
  /\ \/ /\ \E diff \in BOOLEAN :
             output' = [run |-> run, round |-> round, takes_up |-> feedback,
                        diff |-> diff]
        /\ pc' = "critic"
        /\ UNCHANGED <<watchVars, run, round, feedback, verdict, judgements, outVars>>
     \/ Fails
  /\ UNCHANGED <<fileVars, one_shot, tickVars>>

\* Seeded fault: one round too many.
rounds_left_inclusive == round <= MaxRounds

rounds_left == round < MaxRounds

\* The critic, of the output just made.
AskCritic ==
  /\ pc = "critic"
  /\ \/ \E v \in Verdicts :
          /\ judgements' = judgements \cup {<<output, v>>}
          /\ IF v = "approve"
             THEN /\ verdict' = "APPROVED"
                  /\ pc' = "write_md"
                  /\ UNCHANGED <<round, feedback>>
             ELSE /\ feedback' = <<run, round>>
                  /\ IF rounds_left
                     THEN pc' = "worker" /\ round' = round + 1
                     ELSE pc' = "write_md" /\ UNCHANGED round
                  /\ UNCHANGED verdict
          /\ UNCHANGED <<run, output, watchVars, outVars>>
     \/ Fails
  /\ UNCHANGED <<fileVars, one_shot, tickVars>>

report == [run |-> run, verdict |-> verdict, output |-> output]

\* write_artifacts: the report, then the diff unless it is empty.
WriteReport ==
  /\ pc = "write_md"
  /\ \/ /\ scratch' = scratch \cup {<<"md", report>>}
        /\ pc' = IF output.diff THEN "write_diff" ELSE "record"
        /\ UNCHANGED <<watchVars, runVars, critic_runs>>
     \/ Fails
  /\ UNCHANGED <<fileVars, one_shot, tickVars>>

\* Seeded fault: a diff that cannot be written is passed over.
WriteDiff_passing ==
  /\ pc = "write_diff"
  /\ scratch' \in {scratch, scratch \cup {<<"diff", report>>}}
  /\ pc' = "record"
  /\ UNCHANGED <<fileVars, one_shot, tickVars, watchVars, runVars, critic_runs>>

WriteDiff ==
  /\ pc = "write_diff"
  /\ \/ /\ scratch' = scratch \cup {<<"diff", report>>}
        /\ pc' = "record"
        /\ UNCHANGED <<watchVars, runVars, critic_runs>>
     \/ Fails
  /\ UNCHANGED <<fileVars, one_shot, tickVars>>

\* record_critic_run.  Whether the daemon can be reached is not looked at.
Record ==
  /\ pc = "record"
  /\ critic_runs' \in {Append(critic_runs, report), critic_runs}
  /\ EndRun
  /\ UNCHANGED <<fileVars, one_shot, tickVars, runVars, scratch>>

------------------------------------------------------------------------------
(* Users and agents *)

\* A file is saved, or appears again.  An edit of a file the watcher has never
\* seen is not one it could notice.
Edit(f) ==
  /\ edits < MaxEdits
  /\ edits' = edits + 1
  /\ mtime' = [mtime EXCEPT ![f] = edits + 1]
  /\ unreviewed' = unreviewed \cup ({f} \cap DOMAIN mtimes)
  /\ UNCHANGED <<one_shot, pc, tickVars, watchVars, runVars, outVars>>

\* It is removed, and with it what there was to review.
Delete(f) ==
  /\ mtime[f] # Absent
  /\ edits < MaxEdits
  /\ edits' = edits + 1
  /\ mtime' = [mtime EXCEPT ![f] = Absent]
  /\ unreviewed' = unreviewed \ {f}
  /\ UNCHANGED <<one_shot, pc, tickVars, watchVars, runVars, outVars>>

later(t) == IF t = Never \/ t = Debounce THEN t ELSE t + 1

TimePasses ==
  /\ last_change' = later(last_change)
  /\ read_at' = later(read_at)
  /\ UNCHANGED <<fileVars, one_shot, pc, unscanned, changed, quiet, mtimes,
                 pending, runVars, outVars>>

Poll == BeginTick \/ (\E f \in Files : Stat(f)) \/ Wait

Review == StartRun \/ AskWorker \/ AskCritic \/ WriteReport \/ WriteDiff \/ Record

ReviewNext ==
  \/ Poll
  \/ Review
  \/ \E f \in Files : Edit(f) \/ Delete(f)
  \/ TimePasses

ReviewSpec == ReviewInit /\ [][ReviewNext]_reviewVars

\* The task is polled and time passes; nothing makes an agent answer.
Polled == Poll \/ StartRun \/ WriteReport \/ WriteDiff \/ Record

FairReviewSpec ==
  /\ ReviewSpec
  /\ WF_reviewVars(Polled)
  /\ WF_reviewVars(TimePasses)

------------------------------------------------------------------------------
(* Properties *)

ReviewTypeOK ==
  /\ mtime \in [Files -> Nat \cup {Absent}]
  /\ pc \in PC
  /\ DOMAIN mtimes \subseteq Files
  /\ \A f \in DOMAIN mtimes : mtimes[f] \in 0 .. edits
  /\ pending \cup changed \cup unscanned \cup unreviewed \subseteq Files
  /\ {last_change, quiet} \subseteq Never .. Debounce
  /\ read_at \in 0 .. Debounce
  /\ round \in 0 .. MaxRounds
  /\ output \in Output
  /\ {w[2] : w \in scratch} \cup {critic_runs[i] : i \in DOMAIN critic_runs}
       \subseteq Result

\* An edit made since the last run began is not lost, wherever it falls: during
\* a scan, between two polls or while the agents of a run are at work, when
\* nobody polls.  It is pending, or the next look at the file will tell.
EditsAreSeen ==
  \A f \in unreviewed :
    \/ f \in pending \cup changed
    \/ mtime[f] > mtimes[f]

\* Runs are paid for by edits: what has started one run does not start another
\* (tick clears what is pending), however the scans and edits interleave.
RunsAreEarned == ~one_shot => run <= edits

\* A worker is asked to take up the notes its critic has just made in the same
\* run, and in the first round none: notes neither get lost nor leak from one
\* run of the watcher into the next (feedback in CriticRunner::run).
RevisionsTakeUpNotes ==
  \A j \in judgements :
    LET o == j[1] IN
    IF o.round = 1
    THEN o.takes_up = NoNotes
    ELSE /\ o.takes_up = <<o.run, o.round - 1>>
         /\ \E k \in judgements : /\ k[2] = "redirect"
                                  /\ <<k[1].run, k[1].round>> = o.takes_up

reports == {w[2] : w \in scratch}

\* A report says APPROVED of exactly the outputs the critic has approved, and
\* gives up only after the last round (the plan and diff it shows are those of
\* the verdict, although they are extracted again after the loop).
ReportsAreJudged ==
  \A r \in reports :
    /\ r.verdict = "APPROVED" <=> <<r.output, "approve">> \in judgements
    /\ r.verdict # "APPROVED" => r.output.round = MaxRounds
    /\ r.output # NoOutput => r.output.run = r.run

\* A run in the table has left its whole report on disk, and runs are recorded
\* in their order, at most once (record_critic_run comes after write_artifacts).
RecordedIsOnDisk ==
  \A i \in DOMAIN critic_runs :
    LET r == critic_runs[i] IN
    /\ <<"md", r>> \in scratch
    /\ r.output.diff => <<"diff", r>> \in scratch
    /\ \A j \in 1 .. i - 1 : critic_runs[j].run < r.run

AwaitingAgent == pc \in {"worker", "critic"}

\* Every edit of a known file is reviewed in the end, once the files have been
\* left alone for long enough, unless an agent does not answer: CriticRunner::ask
\* has no timeout, and the watcher does not poll meanwhile.
EditsAreReviewed ==
  \A f \in Files : f \in unreviewed ~> (f \notin unreviewed \/ AwaitingAgent)
=============================================================================
