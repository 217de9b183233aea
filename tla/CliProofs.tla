------------------------------ MODULE CliProofs ------------------------------
(***************************************************************************)
(* Theorems about what runs from a shell: the critic's watcher and reports *)
(* (Review) and the shell hook (ShellHook), for any number of files,       *)
(* edits, rounds, variables and lines; and the four parts of MCCli         *)
(* together, the services' theorems being those of BrainProofs.            *)
(***************************************************************************)
EXTENDS MCCli, BrainProofs, FiniteSetTheorems

------------------------------------------------------------------------------
(* The steps of a run, as the watcher sees them *)

Running == {"worker", "critic", "write_md", "write_diff", "record"}

RunStep == AskWorker \/ AskCritic \/ WriteReport \/ WriteDiff \/ Record

LEMMA FirstStep == first_step \in {"worker", "write_md"}
BY DEF first_step

\* They change nothing the watcher has, and do not scan.
LEMMA RunStepApart ==
  ASSUME RunStep
  PROVE  /\ UNCHANGED <<fileVars, one_shot, tickVars, watchVars, run>>
         /\ pc \in Running /\ pc' \in Running \cup {"sleep", "done"}
BY DEF RunStep, AskWorker, AskCritic, WriteReport, WriteDiff, Record, Fails, EndRun, Running,
  runVars, fileVars, tickVars, watchVars

------------------------------------------------------------------------------
(* What the watcher sees *)

WatchTypes ==
  /\ mtime \in [Files -> Nat \cup {Absent}]
  /\ edits \in Nat
  /\ \A f \in Files : mtime[f] <= edits
  /\ DOMAIN mtimes \subseteq Files
  /\ \A f \in DOMAIN mtimes : mtimes[f] \in Nat /\ mtimes[f] <= edits

\* The changes the watcher has noticed and not yet reviewed.
Noticed == pending \cup (IF pc = "scan" THEN changed ELSE {})

\* The files whose last change it has not noticed.
Behind == {f \in DOMAIN mtimes : mtime[f] > mtimes[f]}

SeenInv == unreviewed \subseteq Noticed \cup Behind

WatchInv == WatchTypes /\ SeenInv

LEMMA WatchInit == ReviewInit => WatchInv
BY ReviewAssumption DEF ReviewInit, WatchInv, WatchTypes, SeenInv, Absent

\* A look at a file notices what there was to notice.
LEMMA StatNotices ==
  ASSUME WatchTypes, NEW f \in Files, Stat(f)
  PROVE  /\ WatchTypes'
         /\ Behind' = Behind \ {f}
         /\ Noticed' = Noticed \cup ({f} \cap Behind)
<1>1. /\ pc = "scan" /\ pc' = "scan"
      /\ UNCHANGED <<mtime, edits, pending>>
  BY DEF Stat, fileVars
<1>2. CASE mtime[f] = Absent
  <2>1. UNCHANGED <<mtimes, changed>>
    BY <1>2 DEF Stat
  <2>2. f \notin Behind
    BY <1>2 DEF Behind, WatchTypes, Absent
  <2> QED BY <1>1, <2>1, <2>2 DEF WatchTypes, Behind, Noticed
<1>3. CASE mtime[f] # Absent
  <2>1. /\ mtimes' = [g \in DOMAIN mtimes \cup {f} |-> IF g = f THEN mtime[f] ELSE mtimes[g]]
        /\ changed' = IF f \in DOMAIN mtimes /\ mtime[f] > mtimes[f]
                      THEN changed \cup {f} ELSE changed
    BY <1>3 DEF Stat
  <2>2. mtime[f] \in Nat
    BY <1>3 DEF WatchTypes
  <2>3. WatchTypes'
    BY <1>1, <2>1, <2>2 DEF WatchTypes
  <2>4. Behind' = Behind \ {f}
    BY <1>1, <2>1, <2>2 DEF Behind
  <2>5. Noticed' = Noticed \cup ({f} \cap Behind)
    BY <1>1, <2>1 DEF Noticed, Behind
  <2> QED BY <2>3, <2>4, <2>5
<1> QED BY <1>2, <1>3

\* What users do leaves at most one more file behind.
LEMMA EditLeavesBehind ==
  ASSUME WatchTypes, NEW f \in Files, Edit(f)
  PROVE  /\ WatchTypes'
         /\ Behind' = Behind \cup ({f} \cap DOMAIN mtimes)
         /\ Noticed' = Noticed
<1>1. /\ mtime' = [mtime EXCEPT ![f] = edits + 1] /\ edits' = edits + 1
      /\ UNCHANGED <<mtimes, pending, changed, pc>>
  BY DEF Edit, watchVars, tickVars
<1>2. WatchTypes'
  <2>1. mtime' \in [Files -> Nat \cup {Absent}] /\ edits' \in Nat
    BY <1>1 DEF WatchTypes
  <2>2. ASSUME NEW g \in Files PROVE mtime'[g] <= edits'
    BY <1>1 DEF WatchTypes, Absent
  <2> QED BY <1>1, <2>1, <2>2 DEF WatchTypes
<1>3. Behind' = Behind \cup ({f} \cap DOMAIN mtimes)
  BY <1>1 DEF Behind, WatchTypes
<1> QED BY <1>1, <1>2, <1>3 DEF Noticed

LEMMA DeleteForgets ==
  ASSUME WatchTypes, NEW f \in Files, Delete(f)
  PROVE  /\ WatchTypes'
         /\ Behind' = Behind \ {f}
         /\ Noticed' = Noticed
<1>1. /\ mtime' = [mtime EXCEPT ![f] = Absent] /\ edits' = edits + 1
      /\ UNCHANGED <<mtimes, pending, changed, pc>>
  BY DEF Delete, watchVars, tickVars
<1>2. WatchTypes'
  BY <1>1 DEF WatchTypes, Absent
<1>3. Behind' = Behind \ {f}
  BY <1>1 DEF Behind, WatchTypes, Absent
<1> QED BY <1>1, <1>2, <1>3 DEF Noticed

\* Every other step.
LEMMA NothingNoticed ==
  ASSUME BeginTick \/ Wait \/ RunStep \/ TimePasses \/ UNCHANGED reviewVars
  PROVE  /\ UNCHANGED <<mtime, edits, mtimes, unreviewed, run, one_shot>>
         /\ Noticed' = Noticed
<1>1. CASE BeginTick
  BY <1>1 DEF BeginTick, Noticed, fileVars, watchVars, runVars
<1>2. CASE Wait
  BY <1>2 DEF Wait, Scanned, pending_now, Noticed, fileVars, runVars
<1>3. CASE RunStep
  BY <1>3, RunStepApart DEF Noticed, fileVars, watchVars, tickVars, Running
<1>4. CASE TimePasses \/ UNCHANGED reviewVars
  BY <1>4 DEF TimePasses, reviewVars, Noticed, fileVars, watchVars, tickVars, runVars
<1> QED BY <1>1, <1>2, <1>3, <1>4

\* A run begins with something noticed, and takes it all.
LEMMA StartTakesAll ==
  ASSUME StartRun
  PROVE  /\ UNCHANGED <<mtime, edits, mtimes, one_shot>> /\ run' = run + 1
         /\ unreviewed' = {} /\ Noticed # {} /\ Noticed' = {}
BY FirstStep DEF StartRun, Scanned, fired, pending_now, cleared, Noticed

LEMMA WatchKept ==
  ASSUME WatchInv, [ReviewNext]_reviewVars
  PROVE  WatchInv'
<1>1. ASSUME NEW f \in Files, Stat(f) PROVE WatchInv'
  BY <1>1, StatNotices DEF WatchInv, SeenInv, Stat, fileVars
<1>2. ASSUME NEW f \in Files, Edit(f) PROVE WatchInv'
  BY <1>2, EditLeavesBehind DEF WatchInv, SeenInv, Edit
<1>3. ASSUME NEW f \in Files, Delete(f) PROVE WatchInv'
  BY <1>3, DeleteForgets DEF WatchInv, SeenInv, Delete
<1>4. CASE BeginTick \/ Wait \/ RunStep \/ TimePasses \/ UNCHANGED reviewVars
  <2>1. UNCHANGED <<mtime, edits, mtimes, unreviewed>> /\ Noticed' = Noticed
    BY <1>4, NothingNoticed
  <2> QED BY <2>1 DEF WatchInv, WatchTypes, SeenInv, Behind
<1>5. CASE StartRun
  BY <1>5, StartTakesAll DEF WatchInv, WatchTypes, SeenInv
<1> QED BY <1>1, <1>2, <1>3, <1>4, <1>5 DEF ReviewNext, Poll, Review, RunStep

LEMMA WatchInvariant == ReviewSpec => []WatchInv
BY WatchInit, WatchKept, PTL DEF ReviewSpec

\* No edit of a known file is lost on the watcher, wherever it falls between its
\* scans and its runs (tick).
THEOREM NoEditLost == ReviewSpec => []EditsAreSeen
<1>1. WatchInv => EditsAreSeen
  BY DEF WatchInv, SeenInv, Noticed, Behind, EditsAreSeen
<1> QED BY <1>1, WatchInvariant, PTL

------------------------------------------------------------------------------
(* What runs are paid with: edits, noticed or not *)

owed == IF Noticed = {} THEN 0 ELSE 1

EarnedInv == ~one_shot => run + owed + Cardinality(Behind) <= edits

PaidInv ==
  /\ WatchInv
  /\ run \in Nat
  /\ EarnedInv

LEMMA BehindIsFinite ==
  ASSUME WatchTypes
  PROVE  /\ IsFiniteSet(Behind) /\ Cardinality(Behind) \in Nat
         /\ \A f \in Behind : Cardinality(Behind \ {f}) = Cardinality(Behind) - 1
<1>1. IsFiniteSet(Behind)
  BY FS_Subset, ReviewAssumption DEF WatchTypes, Behind
<1> QED BY <1>1, FS_CardinalityType, FS_RemoveElement

LEMMA PaidInit == ReviewInit => PaidInv
<1> SUFFICES ASSUME ReviewInit PROVE PaidInv
  OBVIOUS
<1>1. WatchInv
  BY WatchInit
<1>2. run \in Nat /\ (~one_shot => run = 0) /\ edits = 0
  BY DEF ReviewInit
<1>3. Behind = {}
  BY DEF ReviewInit, Behind
<1>4. Noticed = {}
  BY DEF ReviewInit, Noticed
<1> QED BY <1>1, <1>2, <1>3, <1>4, FS_EmptySet DEF PaidInv, EarnedInv, owed

LEMMA PaidKept ==
  ASSUME PaidInv, [ReviewNext]_reviewVars
  PROVE  PaidInv'
<1> USE DEF PaidInv, EarnedInv, WatchInv
<1>1. WatchInv'
  BY WatchKept
<1>2. IsFiniteSet(Behind) /\ Cardinality(Behind) \in Nat /\ edits \in Nat /\ owed \in {0, 1}
  BY BehindIsFinite DEF WatchTypes, owed
<1>3. ASSUME NEW f \in Files, Stat(f) PROVE PaidInv'
  <2>1. UNCHANGED <<run, edits, one_shot>>
    BY <1>3 DEF Stat, fileVars, runVars
  <2>2. CASE f \in Behind
    <3>1. Cardinality(Behind') = Cardinality(Behind) - 1 /\ owed' \in {0, 1}
      BY <1>3, <2>2, StatNotices, BehindIsFinite DEF owed
    <3> QED BY <1>1, <1>2, <2>1, <3>1
  <2>3. CASE f \notin Behind
    <3>1. Behind' = Behind /\ owed' = owed
      BY <1>3, <2>3, StatNotices DEF owed
    <3> QED BY <1>1, <1>2, <2>1, <3>1
  <2> QED BY <2>2, <2>3
<1>4. ASSUME NEW f \in Files, Edit(f) PROVE PaidInv'
  <2>1. UNCHANGED <<run, one_shot>> /\ edits' = edits + 1 /\ owed' = owed
    BY <1>4, EditLeavesBehind DEF Edit, runVars, owed
  <2>2. Cardinality(Behind') \in {Cardinality(Behind), Cardinality(Behind) + 1}
    <3>1. Behind' = Behind \/ Behind' = Behind \cup {f}
      BY <1>4, EditLeavesBehind
    <3> QED BY <1>2, <3>1, FS_AddElement
  <2> QED BY <1>1, <1>2, <2>1, <2>2
<1>5. ASSUME NEW f \in Files, Delete(f) PROVE PaidInv'
  <2>1. UNCHANGED <<run, one_shot>> /\ edits' = edits + 1 /\ owed' = owed
    BY <1>5, DeleteForgets DEF Delete, runVars, owed
  <2>2. Cardinality(Behind') \in {Cardinality(Behind), Cardinality(Behind) - 1}
    BY <1>2, <1>5, DeleteForgets, FS_RemoveElement
  <2> QED BY <1>1, <1>2, <2>1, <2>2
<1>6. CASE BeginTick \/ Wait \/ RunStep \/ TimePasses \/ UNCHANGED reviewVars
  <2>1. UNCHANGED <<run, one_shot, edits, owed, Behind>>
    BY <1>6, NothingNoticed DEF owed, Behind
  <2> QED BY <1>1, <1>2, <2>1
<1>7. CASE StartRun
  <2>1. UNCHANGED <<one_shot, edits, Behind>> /\ run' = run + 1 /\ owed = 1 /\ owed' = 0
    BY <1>7, StartTakesAll DEF owed, Behind
  <2> QED BY <1>1, <1>2, <2>1
<1> QED BY <1>3, <1>4, <1>5, <1>6, <1>7 DEF ReviewNext, Poll, Review, RunStep

LEMMA PaidInvariant == ReviewSpec => []PaidInv
BY PaidInit, PaidKept, PTL DEF ReviewSpec

\* The watcher never runs the critic for nothing: each run has an edit of its
\* own, for any number of files and any interleaving of edits and scans (tick).
THEOREM EachRunEarned == ReviewSpec => []RunsAreEarned
<1>1. PaidInv => RunsAreEarned
  <2> SUFFICES ASSUME PaidInv, ~one_shot PROVE run <= edits
    BY DEF RunsAreEarned
  <2>1. Cardinality(Behind) \in Nat /\ owed \in {0, 1} /\ edits \in Nat /\ run \in Nat
    BY BehindIsFinite DEF PaidInv, WatchInv, WatchTypes, owed
  <2> QED BY <2>1 DEF PaidInv, EarnedInv
<1> QED BY <1>1, PaidInvariant, PTL

------------------------------------------------------------------------------
(* What the reports say *)

InRounds == pc \in {"worker", "critic"}

Reporting == pc \in {"write_md", "write_diff", "record"}

RunTypes ==
  /\ pc \in PC
  /\ run \in Nat /\ round \in Nat
  /\ feedback \in Nat \X Nat
  /\ output \in Output
  /\ verdict \in {"APPROVED", "MAX_ROUNDS_REACHED"}
  /\ judgements \subseteq Output \X Verdicts
  /\ reports \subseteq Result
  /\ critic_runs \in Seq(Result)

\* An output has been judged before the round that is under way.
JudgedInv ==
  \A j \in judgements :
    /\ j[1].round >= 1 /\ j[1].run <= run
    /\ InRounds /\ j[1].run = run => j[1].round < round

\* The notes at hand are those of the last round of this run.
NotesInv ==
  InRounds =>
    /\ round \in 1 .. MaxRounds
    /\ verdict = "MAX_ROUNDS_REACHED"
    /\ round = 1 => feedback = NoNotes
    /\ round > 1 =>
         /\ feedback = <<run, round - 1>>
         /\ \E k \in judgements : k[2] = "redirect" /\ <<k[1].run, k[1].round>> = feedback
    /\ pc = "critic" =>
         output.run = run /\ output.round = round /\ output.takes_up = feedback

\* What a report of this run would say.
VerdictInv ==
  Reporting =>
    /\ verdict = "APPROVED" <=> <<output, "approve">> \in judgements
    /\ verdict # "APPROVED" => output.round = MaxRounds
    /\ output # NoOutput => output.run = run

\* Reports of earlier runs, until this one writes its own.
ReportsInv ==
  \A r \in reports :
    /\ r.run <= run
    /\ InRounds \/ pc = "write_md" => r.run < run

JudgingInv ==
  /\ RunTypes /\ JudgedInv /\ NotesInv /\ VerdictInv /\ ReportsInv
  /\ RevisionsTakeUpNotes /\ ReportsAreJudged

LEMMA NoOutputType == NoOutput \in Output /\ NoNotes \in Nat \X Nat
BY DEF NoOutput, NoNotes, Output

LEMMA JudgingInit == ReviewInit => JudgingInv
<1> SUFFICES ASSUME ReviewInit PROVE JudgingInv
  OBVIOUS
<1>1. /\ judgements = {} /\ scratch = {} /\ critic_runs = <<>>
      /\ feedback = NoNotes /\ output = NoOutput /\ verdict = "MAX_ROUNDS_REACHED"
      /\ \/ run = 1 /\ round = first_round /\ pc = first_step
         \/ run = 0 /\ round = 0 /\ pc = "sleep"
  BY DEF ReviewInit
<1>2. reports = {}
  BY <1>1 DEF reports
<1>3. MaxRounds \in Nat
  BY ReviewAssumption
<1>4. RunTypes
  BY <1>1, <1>2, <1>3, NoOutputType DEF RunTypes, PC, first_step, first_round
<1>5. NotesInv /\ VerdictInv
  BY <1>1, <1>3 DEF NotesInv, VerdictInv, InRounds, Reporting, first_step, first_round, NoOutput
<1> QED BY <1>1, <1>2, <1>4, <1>5
     DEF JudgingInv, JudgedInv, ReportsInv, RevisionsTakeUpNotes, ReportsAreJudged

\* Steps that leave the run's state as it is, or end the run.
LEMMA JudgingApart ==
  ASSUME JudgingInv,
         UNCHANGED <<run, round, feedback, output, verdict, judgements, scratch>>,
         critic_runs' = critic_runs \/ \E r \in Result : critic_runs' = Append(critic_runs, r),
         pc' = pc \/ pc' \in {"sleep", "scan", "done"}
  PROVE  JudgingInv'
<1>1. reports' = reports
  BY DEF reports
<1>2. RunTypes'
  <2>1. critic_runs' \in Seq(Result)
    BY DEF JudgingInv, RunTypes
  <2> QED BY <1>1, <2>1 DEF JudgingInv, RunTypes, PC
<1>3. (InRounds' => InRounds /\ pc' = pc) /\ (Reporting' => Reporting)
  BY DEF InRounds, Reporting
<1>4. JudgedInv' /\ NotesInv' /\ VerdictInv'
  BY <1>3 DEF JudgingInv, JudgedInv, NotesInv, VerdictInv
<1>5. ReportsInv'
  BY <1>1, <1>3 DEF JudgingInv, ReportsInv, InRounds
<1>6. RevisionsTakeUpNotes' /\ ReportsAreJudged'
  BY <1>1 DEF JudgingInv, RevisionsTakeUpNotes, ReportsAreJudged
<1> QED BY <1>2, <1>4, <1>5, <1>6 DEF JudgingInv

LEMMA StartJudges ==
  ASSUME JudgingInv, StartRun
  PROVE  JudgingInv'
<1>1. /\ run' = run + 1 /\ feedback' = NoNotes /\ output' = NoOutput
      /\ verdict' = "MAX_ROUNDS_REACHED" /\ round' = first_round /\ pc' = first_step
      /\ UNCHANGED <<judgements, scratch, critic_runs>>
  BY DEF StartRun, notes_at_start, outVars
<1>2. reports' = reports
  BY <1>1 DEF reports
<1>3. MaxRounds \in Nat
  BY ReviewAssumption
<1>4. RunTypes'
  BY <1>1, <1>2, <1>3, NoOutputType DEF JudgingInv, RunTypes, PC, first_step, first_round
<1>5. JudgedInv'
  BY <1>1 DEF JudgingInv, JudgedInv, RunTypes, Output
<1>6. NotesInv'
  BY <1>1, <1>3 DEF NotesInv, InRounds, first_step, first_round
<1>7. VerdictInv'
  <2>1. <<NoOutput, "approve">> \notin judgements
    BY DEF JudgingInv, JudgedInv, NoOutput
  <2> QED BY <1>1, <1>3, <2>1 DEF VerdictInv, Reporting, first_step, NoOutput
<1>8. ReportsInv'
  BY <1>1, <1>2 DEF JudgingInv, ReportsInv, RunTypes, Result
<1>9. RevisionsTakeUpNotes' /\ ReportsAreJudged'
  BY <1>1, <1>2 DEF JudgingInv, RevisionsTakeUpNotes, ReportsAreJudged
<1> QED BY <1>4, <1>5, <1>6, <1>7, <1>8, <1>9 DEF JudgingInv

LEMMA WorkerJudges ==
  ASSUME JudgingInv, pc = "worker", NEW diff \in BOOLEAN,
         output' = [run |-> run, round |-> round, takes_up |-> feedback, diff |-> diff],
         pc' = "critic",
         UNCHANGED <<run, round, feedback, verdict, judgements, scratch, critic_runs>>
  PROVE  JudgingInv'
<1>1. reports' = reports
  BY DEF reports
<1>2. RunTypes'
  BY <1>1 DEF JudgingInv, RunTypes, PC, Output
<1>3. JudgedInv' /\ NotesInv' /\ VerdictInv'
  BY DEF JudgingInv, JudgedInv, NotesInv, VerdictInv, InRounds, Reporting
<1>4. ReportsInv'
  BY <1>1 DEF JudgingInv, ReportsInv, InRounds
<1>5. RevisionsTakeUpNotes' /\ ReportsAreJudged'
  BY <1>1 DEF JudgingInv, RevisionsTakeUpNotes, ReportsAreJudged
<1> QED BY <1>2, <1>3, <1>4, <1>5 DEF JudgingInv

LEMMA CriticJudges ==
  ASSUME JudgingInv, pc = "critic", NEW v \in Verdicts,
         judgements' = judgements \cup {<<output, v>>},
         IF v = "approve"
         THEN verdict' = "APPROVED" /\ pc' = "write_md" /\ UNCHANGED <<round, feedback>>
         ELSE /\ feedback' = <<run, round>>
              /\ IF rounds_left
                 THEN pc' = "worker" /\ round' = round + 1
                 ELSE pc' = "write_md" /\ UNCHANGED round
              /\ UNCHANGED verdict,
         UNCHANGED <<run, output, scratch, critic_runs>>
  PROVE  JudgingInv'
<1>1. reports' = reports
  BY DEF reports
<1>2. /\ run \in Nat /\ round \in 1 .. MaxRounds /\ MaxRounds \in Nat
      /\ verdict = "MAX_ROUNDS_REACHED"
      /\ output \in Output /\ output.run = run /\ output.round = round
      /\ output.takes_up = feedback
  BY ReviewAssumption DEF JudgingInv, NotesInv, InRounds, RunTypes
<1>3. RunTypes'
  BY <1>1, <1>2 DEF JudgingInv, RunTypes, PC, Verdicts
<1>4. \A j \in judgements : j[1].run = run => j[1].round < round
  BY DEF JudgingInv, JudgedInv, InRounds
<1>5. JudgedInv'
  <2> SUFFICES ASSUME NEW j \in judgements'
               PROVE  /\ j[1].round >= 1 /\ j[1].run <= run'
                      /\ InRounds' /\ j[1].run = run' => j[1].round < round'
    BY DEF JudgedInv
  <2>1. InRounds' => round' = round + 1
    BY <1>2 DEF InRounds
  <2>2. CASE j = <<output, v>>
    BY <1>2, <2>1, <2>2
  <2>3. CASE j \in judgements
    <3>1. j[1].round \in Nat /\ j[1].run \in Nat
      BY <2>3 DEF JudgingInv, RunTypes, Output
    <3> QED BY <1>2, <1>4, <2>1, <2>3, <3>1 DEF JudgingInv, JudgedInv
  <2> QED BY <2>2, <2>3
<1>6. NotesInv'
  <2> SUFFICES ASSUME InRounds' PROVE NotesInv'
    BY DEF NotesInv
  <2>1. /\ v = "redirect" /\ feedback' = <<run, round>> /\ round' = round + 1 /\ rounds_left
        /\ pc' = "worker" /\ verdict' = verdict
    BY DEF InRounds, Verdicts
  <2>2. <<output, v>> \in judgements'
    OBVIOUS
  <2>3. \E k \in judgements' : k[2] = "redirect" /\ <<k[1].run, k[1].round>> = feedback'
    BY <1>2, <2>1, <2>2
  <2> QED BY <1>2, <2>1, <2>3 DEF NotesInv, rounds_left
<1>7. VerdictInv'
  <2> SUFFICES ASSUME Reporting' PROVE VerdictInv'
    BY DEF VerdictInv
  <2>1. <<output, "approve">> \in judgements' <=> v = "approve"
    <3>1. <<output, "approve">> \notin judgements
      BY <1>2, <1>4
    <3> QED BY <3>1
  <2>2. v # "approve" => round = MaxRounds
    BY <1>2 DEF Reporting, rounds_left
  <2> QED BY <1>2, <2>1, <2>2 DEF VerdictInv
<1>8. ReportsInv'
  BY <1>1 DEF JudgingInv, ReportsInv, InRounds
<1>9. RevisionsTakeUpNotes'
  <2>1. \A j \in judgements :
          IF j[1].round = 1
          THEN j[1].takes_up = NoNotes
          ELSE /\ j[1].takes_up = <<j[1].run, j[1].round - 1>>
               /\ \E k \in judgements' : /\ k[2] = "redirect"
                                         /\ <<k[1].run, k[1].round>> = j[1].takes_up
    BY DEF JudgingInv, RevisionsTakeUpNotes
  <2>2. IF round = 1
        THEN feedback = NoNotes
        ELSE /\ feedback = <<run, round - 1>>
             /\ \E k \in judgements' : k[2] = "redirect" /\ <<k[1].run, k[1].round>> = feedback
    BY <1>2 DEF JudgingInv, NotesInv, InRounds
  <2> QED BY <1>2, <2>1, <2>2 DEF RevisionsTakeUpNotes
<1>10. ReportsAreJudged'
  <2>1. ASSUME NEW r \in reports PROVE r.output # output
    <3>1. r.run < run
      BY DEF JudgingInv, ReportsInv, InRounds
    <3>2. r \in Result
      BY DEF JudgingInv, RunTypes
    <3>3. r.output # NoOutput => r.output.run = r.run
      BY DEF JudgingInv, ReportsAreJudged
    <3> QED BY <1>2, <3>1, <3>2, <3>3 DEF NoOutput, Result
  <2> QED BY <1>1, <2>1 DEF JudgingInv, ReportsAreJudged
<1> QED BY <1>3, <1>5, <1>6, <1>7, <1>8, <1>9, <1>10 DEF JudgingInv

LEMMA ReportJudges ==
  ASSUME JudgingInv, pc \in {"write_md", "write_diff"}, NEW kind,
         scratch' = scratch \cup {<<kind, report>>},
         pc' \in {"write_diff", "record"},
         UNCHANGED <<run, round, feedback, output, verdict, judgements, critic_runs>>
  PROVE  JudgingInv'
<1>1. reports' = reports \cup {report}
  <2>1. <<kind, report>>[2] = report /\ <<kind, report>> \in scratch'
    OBVIOUS
  <2>2. ASSUME NEW w \in scratch' PROVE w[2] \in reports \cup {report}
    BY <2>2 DEF reports
  <2>3. ASSUME NEW w \in scratch PROVE w \in scratch'
    OBVIOUS
  <2>4. reports' = {w[2] : w \in scratch'}
    BY DEF reports
  <2> QED BY <2>1, <2>2, <2>3, <2>4 DEF reports
<1>2. report \in Result /\ report.run = run /\ report.output = output /\ report.verdict = verdict
  BY DEF JudgingInv, RunTypes, report, Result
<1>3. RunTypes'
  BY <1>1, <1>2 DEF JudgingInv, RunTypes, PC
<1>4. JudgedInv' /\ NotesInv' /\ VerdictInv'
  BY DEF JudgingInv, JudgedInv, NotesInv, VerdictInv, InRounds, Reporting
<1>5. ReportsInv'
  BY <1>1, <1>2 DEF JudgingInv, RunTypes, ReportsInv, InRounds
<1>6. RevisionsTakeUpNotes'
  BY DEF JudgingInv, RevisionsTakeUpNotes
<1>7. ReportsAreJudged'
  BY <1>1, <1>2 DEF JudgingInv, VerdictInv, Reporting, ReportsAreJudged
<1> QED BY <1>3, <1>4, <1>5, <1>6, <1>7 DEF JudgingInv

LEMMA RunStepJudges ==
  ASSUME JudgingInv, RunStep
  PROVE  JudgingInv'
<1>1. ASSUME Fails PROVE JudgingInv'
  BY <1>1, JudgingApart DEF Fails, EndRun, runVars, outVars
<1>2. CASE AskWorker
  <2>1. CASE Fails
    BY <1>1, <2>1
  <2>2. CASE ~Fails
    BY <1>2, <2>2, WorkerJudges DEF AskWorker, outVars
  <2> QED BY <2>1, <2>2
<1>3. CASE AskCritic
  <2>1. CASE Fails
    BY <1>1, <2>1
  <2>2. CASE ~Fails
    <3>1. PICK v \in Verdicts :
            /\ judgements' = judgements \cup {<<output, v>>}
            /\ IF v = "approve"
               THEN /\ verdict' = "APPROVED"
                    /\ pc' = "write_md"
                    /\ UNCHANGED <<round, feedback>>
               ELSE /\ feedback' = <<run, round>>
                    /\ IF rounds_left
                       THEN pc' = "worker" /\ round' = round + 1
                       ELSE pc' = "write_md" /\ UNCHANGED round
                    /\ UNCHANGED verdict
            /\ UNCHANGED <<run, output, watchVars, outVars>>
      BY <1>3, <2>2 DEF AskCritic
    <3> QED BY <1>3, <3>1, CriticJudges DEF AskCritic, outVars
  <2> QED BY <2>1, <2>2
<1>4. CASE WriteReport
  BY <1>1, <1>4, ReportJudges DEF WriteReport, runVars
<1>5. CASE WriteDiff
  BY <1>1, <1>5, ReportJudges DEF WriteDiff, runVars
<1>6. CASE Record
  <2>1. report \in Result
    BY DEF JudgingInv, RunTypes, report, Result
  <2> QED BY <1>6, <2>1, JudgingApart DEF Record, EndRun, runVars
<1> QED BY <1>2, <1>3, <1>4, <1>5, <1>6 DEF RunStep

LEMMA JudgingKept ==
  ASSUME JudgingInv, [ReviewNext]_reviewVars
  PROVE  JudgingInv'
<1>1. ASSUME UNCHANGED <<runVars, outVars>>, pc' = pc \/ pc' \in {"sleep", "scan", "done"}
      PROVE  JudgingInv'
  BY <1>1, JudgingApart DEF runVars, outVars
<1>2. CASE Poll \/ (\E f \in Files : Edit(f) \/ Delete(f)) \/ TimePasses \/ UNCHANGED reviewVars
  BY <1>1, <1>2 DEF Poll, BeginTick, Stat, Wait, Edit, Delete, TimePasses, reviewVars
<1>3. CASE StartRun
  BY <1>3, StartJudges
<1>4. CASE RunStep
  BY <1>4, RunStepJudges
<1> QED BY <1>2, <1>3, <1>4 DEF ReviewNext, Review, RunStep

LEMMA JudgingInvariant == ReviewSpec => []JudgingInv
BY JudgingInit, JudgingKept, PTL DEF ReviewSpec

\* Notes neither get lost between the rounds of a run nor leak into another run,
\* for any number of rounds (CriticRunner::run).
THEOREM NotesTakenUp == ReviewSpec => []RevisionsTakeUpNotes
<1>1. JudgingInv => RevisionsTakeUpNotes
  BY DEF JudgingInv
<1> QED BY <1>1, JudgingInvariant, PTL

\* Every report, of any run, says what the critic has said of the output it
\* shows (CriticRunner::run, write_artifacts).
THEOREM ReportsJudged == ReviewSpec => []ReportsAreJudged
<1>1. JudgingInv => ReportsAreJudged
  BY DEF JudgingInv
<1> QED BY <1>1, JudgingInvariant, PTL

------------------------------------------------------------------------------
(* What is on disk when a run is recorded *)

DiskInv ==
  /\ pc = "write_diff" \/ pc = "record" => <<"md", report>> \in scratch
  /\ pc = "record" /\ output.diff => <<"diff", report>> \in scratch
  /\ \A i \in DOMAIN critic_runs :
       /\ critic_runs[i].run <= run
       /\ pc \in Running => critic_runs[i].run < run
  /\ RecordedIsOnDisk

LEMMA DiskInit == ReviewInit => DiskInv
BY DEF ReviewInit, DiskInv, RecordedIsOnDisk, first_step, Running

LEMMA DiskKept ==
  ASSUME RunTypes, DiskInv, [ReviewNext]_reviewVars
  PROVE  DiskInv'
<1>1. run \in Nat /\ critic_runs \in Seq(Result) /\ \A r \in Result : r.run \in Nat
  BY DEF RunTypes, Result
<1>2. ASSUME UNCHANGED <<run, output, verdict, critic_runs>>,
             \/ pc' = pc
             \/ pc' \in {"sleep", "scan", "done"}
             \/ pc \in Running /\ pc' \in {"worker", "critic", "write_md"},
             scratch' = scratch
      PROVE  DiskInv'
  <2>1. report' = report
    BY <1>2 DEF report
  <2>2. pc' \in Running => pc \in Running
    BY <1>2 DEF Running
  <2>3. pc' \in {"write_diff", "record"} => pc' = pc
    BY <1>2
  <2>4. RecordedIsOnDisk'
    BY <1>2 DEF DiskInv, RecordedIsOnDisk
  <2> QED BY <1>2, <2>1, <2>2, <2>3, <2>4 DEF DiskInv
<1>3. CASE Poll \/ (\E f \in Files : Edit(f) \/ Delete(f)) \/ TimePasses \/ UNCHANGED reviewVars
  BY <1>2, <1>3 DEF Poll, BeginTick, Stat, Wait, Edit, Delete, TimePasses, reviewVars, runVars,
    outVars
<1>4. CASE StartRun
  <2>1. run' = run + 1 /\ pc' \in {"worker", "write_md"} /\ UNCHANGED <<scratch, critic_runs>>
    BY <1>4, FirstStep DEF StartRun, outVars
  <2>2. \A i \in DOMAIN critic_runs : critic_runs[i].run < run'
    BY <1>1, <2>1 DEF DiskInv
  <2>3. RecordedIsOnDisk'
    BY <2>1 DEF DiskInv, RecordedIsOnDisk
  <2>4. \A i \in DOMAIN critic_runs : critic_runs[i].run <= run'
    BY <1>1, <2>1 DEF DiskInv
  <2> QED BY <2>1, <2>2, <2>3, <2>4 DEF DiskInv
<1>5. ASSUME Fails PROVE DiskInv'
  BY <1>2, <1>5 DEF Fails, EndRun, runVars, outVars
<1>6. CASE AskWorker \/ AskCritic
  <2>1. CASE Fails
    BY <1>5, <2>1
  <2>2. CASE ~Fails
    <3>1. /\ UNCHANGED <<run, scratch, critic_runs>>
          /\ pc \in Running /\ pc' \in {"worker", "critic", "write_md"}
      BY <1>6, <2>2 DEF AskWorker, AskCritic, outVars, Running
    <3> QED BY <3>1 DEF DiskInv, RecordedIsOnDisk, Running
  <2> QED BY <2>1, <2>2
<1>7. CASE WriteReport \/ WriteDiff
  <2>1. CASE Fails
    BY <1>5, <2>1
  <2>2. CASE ~Fails
    <3>1. /\ UNCHANGED <<run, output, verdict, critic_runs, report>>
          /\ pc \in Running /\ scratch \subseteq scratch'
          /\ \/ pc = "write_md" /\ <<"md", report>> \in scratch'
                /\ pc' = IF output.diff THEN "write_diff" ELSE "record"
             \/ pc = "write_diff" /\ <<"diff", report>> \in scratch' /\ pc' = "record"
      BY <1>7, <2>2 DEF WriteReport, WriteDiff, runVars, report, Running
    <3>2. RecordedIsOnDisk'
      BY <3>1 DEF DiskInv, RecordedIsOnDisk
    <3>3. <<"md", report>>' \in scratch'
      BY <3>1 DEF DiskInv
    <3>4. pc' = "record" /\ output.diff => <<"diff", report>> \in scratch'
      BY <3>1
    <3>5. \A i \in DOMAIN critic_runs : critic_runs[i].run <= run /\ critic_runs[i].run < run
      BY <3>1 DEF DiskInv
    <3> QED BY <3>1, <3>2, <3>3, <3>4, <3>5 DEF DiskInv
  <2> QED BY <2>1, <2>2
<1>8. CASE Record
  <2>1. /\ pc = "record" /\ pc' \in {"sleep", "done"}
        /\ UNCHANGED <<run, scratch>>
        /\ critic_runs' \in {Append(critic_runs, report), critic_runs}
    BY <1>8 DEF Record, EndRun, runVars
  <2>2. CASE critic_runs' = critic_runs
    <3>1. RecordedIsOnDisk'
      BY <2>1, <2>2 DEF DiskInv, RecordedIsOnDisk
    <3> QED BY <2>1, <2>2, <3>1 DEF DiskInv, Running
  <2>3. CASE critic_runs' = Append(critic_runs, report)
    <3>1. /\ report.run = run /\ report.output = output /\ <<"md", report>> \in scratch
          /\ output.diff => <<"diff", report>> \in scratch
      BY <2>1 DEF DiskInv, report
    <3>2. \A i \in DOMAIN critic_runs : critic_runs[i].run < run
      BY <2>1 DEF DiskInv, Running
    <3>3. report \in Result
      BY DEF RunTypes, report, Result
    <3>4. /\ DOMAIN critic_runs' = 1 .. Len(critic_runs) + 1
          /\ DOMAIN critic_runs = 1 .. Len(critic_runs)
          /\ \A i \in 1 .. Len(critic_runs) : critic_runs'[i] = critic_runs[i]
          /\ critic_runs'[Len(critic_runs) + 1] = report
          /\ Len(critic_runs) \in Nat
      BY <1>1, <2>3, <3>3
    <3>5. RecordedIsOnDisk'
      <4> SUFFICES ASSUME NEW i \in 1 .. Len(critic_runs) + 1
                   PROVE  /\ <<"md", critic_runs'[i]>> \in scratch
                          /\ critic_runs'[i].output.diff => <<"diff", critic_runs'[i]>> \in scratch
                          /\ \A j \in 1 .. i - 1 : critic_runs'[j].run < critic_runs'[i].run
        BY <2>1, <3>4 DEF RecordedIsOnDisk
      <4>1. CASE i = Len(critic_runs) + 1
        BY <3>1, <3>2, <3>4, <4>1
      <4>2. CASE i \in 1 .. Len(critic_runs)
        <5>1. critic_runs'[i] = critic_runs[i] /\ i \in DOMAIN critic_runs
          BY <3>4, <4>2
        <5>2. \A j \in 1 .. i - 1 : critic_runs'[j] = critic_runs[j]
          BY <3>4, <4>2
        <5> QED BY <5>1, <5>2 DEF DiskInv, RecordedIsOnDisk
      <4> QED BY <3>4, <4>1, <4>2
    <3>6. \A i \in DOMAIN critic_runs' : critic_runs'[i].run <= run
      BY <1>1, <3>1, <3>2, <3>4
    <3> QED BY <2>1, <3>5, <3>6 DEF DiskInv, Running
  <2> QED BY <2>1, <2>2, <2>3
<1> QED BY <1>3, <1>4, <1>6, <1>7, <1>8 DEF ReviewNext, Review

\* A run in the table has left its whole report on disk, and runs are recorded
\* in their order, at most once, whatever fails (write_artifacts,
\* rpc_record_critic_run).
THEOREM RecordedOnDisk == ReviewSpec => []RecordedIsOnDisk
<1>1. JudgingInv /\ DiskInv /\ [ReviewNext]_reviewVars => DiskInv'
  BY DiskKept DEF JudgingInv
<1>2. DiskInv => RecordedIsOnDisk
  BY DEF DiskInv
<1> QED BY <1>1, <1>2, DiskInit, JudgingInvariant, PTL DEF ReviewSpec

------------------------------------------------------------------------------
(* The hook gives the user's environment back *)

\* What holds between any two steps: the hook is active with the user's
\* environment saved, or the shell has just that environment.  Only zsh lets
\* anything else run while the hook is active.
HookInv ==
  /\ mine \in UserEnv
  /\ active \in BOOLEAN
  /\ zsh \in BOOLEAN
  /\ line \in Seq(Commands)
  /\ active => saved = mine
  /\ ~active => env = mine
  /\ ~zsh /\ active => env = AllProxied
  /\ at_prompt => ~active /\ line = <<>>
  /\ started.alone => started.env = IF started.agent THEN AllProxied ELSE mine

------------------------------------------------------------------------------
(* The functions of the script *)

\* What has been saved of the user's own values is what is restored.
LEMMA RestoreGivesBack ==
  ASSUME NEW e \in UserEnv, saved = e
  PROVE  [n \in Names |-> handoff_restore_var(n)] = e
<1>1. \A n \in Names : e[n] \in Values \cup {Unset}
  BY DEF UserEnv
<1>2. \A n \in Names : e[n] # NotSaved
  BY <1>1, HookAssumption DEF Unset, NotSaved
<1>3. \A n \in Names : handoff_restore_var(n) = e[n]
  BY <1>2 DEF handoff_restore_var
<1>4. e = [n \in Names |-> e[n]]
  BY DEF UserEnv
<1> QED BY <1>3, <1>4

\* Restoring leaves the user's environment, active or not.
LEMMA RestoreProxy ==
  ASSUME HookInv
  PROVE  /\ handoff_restore_proxy.env = mine
         /\ handoff_restore_proxy.active = FALSE
<1>1. CASE active
  <2>1. [n \in Names |-> handoff_restore_var(n)] = mine
    BY <1>1, RestoreGivesBack DEF HookInv
  <2> QED BY <1>1, <2>1 DEF handoff_restore_proxy
<1>2. CASE ~active
  BY <1>2 DEF handoff_restore_proxy, Unchanged, HookInv
<1> QED BY <1>1, <1>2

\* Enabling saves the user's environment, active or not.
LEMMA EnableProxy ==
  ASSUME HookInv
  PROVE  /\ handoff_enable_proxy.saved = mine
         /\ handoff_enable_proxy.active = TRUE
         /\ ~zsh => handoff_enable_proxy.env = AllProxied
BY DEF HookInv, handoff_enable_proxy, Unchanged

\* The first two lemmas together, for the command that comes next.
LEMMA BeforeCommand ==
  ASSUME HookInv, NEW c
  PROVE  LET s == handoff_before_command(c) IN
         /\ s.active = (c = Agent)
         /\ s.active => s.saved = mine
         /\ ~s.active => s.env = mine
         /\ ~zsh /\ s.active => s.env = AllProxied
<1>1. CASE c = Agent
  BY <1>1, EnableProxy DEF handoff_before_command
<1>2. CASE c # Agent
  BY <1>2, RestoreProxy DEF handoff_before_command
<1> QED BY <1>1, <1>2

------------------------------------------------------------------------------
(* The invariant *)

LEMMA NoProgramRuns == NoProgram.alone = FALSE
BY DEF NoProgram

LEMMA HookInitInv == HookInit => HookInv
<1> SUFFICES ASSUME HookInit PROVE HookInv
  OBVIOUS
<1>1. line \in Seq(Commands)
  BY DEF HookInit
<1>2. mine \in UserEnv /\ zsh \in BOOLEAN /\ ~at_prompt /\ started.alone = FALSE
  BY NoProgramRuns DEF HookInit
<1>3. /\ active \in BOOLEAN
      /\ active => saved = mine /\ env = AllProxied
      /\ ~active => env = mine
  BY DEF HookInit
<1> QED BY <1>1, <1>2, <1>3 DEF HookInv

\* What runs before a command makes the invariant's parts true again.
LEMMA EnterInv ==
  ASSUME HookInv, NEW l \in Lines, Enter(l)
  PROVE  HookInv'
<1>1. l \in Seq(Commands)
  BY HookAssumption
<1>2. /\ mine' = mine /\ zsh' = zsh /\ started' = started
      /\ line' = l /\ at_prompt' = FALSE
  BY DEF Enter
<1>3. CASE zsh
  <2>1. Becomes(handoff_before_command(l[1]))
    BY <1>3 DEF Enter
  <2> QED
    BY <1>1, <1>2, <1>3, <2>1, BeforeCommand DEF HookInv, Becomes
<1>4. CASE ~zsh
  <2>1. env' = env /\ saved' = saved /\ active' = active
    BY <1>4 DEF Enter, Becomes, Unchanged
  <2> QED
    BY <1>1, <1>2, <2>1 DEF HookInv
<1> QED BY <1>3, <1>4

\* An assignment reaches the user's environment unless the hook is active.
LEMMA RunCommandInv ==
  ASSUME HookInv, RunCommand
  PROVE  HookInv'
<1> DEFINE c == Head(line)
           s == IF zsh THEN Unchanged(env) ELSE handoff_before_command(c)
<1>1. c \in Commands /\ line' \in Seq(Commands)
  BY DEF HookInv, RunCommand
<1>2. zsh' = zsh /\ at_prompt' = at_prompt /\ ~at_prompt
  BY DEF HookInv, RunCommand
<1>3. /\ s.active \in BOOLEAN
      /\ s.active => s.saved = mine
      /\ ~s.active => s.env = mine
      /\ ~zsh /\ s.active => s.env = AllProxied
      /\ ~zsh => s.active = (c = Agent)
  <2>1. CASE zsh
    BY <2>1 DEF HookInv, Unchanged
  <2>2. CASE ~zsh
    BY <2>2, BeforeCommand
  <2> QED BY <2>1, <2>2
<1>4. CASE c.does = "assign"
  <2>1. PICK n \in Names, v \in Values \cup {Unset} : c = Assign(n, v)
    BY <1>1, <1>4 DEF Commands, Agent, Program
  <2>2. c # Agent
    BY <1>4 DEF Agent
  <2>3. c.name \in Names /\ c.value \in Values \cup {Unset}
    BY <2>1 DEF Assign
  <2>4. Becomes([s EXCEPT !.env[c.name] = c.value])
    BY <1>4 DEF RunCommand
  <2>5. mine' = IF s.active THEN mine ELSE [mine EXCEPT ![c.name] = c.value]
    BY <1>4 DEF RunCommand
  <2>6. started' = NoProgram
    BY <1>4 DEF RunCommand
  <2>7. mine' \in UserEnv
    BY <2>3, <2>5 DEF HookInv, UserEnv
  <2>8. /\ active' = s.active /\ saved' = s.saved
        /\ env' = [s.env EXCEPT ![c.name] = c.value]
    BY <2>4 DEF Becomes, Unchanged, handoff_before_command, handoff_enable_proxy,
         handoff_restore_proxy
  <2> QED
    BY <1>1, <1>2, <1>3, <2>2, <2>5, <2>6, <2>7, <2>8 DEF HookInv, NoProgram
<1>5. CASE c.does # "assign"
  <2>1. /\ env' = s.env /\ saved' = s.saved /\ active' = s.active
        /\ started' = [agent |-> c = Agent, alone |-> ~zsh, env |-> s.env]
        /\ mine' = mine
    BY <1>5 DEF RunCommand, Becomes
  <2> QED
    BY <1>1, <1>2, <1>3, <2>1 DEF HookInv
<1> QED BY <1>4, <1>5

LEMMA PromptInv ==
  ASSUME HookInv, Prompt
  PROVE  HookInv'
<1>1. /\ active' = FALSE /\ env' = mine
      /\ mine' = mine /\ zsh' = zsh /\ line' = <<>> /\ started' = NoProgram
  BY RestoreProxy DEF Prompt, Becomes
<1>2. started'.alone = FALSE
  BY <1>1, NoProgramRuns
<1>3. line' \in Seq(Commands) /\ mine' \in UserEnv /\ zsh' \in BOOLEAN
  BY <1>1 DEF HookInv
<1> QED BY <1>1, <1>2, <1>3 DEF HookInv

LEMMA InterruptLineInv ==
  ASSUME HookInv, InterruptLine
  PROVE  HookInv'
<1>1. line' = <<>> /\ UNCHANGED <<zsh, env, saved, active, at_prompt, mine, started>>
  BY DEF InterruptLine
<1> QED BY <1>1 DEF HookInv

LEMMA StutterInv ==
  ASSUME HookInv, UNCHANGED hookVars
  PROVE  HookInv'
BY DEF HookInv, hookVars

LEMMA HookKept ==
  ASSUME HookInv, [HookNext]_hookVars
  PROVE  HookInv'
<1>1. CASE \E l \in Lines : Enter(l)
  BY <1>1, EnterInv
<1>2. CASE RunCommand
  BY <1>2, RunCommandInv
<1>3. CASE InterruptLine
  BY <1>3, InterruptLineInv
<1>4. CASE Prompt
  BY <1>4, PromptInv
<1>5. CASE UNCHANGED hookVars
  BY <1>5, StutterInv
<1> QED BY <1>1, <1>2, <1>3, <1>4, <1>5 DEF HookNext

LEMMA HookInvariant == HookSpec => []HookInv
BY HookInitInv, HookKept, PTL DEF HookSpec

------------------------------------------------------------------------------
(* Theorems *)

\* At every prompt of every shell the user finds the environment as it was left,
\* whichever lines were entered and interrupted, and although an agent may have
\* started the shell (handoff_enable_proxy, handoff_restore_proxy).
THEOREM Restored == HookSpec => []EnvironmentIsRestored
<1>1. HookInv => EnvironmentIsRestored
  BY DEF HookInv, EnvironmentIsRestored
<1> QED BY <1>1, HookInvariant, PTL

\* In bash agents, and agents alone, run with the proxy, in every line
\* (handoff_before_command).
THEOREM AgentsAlone == HookSpec => []AgentsAloneAreProxied
<1>1. HookInv => AgentsAloneAreProxied
  BY DEF HookInv, AgentsAloneAreProxied
<1> QED BY <1>1, HookInvariant, PTL

------------------------------------------------------------------------------
(* Types *)

\* What there is to review is files, clocks stop at the debounce period, and
\* there are no more rounds than asked for.
ClockInv ==
  /\ pending \cup changed \cup unscanned \cup unreviewed \subseteq Files
  /\ {last_change, quiet} \subseteq Never .. Debounce
  /\ read_at \in 0 .. Debounce
  /\ round \in 0 .. MaxRounds

LEMMA ClockKept ==
  ASSUME ClockInv, DOMAIN mtimes \subseteq Files, [ReviewNext]_reviewVars
  PROVE  ClockInv'
<1>1. /\ Debounce \in Nat /\ MaxRounds \in Nat
      /\ first_round \in 0 .. MaxRounds
      /\ Never \in Never .. Debounce
      /\ \A t \in 0 .. Debounce : t \in Never .. Debounce
      /\ \A t \in Never .. Debounce : later(t) \in Never .. Debounce
      /\ \A t \in 0 .. Debounce : later(t) \in 0 .. Debounce
  BY ReviewAssumption DEF first_round, Never, later
<1>2. CASE BeginTick
  BY <1>1, <1>2 DEF BeginTick, ClockInv, fileVars, watchVars, runVars
<1>3. ASSUME NEW f \in Files, Stat(f)
      PROVE  ClockInv'
  <2>1. UNCHANGED <<pending, last_change, quiet, read_at, unreviewed, round>>
    BY <1>3 DEF Stat, fileVars, runVars
  <2>2. unscanned' \subseteq unscanned /\ changed' \subseteq changed \cup {f}
    BY <1>3 DEF Stat
  <2>3. QED
    BY <1>3, <2>1, <2>2 DEF ClockInv
<1>4. CASE Wait
  <2>1. UNCHANGED <<changed, unscanned, unreviewed, quiet, read_at, round>>
    BY <1>4 DEF Wait, fileVars, tickVars, runVars
  <2>2. pending' \subseteq pending \cup changed /\ last_change' \in {read_at, last_change}
    BY <1>4 DEF Wait, pending_now
  <2>3. QED
    BY <1>1, <2>1, <2>2 DEF ClockInv
<1>5. CASE StartRun
  BY <1>1, <1>5 DEF StartRun, ClockInv, cleared, tickVars
<1>6. CASE AskWorker \/ AskCritic \/ WriteReport \/ WriteDiff \/ Record
  <2>1. UNCHANGED <<pending, last_change, changed, unscanned, unreviewed, quiet, read_at>>
    BY <1>6 DEF AskWorker, AskCritic, WriteReport, WriteDiff, Record, Fails, EndRun,
                fileVars, tickVars, watchVars
  <2>2. round' = round \/ (rounds_left /\ round' = round + 1)
    BY <1>6 DEF AskWorker, AskCritic, WriteReport, WriteDiff, Record, Fails, runVars
  <2>3. round' \in 0 .. MaxRounds
    BY <1>1, <2>2 DEF ClockInv, rounds_left
  <2>4. QED
    BY <2>1, <2>3 DEF ClockInv
<1>7. ASSUME NEW f \in Files, Edit(f) \/ Delete(f)
      PROVE  ClockInv'
  <2>1. UNCHANGED <<pending, last_change, changed, unscanned, quiet, read_at, round>>
    BY <1>7 DEF Edit, Delete, tickVars, watchVars, runVars
  <2>2. unreviewed' \subseteq unreviewed \cup {f}
    BY <1>7 DEF Edit, Delete
  <2>3. QED
    BY <2>1, <2>2 DEF ClockInv
<1>8. CASE TimePasses
  <2>1. UNCHANGED <<pending, changed, unscanned, unreviewed, quiet, round>>
    BY <1>8 DEF TimePasses, fileVars, runVars
  <2>2. last_change' = later(last_change) /\ read_at' = later(read_at)
    BY <1>8 DEF TimePasses
  <2>3. QED
    BY <1>1, <2>1, <2>2 DEF ClockInv
<1>9. CASE UNCHANGED reviewVars
  BY <1>9 DEF ClockInv, reviewVars, fileVars, tickVars, watchVars, runVars
<1>10. QED
  BY <1>2, <1>3, <1>4, <1>5, <1>6, <1>7, <1>8, <1>9 DEF ReviewNext, Poll, Review

LEMMA ReviewTypes == ReviewSpec => []ReviewTypeOK
<1>1. ReviewInit => ClockInv
  BY ReviewAssumption DEF ReviewInit, ClockInv, Never, first_round
<1>2. WatchInv /\ ClockInv /\ [ReviewNext]_reviewVars => ClockInv'
  BY ClockKept DEF WatchInv, WatchTypes
<1>3. WatchInv /\ JudgingInv /\ ClockInv => ReviewTypeOK
  <2>1. SUFFICES ASSUME WatchInv, JudgingInv, ClockInv
                 PROVE  ReviewTypeOK
    OBVIOUS
  <2>2. /\ mtime \in [Files -> Nat \cup {Absent}]
        /\ DOMAIN mtimes \subseteq Files
        /\ \A f \in DOMAIN mtimes : mtimes[f] \in 0 .. edits
    BY <2>1 DEF WatchInv, WatchTypes
  <2>3. /\ pc \in PC /\ output \in Output
        /\ {w[2] : w \in scratch} \subseteq Result
        /\ critic_runs \in Seq(Result)
    BY <2>1 DEF JudgingInv, RunTypes, reports
  <2>4. {critic_runs[i] : i \in DOMAIN critic_runs} \subseteq Result
    BY <2>3
  <2>5. QED
    BY <2>1, <2>2, <2>3, <2>4 DEF ClockInv, ReviewTypeOK
<1>4. QED
  BY <1>1, <1>2, <1>3, WatchInvariant, JudgingInvariant, PTL DEF ReviewSpec

\* A variable has a value of the user's, none, or the hook's.
EnvInv ==
  /\ env \in [Names -> Values \cup {Unset, Proxied}]
  /\ saved \in UserEnv \cup {NothingSaved}
  /\ at_prompt \in BOOLEAN

LEMMA EnvKept ==
  ASSUME HookInv, EnvInv, [HookNext]_hookVars
  PROVE  EnvInv'
<1> DEFINE E == [Names -> Values \cup {Unset, Proxied}]
           S == UserEnv \cup {NothingSaved}
           Typed(s) == s.env \in E /\ s.saved \in S
<1>1. /\ AllProxied \in E /\ UserEnv \subseteq E /\ NothingSaved \in S
      /\ UserEnv \subseteq S /\ (~active => env \in UserEnv)
  BY DEF AllProxied, UserEnv, HookInv
<1>2. env \in E /\ saved \in S
  BY DEF EnvInv
<1>3. Typed(Unchanged(env))
  BY <1>2 DEF Unchanged
<1>4. Typed(handoff_enable_proxy)
  BY <1>1, <1>3 DEF handoff_enable_proxy
<1>5. Typed(handoff_restore_proxy)
  <2>1. [n \in Names |-> handoff_restore_var(n)] \in E
    BY <1>2 DEF handoff_restore_var, UserEnv, NothingSaved
  <2>2. QED
    BY <1>1, <1>3, <2>1 DEF handoff_restore_proxy
<1>6. \A c : Typed(handoff_before_command(c))
  BY <1>4, <1>5 DEF handoff_before_command
<1>7. ASSUME NEW s, Typed(s), Becomes(s), at_prompt' \in BOOLEAN
      PROVE  EnvInv'
  BY <1>7 DEF Becomes, EnvInv
<1>8. ASSUME NEW l \in Lines, Enter(l)
      PROVE  EnvInv'
  <2>1. at_prompt' \in BOOLEAN
    BY <1>8 DEF Enter
  <2>2. QED
    BY <1>3, <1>6, <1>7, <1>8, <2>1 DEF Enter
<1>9. CASE RunCommand
  <2> DEFINE c == Head(line)
             s == IF zsh THEN Unchanged(env) ELSE handoff_before_command(c)
  <2>1. Typed(s) /\ s.active \in BOOLEAN /\ c \in Commands /\ at_prompt' \in BOOLEAN
    <3>1. Typed(s)
      BY <1>3, <1>6
    <3>2. c \in Commands /\ at_prompt' \in BOOLEAN
      BY <1>9 DEF RunCommand, HookInv, EnvInv
    <3>3. s.active \in BOOLEAN
      BY DEF Unchanged, handoff_before_command, handoff_enable_proxy,
             handoff_restore_proxy, HookInv
    <3>4. QED
      BY <3>1, <3>2, <3>3
  <2>2. CASE c.does = "assign"
    <3>1. PICK n \in Names, v \in Values \cup {Unset} : c = Assign(n, v)
      BY <2>1, <2>2 DEF Commands, Agent, Program
    <3>2. c.name \in Names /\ c.value \in Values \cup {Unset}
      BY <3>1 DEF Assign
    <3>3. Becomes([s EXCEPT !.env[c.name] = c.value])
      BY <1>9, <2>2 DEF RunCommand
    <3>4. saved' = s.saved /\ env' = [s.env EXCEPT ![c.name] = c.value]
      BY <3>3 DEF Becomes, Unchanged, handoff_before_command, handoff_enable_proxy,
         handoff_restore_proxy
    <3>5. QED
      BY <2>1, <3>2, <3>4 DEF EnvInv
  <2>3. CASE c.does # "assign"
    <3>1. Becomes(s)
      BY <1>9, <2>3 DEF RunCommand
    <3>2. QED
      BY <1>7, <2>1, <3>1
  <2>4. QED
    BY <2>2, <2>3
<1>10. CASE Prompt
  <2>1. at_prompt' \in BOOLEAN /\ Becomes(handoff_restore_proxy)
    BY <1>10 DEF Prompt
  <2>2. QED
    BY <1>5, <1>7, <2>1
<1>11. CASE InterruptLine \/ UNCHANGED hookVars
  BY <1>11 DEF InterruptLine, hookVars, EnvInv
<1>12. QED
  BY <1>8, <1>9, <1>10, <1>11 DEF HookNext

LEMMA HookTypes == HookSpec => []HookTypeOK
<1>1. HookInit => EnvInv
  BY DEF HookInit, EnvInv, UserEnv, AllProxied
<1>2. HookInv /\ EnvInv => HookTypeOK
  BY DEF HookInv, EnvInv, HookTypeOK
<1>3. HookInv /\ EnvInv /\ [HookNext]_hookVars => EnvInv'
  BY EnvKept
<1>4. QED
  BY <1>1, <1>2, <1>3, HookInvariant, PTL DEF HookSpec

------------------------------------------------------------------------------
(* The parts together *)

\* A behaviour of the four parts in one instance is one of each of them, so
\* that what is proved of a part holds there.
THEOREM PartsOfCli == FairCliSpec => ReviewSpec /\ ServicesSpec /\ HookSpec /\ Spec
<1>1. CliInit => ReviewInit /\ ServicesInit /\ HookInit /\ Init
  BY DEF CliInit, Init
<1>2. [CliNext]_cliVars =>
        /\ [ReviewNext]_reviewVars
        /\ [ServicesNext]_serviceVars
        /\ [HookNext]_hookVars
        /\ [Next]_<<question, numbers>>
  BY DEF CliNext, cliVars
<1>3. QED
  BY <1>1, <1>2, PTL DEF FairCliSpec, ReviewSpec, ServicesSpec, HookSpec, Spec

\* The state of the watcher, of the services and of the shell is of its type,
\* for all constants: a port that is held is held by a process that has not
\* ended, and a command past its start knows a pid.
THEOREM CliTypes == FairCliSpec => []CliTypeOK
<1>1. ReviewTypeOK /\ ServicesTypeOK /\ HookTypeOK => CliTypeOK
  BY DEF CliTypeOK
<1>2. QED
  BY <1>1, PartsOfCli, ReviewTypes, ServicesTypes, HookTypes, PTL
=============================================================================
