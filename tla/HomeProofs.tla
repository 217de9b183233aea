----------------------------- MODULE HomeProofs -----------------------------
(***************************************************************************)
(* Theorems about what is behind a project's agents: what the proxy        *)
(* reports (Proxy), what the dashboard shows (Dashboard), and files under  *)
(* ~/.handoff and .handoff (Worktree, Snapshot and CertAuthority), for any *)
(* number of exchanges, programs, hosts, rows, makers and processes; and   *)
(* the six parts of MCHome together, of which BrainProofs has the brain's  *)
(* theorems.                                                               *)
(***************************************************************************)
EXTENDS MCHome, BrainProofs, FoldProofs

------------------------------------------------------------------------------
(* Worktrees *)

\* What create has found clean stays so unless somebody writes there, and what
\* it has made is empty likewise.
TreeInv ==
  /\ creating = "checked" /\ ~late /\ ~blind /\ there => Uncommitted_pieces = {}
  /\ creating = "ready" /\ ~late => pieces = {} \/ ~there

LEMMA TreeInvariant == WorktreeSpec => []TreeInv
<1>1. WorktreeInit => TreeInv
  BY DEF WorktreeInit, TreeInv
<1>2. TreeInv /\ [WorktreeNext]_treeVars => TreeInv'
  <2> SUFFICES ASSUME TreeInv, [WorktreeNext]_treeVars
               PROVE  TreeInv'
    OBVIOUS
  <2>1. CASE WriteInTree
    BY <2>1 DEF TreeInv, WriteInTree
  <2>2. CASE DeleteTree
    BY <2>2 DEF TreeInv, DeleteTree
  <2>3. CASE CheckTree
    BY <2>3 DEF TreeInv, CheckTree, has_uncommitted_changes, Uncommitted_pieces
  <2>4. CASE RemoveStale
    BY <2>4 DEF TreeInv, RemoveStale
  <2>5. CASE AddTree
    BY <2>5 DEF TreeInv, AddTree, add_failed
  <2>6. CASE StartAgent
    BY <2>6 DEF TreeInv, StartAgent
  <2>7. CASE Clean
    BY <2>7 DEF TreeInv, Clean, Removed, Uncommitted_pieces
  <2>8. CASE UNCHANGED treeVars
    BY <2>8 DEF TreeInv, treeVars, Uncommitted_pieces
  <2> QED
    BY <2>1, <2>2, <2>3, <2>4, <2>5, <2>6, <2>7, <2>8 DEF WorktreeNext
<1> QED BY <1>1, <1>2, PTL DEF WorktreeSpec

\* create discards no uncommitted work it could have seen, in any sequence of
\* creations, cleanings, edits and failing commands (create, remove).
THEOREM WorkKept == WorktreeSpec => UncommittedIsKept
<1>1. TreeInv /\ [WorktreeNext]_treeVars =>
        [creating = "checked" /\ creating' = "removed" /\ there /\ ~there' /\ ~late /\ ~blind
           => Uncommitted_pieces = {}]_treeVars
  BY DEF TreeInv
<1> QED BY <1>1, TreeInvariant, PTL DEF WorktreeSpec, UncommittedIsKept

\* An agent starts in a worktree that was made for it (create).
THEOREM OwnTree == WorktreeSpec => []StartsInItsOwn
<1>1. TreeInv => StartsInItsOwn
  BY DEF TreeInv, StartsInItsOwn
<1> QED BY <1>1, TreeInvariant, PTL

\* Only a directory that is there has something in it, whatever git has refused.
THEOREM TreeTypes == WorktreeSpec => []WorktreeTypeOK
<1>1. WorktreeInit => WorktreeTypeOK
  BY DEF WorktreeInit, WorktreeTypeOK
<1>2. WorktreeTypeOK /\ [WorktreeNext]_treeVars => WorktreeTypeOK'
  BY DEF WorktreeTypeOK, WorktreeNext, WriteInTree, DeleteTree, CheckTree, RemoveStale, AddTree,
    StartAgent, Clean, Removed, add_failed, Pieces, treeVars
<1> QED BY <1>1, <1>2, PTL DEF WorktreeSpec

------------------------------------------------------------------------------
(* Snapshots: what git tells *)

Existing(w) == work[w] \in {"untracked", "tracked", "committed"}

AskedFor(m, i) == stage[m] = <<"git", i>>

\* Where a piece of work is that has been there since the snapshot was begun:
\* named already, or still to be found by a later question.
FoundBy(m) ==
  \A w \in pending_work[m] :
    /\ Existing(w)
    /\ AskedFor(m, 3) => w \in named[m] \/ work[w] = "committed"
    /\ AskedFor(m, 4) \/ stage[m][1] \notin {"begin", "git"} => w \in named[m]

NamedInv ==
  /\ work \in [Work -> {"none", "untracked", "tracked", "committed"}]
  /\ named \in [Makers -> SUBSET Work]
  /\ pending_work \in [Makers -> SUBSET Work]
  /\ \A m \in Makers :
       /\ \/ \E s \in SnapshotStages \ {"git"} : stage[m] = <<s, 0>>
          \/ \E i \in 1 .. 4 : AskedFor(m, i)
       /\ stage[m][1] = "begin" => pending_work[m] = {}
       /\ m \notin unread => FoundBy(m)
  /\ DOMAIN stage = Makers
  /\ unread \subseteq Makers

LEMMA NamedInit == SnapshotInit => NamedInv
BY DEF SnapshotInit, NamedInv, FoundBy, Existing, SnapshotStages

\* The user undoes work, or moves it on towards a commit.
LEMMA NamedTouch ==
  ASSUME NamedInv, Touch
  PROVE  NamedInv'
<1>1. stage' = stage /\ named' = named /\ unread' = unread
  BY DEF Touch
<1>2. work' \in [Work -> {"none", "untracked", "tracked", "committed"}]
  BY DEF NamedInv, Touch
<1>3. pending_work' \in [Makers -> SUBSET Work]
  BY DEF NamedInv, Touch
<1>4. ASSUME NEW m \in Makers, NEW w \in pending_work'[m], Existing(w)
      PROVE  /\ w \in pending_work[m]
             /\ Existing(w)'
             /\ work[w] = "committed" => work'[w] = "committed"
  <2>1. w \in Work
    BY <1>3, <1>4
  <2> QED
    BY <1>4, <2>1 DEF NamedInv, Touch, Existing, Uncommitted
<1>5. ASSUME NEW m \in Makers, m \notin unread
      PROVE  FoundBy(m)'
  <2>1. pending_work'[m] \subseteq pending_work[m]
    BY DEF NamedInv, Touch
  <2>2. FoundBy(m)
    BY <1>5 DEF NamedInv
  <2> QED
    BY <1>1, <1>4, <2>1, <2>2 DEF FoundBy, AskedFor
<1>6. \A m \in Makers : pending_work'[m] \subseteq pending_work[m]
  BY DEF NamedInv, Touch
<1> QED
  BY <1>1, <1>2, <1>3, <1>5, <1>6 DEF NamedInv, AskedFor

LEMMA NamedBegin ==
  ASSUME NamedInv, NEW m \in Makers, BeginSnapshot(m)
  PROVE  NamedInv'
<1>1. /\ stage' = [stage EXCEPT ![m] = <<"git", 1>>]
      /\ pending_work' = [pending_work EXCEPT ![m] = Uncommitted]
      /\ UNCHANGED <<work, named, unread>>
  BY DEF BeginSnapshot
<1>2. Uncommitted \in SUBSET Work /\ \A w \in Uncommitted : Existing(w)
  BY DEF Uncommitted, Existing
<1>3. ASSUME NEW n \in Makers, n \notin unread
      PROVE  FoundBy(n)'
  BY <1>1, <1>2, <1>3 DEF NamedInv, FoundBy, AskedFor, Existing
<1>4. stage'[m] = <<"git", 1>> /\ \A n \in Makers \ {m} : stage'[n] = stage[n]
  BY <1>1 DEF NamedInv
<1>5. pending_work' \in [Makers -> SUBSET Work]
  BY <1>1, <1>2 DEF NamedInv
<1>6. \A n \in Makers :
        /\ \/ \E s \in SnapshotStages \ {"git"} : stage'[n] = <<s, 0>>
           \/ \E i \in 1 .. 4 : stage'[n] = <<"git", i>>
        /\ stage'[n][1] = "begin" => pending_work'[n] = {}
  BY <1>1, <1>4 DEF NamedInv, AskedFor
<1> QED
  BY <1>1, <1>3, <1>5, <1>6 DEF NamedInv, AskedFor

\* status tells all that is not committed yet, and log what is by then.
LEMMA ToldIsNamed ==
  ASSUME NamedInv, NEW m \in Makers, AskGit(m), m \notin unread'
  PROVE  \E i \in 1 .. 4 :
           /\ AskedFor(m, i)
           /\ i = 2 => Uncommitted \subseteq named'[m]
           /\ i = 3 => In({"committed"}) \subseteq named'[m]
           /\ named[m] \subseteq named'[m]
<1>1. PICK i \in 1 .. 4 : AskedFor(m, i)
  BY DEF NamedInv, AskGit, At
<1>2. PICK told \in Told(git_commands[i]) : named' = [named EXCEPT ![m] = @ \cup told]
  BY <1>1 DEF AskGit, AskedFor
<1>3. named'[m] = named[m] \cup told
  BY <1>2 DEF NamedInv
<1>4. CASE i = 2
  <2>1. told = Uncommitted
    BY <1>2, <1>4 DEF Told, git_commands
  <2> QED BY <1>1, <1>3, <1>4, <2>1
<1>5. CASE i = 3
  <2>1. told = In({"committed"})
    BY <1>2, <1>5 DEF Told, git_commands
  <2> QED BY <1>1, <1>3, <1>5, <2>1
<1>6. CASE i \notin {2, 3}
  BY <1>1, <1>3, <1>6
<1> QED BY <1>4, <1>5, <1>6

LEMMA NamedAskGit ==
  ASSUME NamedInv, NEW m \in Makers, AskGit(m)
  PROVE  NamedInv'
<1>1. /\ UNCHANGED <<work, pending_work>>
      /\ unread \subseteq unread' /\ unread' \subseteq Makers
  BY DEF AskGit, NamedInv
<1>2. PICK i \in 1 .. 4 : AskedFor(m, i)
  BY DEF NamedInv, AskGit, At
<1>3. /\ DOMAIN stage' = Makers
      /\ \A n \in Makers \ {m} : stage'[n] = stage[n]
      /\ stage'[m] = IF i = 4 THEN <<"json", 0>> ELSE <<"git", i + 1>>
  BY <1>2 DEF AskGit, NamedInv, Next_stage, is_last, git_commands, AskedFor
<1>4. /\ \A n \in Makers \ {m} : named'[n] = named[n]
      /\ named' \in [Makers -> SUBSET Work]
  <2>1. \A told \in Told(git_commands[i]) : told \subseteq Work
    BY DEF Told, git_commands, In, Uncommitted
  <2> QED
    BY <1>2, <2>1 DEF AskGit, NamedInv, AskedFor
<1>5. ASSUME NEW n \in Makers, n # m, n \notin unread'
      PROVE  FoundBy(n)'
  BY <1>1, <1>3, <1>4, <1>5 DEF NamedInv, FoundBy, AskedFor, Existing
<1>6. ASSUME m \notin unread'
      PROVE  FoundBy(m)'
  <2>1. /\ i = 2 => Uncommitted \subseteq named'[m]
        /\ i = 3 => In({"committed"}) \subseteq named'[m]
        /\ named[m] \subseteq named'[m]
    BY <1>2, <1>6, ToldIsNamed DEF AskedFor
  <2>2. FoundBy(m)
    BY <1>1, <1>6 DEF NamedInv
  <2> SUFFICES ASSUME NEW w \in pending_work[m]
               PROVE  /\ Existing(w)
                      /\ i = 2 => w \in named'[m] \/ work[w] = "committed"
                      /\ i \in {3, 4} => w \in named'[m]
    BY <1>1, <1>2, <1>3 DEF FoundBy, AskedFor, Existing
  <2>3. w \in Work /\ Existing(w)
    BY <2>2 DEF NamedInv, FoundBy
  <2>4. CASE i = 2
    BY <2>1, <2>3, <2>4 DEF Existing, Uncommitted
  <2>5. CASE i = 3
    BY <1>2, <2>1, <2>2, <2>3, <2>5 DEF FoundBy, In
  <2>6. CASE i = 4
    BY <1>2, <2>1, <2>2, <2>6 DEF FoundBy
  <2>7. CASE i = 1
    BY <2>3, <2>7
  <2> QED BY <2>4, <2>5, <2>6, <2>7
<1>7. \A n \in Makers :
        /\ \/ \E s \in SnapshotStages \ {"git"} : stage'[n] = <<s, 0>>
           \/ \E j \in 1 .. 4 : stage'[n] = <<"git", j>>
        /\ stage'[n][1] = "begin" => pending_work'[n] = {}
  BY <1>1, <1>3 DEF NamedInv, AskedFor, SnapshotStages
<1> QED
  BY <1>1, <1>3, <1>4, <1>5, <1>6, <1>7 DEF NamedInv, AskedFor

\* What follows does not touch what has been named.
LEMMA NamedLater ==
  ASSUME NamedInv, NEW m \in Makers,
         WriteFile(m) \/ AskForBrief(m) \/ RecordPath(m)
  PROVE  NamedInv'
<1>1. UNCHANGED <<work, named, pending_work, unread>>
  BY DEF WriteFile, AskForBrief, RecordPath
<1>2. stage[m][1] \notin {"begin", "git"}
  BY DEF WriteFile, AskForBrief, RecordPath, At, after
<1>3. \E s \in SnapshotStages \ {"begin", "git"} : stage' = [stage EXCEPT ![m] = <<s, 0>>]
  <2>1. CASE WriteFile(m)
    BY <2>1 DEF WriteFile, Next_stage, after, SnapshotStages
  <2>2. CASE AskForBrief(m) \/ RecordPath(m)
    BY <2>2 DEF AskForBrief, RecordPath, Next_stage, SnapshotStages
  <2> QED BY <2>1, <2>2
<1>4. PICK s \in SnapshotStages \ {"begin", "git"} :
        DOMAIN stage' = Makers /\ stage'[m] = <<s, 0>>
          /\ \A n \in Makers \ {m} : stage'[n] = stage[n]
  BY <1>3 DEF NamedInv
<1>5. ASSUME NEW n \in Makers, n \notin unread
      PROVE  FoundBy(n)'
  BY <1>1, <1>2, <1>4, <1>5 DEF NamedInv, FoundBy, AskedFor, Existing
<1>6. \A n \in Makers :
        /\ \/ \E t \in SnapshotStages \ {"git"} : stage'[n] = <<t, 0>>
           \/ \E j \in 1 .. 4 : stage'[n] = <<"git", j>>
        /\ stage'[n][1] = "begin" => pending_work'[n] = {}
  BY <1>1, <1>4 DEF NamedInv, AskedFor
<1> QED
  BY <1>1, <1>4, <1>5, <1>6 DEF NamedInv, AskedFor

LEMMA NamedInvariant == SnapshotSpec => []NamedInv
<1>1. NamedInv /\ [SnapshotNext]_snapshotVars => NamedInv'
  <2> SUFFICES ASSUME NamedInv, [SnapshotNext]_snapshotVars
               PROVE  NamedInv'
    OBVIOUS
  <2>1. CASE Touch
    BY <2>1, NamedTouch
  <2>2. CASE SecondPasses \/ UNCHANGED snapshotVars
    <3>1. UNCHANGED <<work, stage, named, pending_work, unread>>
      BY <2>2 DEF SecondPasses, snapshotVars
    <3> QED BY <3>1 DEF NamedInv, FoundBy, AskedFor, Existing
  <2>3. ASSUME NEW m \in Makers, BeginSnapshot(m)
        PROVE  NamedInv'
    BY <2>3, NamedBegin
  <2>4. ASSUME NEW m \in Makers, AskGit(m)
        PROVE  NamedInv'
    BY <2>4, NamedAskGit
  <2>5. ASSUME NEW m \in Makers, WriteFile(m) \/ AskForBrief(m) \/ RecordPath(m)
        PROVE  NamedInv'
    BY <2>5, NamedLater
  <2> QED BY <2>1, <2>2, <2>3, <2>4, <2>5 DEF SnapshotNext
<1> QED BY <1>1, NamedInit, PTL DEF SnapshotSpec

\* A snapshot names all work that was uncommitted when it was begun, for any
\* number of snapshots and whatever is edited, added and committed meanwhile
\* (snapshot).
THEOREM AllWorkNamed == SnapshotSpec => []WorkIsNamed
<1>1. NamedInv => WorkIsNamed
  BY DEF NamedInv, FoundBy, WorkIsNamed
<1> QED BY <1>1, NamedInvariant, PTL

------------------------------------------------------------------------------
(* Snapshots: their files *)

AnyContents == [by : Makers \cup {"none"}, brief : BOOLEAN]

Past(m, stages) == stage[m][1] \in stages \/ m \in recorded

\* What an executor has written finally stays its own while it is alone.
PagesInv ==
  /\ second \in 0 .. LastSecond
  /\ stem \in [Makers -> 0 .. LastSecond]
  /\ brief \in [Makers -> BOOLEAN]
  /\ pages \in [0 .. LastSecond -> [json : AnyContents, md : AnyContents]]
  /\ recorded \subseteq Makers
  /\ \A m \in recorded : stage[m][1] = "done"
  /\ \A m \in Makers :
       Alone(m) =>
         /\ Past(m, {"final_md", "record"}) => pages[stem[m]].json = Contents_of(m)
         /\ Past(m, {"record"}) => pages[stem[m]].md = Contents_of(m)

LEMMA PagesInit == SnapshotInit => PagesInv
<1> SUFFICES ASSUME SnapshotInit PROVE PagesInv
  OBVIOUS
<1>1. 0 \in 0 .. LastSecond
  BY SnapshotAssumption
<1>2. NoContents \in AnyContents
  BY DEF NoContents, AnyContents
<1>3. pages \in [0 .. LastSecond -> [json : AnyContents, md : AnyContents]]
  BY <1>2 DEF SnapshotInit
<1> QED
  BY <1>1, <1>3 DEF SnapshotInit, PagesInv, Past

\* A maker that is alone has been so ever since.
LEMMA AloneSince ==
  ASSUME NamedInv, NEW m \in Makers, NEW n \in Makers,
         DOMAIN stage' = Makers, DOMAIN stem = Makers,
         \A x \in Makers \ {n} : stage'[x] = stage[x] /\ stem'[x] = stem[x],
         stage[n][1] = "begin" \/ stem'[n] = stem[n],
         stage'[n][1] # "begin",
         m # n \/ stem'[m] = stem[m],
         Alone(m)'
  PROVE  Alone(m)
BY DEF Alone, At

\* Before its last writes a snapshot promises nothing of its files.
LEMMA PagesNotYet ==
  ASSUME NamedInv, PagesInv, NEW n \in Makers,
         BeginSnapshot(n) \/ AskGit(n) \/ AskForBrief(n)
  PROVE  PagesInv'
<1>1. /\ UNCHANGED <<second, pages, recorded>>
      /\ \A m \in Makers \ {n} :
           stage'[m] = stage[m] /\ stem'[m] = stem[m] /\ brief'[m] = brief[m]
      /\ DOMAIN stage' = Makers
      /\ stem' \in [Makers -> 0 .. LastSecond]
      /\ brief' \in [Makers -> BOOLEAN]
  <2>1. CASE BeginSnapshot(n)
    BY <2>1 DEF BeginSnapshot, NamedInv, PagesInv
  <2>2. CASE AskGit(n)
    BY <2>2 DEF AskGit, Next_stage, NamedInv, PagesInv
  <2>3. CASE AskForBrief(n)
    BY <2>3 DEF AskForBrief, Next_stage, NamedInv, PagesInv
  <2> QED BY <2>1, <2>2, <2>3
<1>2. /\ stage'[n][1] \in {"git", "json", "final_json"}
      /\ stage[n][1] \in {"begin", "git", "ask"}
      /\ stage[n][1] = "begin" \/ stem'[n] = stem[n]
  BY DEF BeginSnapshot, AskGit, AskForBrief, Next_stage, At, NamedInv, PagesInv, AskedFor
<1>3. n \notin recorded
  BY <1>2 DEF PagesInv
<1>4. ASSUME NEW m \in Makers, Alone(m)'
      PROVE  /\ Past(m, {"final_md", "record"})' => pages'[stem'[m]].json = Contents_of(m)'
             /\ Past(m, {"record"})' => pages'[stem'[m]].md = Contents_of(m)'
  <2>1. CASE m = n
    BY <1>1, <1>2, <1>3, <2>1 DEF Past
  <2>2. CASE m # n
    <3>1. Alone(m)
      BY <1>1, <1>2, <1>4, <2>2, AloneSince DEF PagesInv
    <3> QED BY <1>1, <2>2, <3>1 DEF PagesInv, Past, Contents_of
  <2> QED BY <2>1, <2>2
<1>5. \A m \in recorded : stage'[m][1] = "done"
  BY <1>1, <1>3 DEF PagesInv
<1> QED
  BY <1>1, <1>4, <1>5 DEF PagesInv

\* A write changes one file of its own second, which is no other's if that
\* other is alone.
LEMMA PagesWritten ==
  ASSUME NamedInv, PagesInv, NEW n \in Makers, WriteFile(n)
  PROVE  PagesInv'
<1>1. /\ UNCHANGED <<second, stem, brief, recorded>>
      /\ DOMAIN stage' = Makers
      /\ \A m \in Makers \ {n} : stage'[m] = stage[m]
      /\ stage[n][1] \in {"json", "md", "final_json", "final_md"}
      /\ stage'[n][1] \in {"md", "ask", "final_md", "record", "done"}
  BY DEF WriteFile, Next_stage, NamedInv, after
<1>2. n \notin recorded
  BY <1>1 DEF PagesInv
<1>3. Contents_of(n) \in AnyContents /\ stem[n] \in 0 .. LastSecond
  BY DEF Contents_of, AnyContents, PagesInv
<1>4. pages' \in [0 .. LastSecond -> [json : AnyContents, md : AnyContents]]
  BY <1>3 DEF WriteFile, PagesInv, written_stem
<1>5. \A s \in 0 .. LastSecond \ {stem[n]} : pages'[s] = pages[s]
  BY DEF WriteFile, PagesInv, written_stem
<1>6. ASSUME Alone(n)'
      PROVE  /\ Past(n, {"final_md", "record"})' => pages'[stem'[n]].json = Contents_of(n)'
             /\ Past(n, {"record"})' => pages'[stem'[n]].md = Contents_of(n)'
  <2>1. Alone(n)
    BY <1>1, <1>6, AloneSince DEF PagesInv
  <2>2. CASE stage'[n][1] \notin {"final_md", "record"}
    BY <1>1, <1>2, <2>2 DEF Past
  <2>3. CASE stage'[n][1] = "final_md"
    <3>1. pages' = [pages EXCEPT ![stem[n]]["json"] = Contents_of(n)]
      BY <2>3 DEF WriteFile, Next_stage, NamedInv, after, written_stem, At
    <3>2. pages'[stem[n]].json = Contents_of(n)
      BY <1>3, <3>1 DEF PagesInv
    <3> QED BY <1>1, <1>2, <2>3, <3>2 DEF Past, Contents_of
  <2>4. CASE stage'[n][1] = "record"
    <3>1. /\ pages' = [pages EXCEPT ![stem[n]]["md"] = Contents_of(n)]
          /\ stage[n][1] = "final_md"
      BY <2>4 DEF WriteFile, Next_stage, NamedInv, after, written_stem, At
    <3>2. pages[stem[n]].json = Contents_of(n)
      BY <2>1, <3>1 DEF PagesInv, Past
    <3>3. /\ pages'[stem[n]].md = Contents_of(n)
          /\ pages'[stem[n]].json = pages[stem[n]].json
      BY <1>3, <3>1 DEF PagesInv
    <3> QED BY <1>1, <3>2, <3>3 DEF Contents_of
  <2> QED BY <2>2, <2>3, <2>4
<1>7. ASSUME NEW m \in Makers, m # n, Alone(m)'
      PROVE  /\ Past(m, {"final_md", "record"})' => pages'[stem'[m]].json = Contents_of(m)'
             /\ Past(m, {"record"})' => pages'[stem'[m]].md = Contents_of(m)'
  <2>1. Alone(m)
    BY <1>1, <1>7, AloneSince DEF PagesInv
  <2>2. stem[m] # stem[n] /\ stem[m] \in 0 .. LastSecond
    BY <1>1, <1>7, <2>1 DEF Alone, At, PagesInv
  <2>3. pages'[stem[m]] = pages[stem[m]]
    BY <1>5, <2>2
  <2> QED BY <1>1, <1>7, <2>1, <2>3 DEF PagesInv, Past, Contents_of
<1>8. \A m \in recorded : stage'[m][1] = "done"
  BY <1>1, <1>2 DEF PagesInv
<1> QED
  BY <1>1, <1>4, <1>6, <1>7, <1>8 DEF PagesInv

LEMMA PagesRecorded ==
  ASSUME NamedInv, PagesInv, NEW n \in Makers, RecordPath(n)
  PROVE  PagesInv'
<1>1. /\ UNCHANGED <<second, stem, brief, pages>>
      /\ recorded' = recorded \cup {n}
      /\ DOMAIN stage' = Makers
      /\ \A m \in Makers \ {n} : stage'[m] = stage[m]
      /\ stage[n][1] = "record" /\ stage'[n][1] = "done"
  BY DEF RecordPath, Next_stage, NamedInv, At
<1>2. ASSUME NEW m \in Makers, Alone(m)'
      PROVE  /\ Past(m, {"final_md", "record"})' => pages'[stem'[m]].json = Contents_of(m)'
             /\ Past(m, {"record"})' => pages'[stem'[m]].md = Contents_of(m)'
  <2>1. Alone(m)
    BY <1>1, <1>2, AloneSince DEF PagesInv
  <2> QED BY <1>1, <2>1 DEF PagesInv, Past, Contents_of
<1> QED
  BY <1>1, <1>2 DEF PagesInv

LEMMA PagesInvariant == SnapshotSpec => []PagesInv
<1>1. NamedInv /\ PagesInv /\ [SnapshotNext]_snapshotVars => PagesInv'
  <2> SUFFICES ASSUME NamedInv, PagesInv, [SnapshotNext]_snapshotVars
               PROVE  PagesInv'
    OBVIOUS
  <2>1. CASE Touch \/ SecondPasses \/ UNCHANGED snapshotVars
    <3>1. UNCHANGED <<stage, stem, brief, pages, recorded>>
      BY <2>1 DEF Touch, SecondPasses, snapshotVars
    <3>2. second' \in 0 .. LastSecond
      BY <2>1, SnapshotAssumption DEF Touch, SecondPasses, snapshotVars, PagesInv
    <3> QED BY <3>1, <3>2 DEF PagesInv, Past, Alone, At, Contents_of
  <2>2. ASSUME NEW m \in Makers, BeginSnapshot(m) \/ AskGit(m) \/ AskForBrief(m)
        PROVE  PagesInv'
    BY <2>2, PagesNotYet
  <2>3. ASSUME NEW m \in Makers, WriteFile(m)
        PROVE  PagesInv'
    BY <2>3, PagesWritten
  <2>4. ASSUME NEW m \in Makers, RecordPath(m)
        PROVE  PagesInv'
    BY <2>4, PagesRecorded
  <2> QED BY <2>1, <2>2, <2>3, <2>4 DEF SnapshotNext
<1> QED BY <1>1, PagesInit, NamedInvariant, PTL DEF SnapshotSpec

\* The path that a handoff has recorded holds its own snapshot with its brief,
\* for any number of executors, unless another began in the same second
\* (execute_inner, write_snapshot).
THEOREM OwnSnapshot == SnapshotSpec => []RecordedIsItsOwn
<1>1. PagesInv => RecordedIsItsOwn
  BY DEF PagesInv, Past, RecordedIsItsOwn
<1> QED BY <1>1, PagesInvariant, PTL

Briefed == {"ask", "final_json", "final_md", "record"}

\* Only an executor asks for a brief, and a snapshot does not begin later than now.
MakerInv ==
  /\ second \in Nat
  /\ stem \in [Makers -> Nat]
  /\ \A m \in Makers : stem[m] <= second
  /\ \A m \in Makers : stage[m][1] \in Briefed => m \in Executors
  /\ recorded \subseteq Executors

\* For any number of makers, at whatever point git or a write fails: a snapshot is
\* at one of its steps, named by a second that has come, and only a handoff's path
\* is recorded.
THEOREM SnapshotTypes == SnapshotSpec => []SnapshotTypeOK
<1>1. SnapshotInit => MakerInv
  BY DEF SnapshotInit, MakerInv, Briefed
<1>2. NamedInv /\ MakerInv /\ [SnapshotNext]_snapshotVars => MakerInv'
  <2> SUFFICES ASSUME NamedInv, MakerInv, [SnapshotNext]_snapshotVars
               PROVE  MakerInv'
    OBVIOUS
  <2> DOMAIN stage = Makers
    BY DEF NamedInv
  <2>1. CASE Touch \/ SecondPasses \/ UNCHANGED snapshotVars
    BY <2>1 DEF MakerInv, Touch, SecondPasses, snapshotVars
  <2>2. ASSUME NEW m \in Makers, BeginSnapshot(m)
        PROVE  MakerInv'
    BY <2>2 DEF MakerInv, Briefed, BeginSnapshot
  <2>3. ASSUME NEW m \in Makers, AskGit(m)
        PROVE  MakerInv'
    <3>1. PICK i \in 1 .. 4 : stage[m] = <<"git", i>>
      BY <2>3 DEF NamedInv, AskedFor, AskGit, At
    <3>2. /\ UNCHANGED <<second, stem, recorded>>
          /\ \A n \in Makers \ {m} : stage'[n] = stage[n]
          /\ stage'[m] \in {<<"json", 0>>, <<"git", i + 1>>}
      BY <2>3, <3>1 DEF AskGit, Next_stage
    <3> QED BY <3>2 DEF MakerInv, Briefed
  <2>4. ASSUME NEW m \in Makers, WriteFile(m)
        PROVE  MakerInv'
    <3>1. /\ UNCHANGED <<second, stem, recorded>>
          /\ \A n \in Makers \ {m} : stage'[n] = stage[n]
      BY <2>4 DEF WriteFile, Next_stage
    <3>2. stage'[m][1] \in Briefed => m \in Executors
      BY <2>4 DEF MakerInv, Briefed, Makers, WriteFile, Next_stage, At, after
    <3> QED BY <3>1, <3>2 DEF MakerInv
  <2>5. ASSUME NEW m \in Makers, AskForBrief(m) \/ RecordPath(m)
        PROVE  MakerInv'
    BY <2>5 DEF MakerInv, Briefed, AskForBrief, RecordPath, Next_stage, At
  <2> QED BY <2>1, <2>2, <2>3, <2>4, <2>5 DEF SnapshotNext
<1>3. NamedInv /\ MakerInv => SnapshotTypeOK
  <2> SUFFICES ASSUME NamedInv, MakerInv, NEW m \in Makers
               PROVE  /\ stage[m][1] \in SnapshotStages
                      /\ At(m, "git") => stage[m][2] \in DOMAIN git_commands
                      /\ stem[m] \in 0 .. second
                      /\ named[m] \subseteq Work
    BY DEF SnapshotTypeOK, MakerInv
  <2>1. DOMAIN git_commands = 1 .. 4
    BY DEF git_commands
  <2>2. /\ stage[m][1] \in SnapshotStages
        /\ At(m, "git") => stage[m][2] \in 1 .. 4
    BY DEF NamedInv, AskedFor, At, SnapshotStages
  <2>3. stem[m] \in 0 .. second
    BY DEF MakerInv
  <2> QED BY <2>1, <2>2, <2>3 DEF NamedInv
<1> QED BY <1>1, <1>2, <1>3, NamedInvariant, PTL DEF SnapshotSpec

------------------------------------------------------------------------------
(* The certificate authority *)

Loading == {"read_cert", "read_key", "loaded"}

CaTypes ==
  /\ cert \in Numbers /\ key \in Numbers /\ trusted \in Numbers
  /\ pairs \in 0 .. MaxPairs
  /\ step \in [Creators -> Steps]
  /\ pair \in [Creators -> [cert : Numbers, key : Numbers]]
  /\ \A c \in Creators : step[c] = "serving" => c \in Proxies

\* A command that creates the files is alone with them, and they are as far as
\* it has come.
CreatorInv(c) ==
  step[c] \in Creating =>
    /\ ~tearing
    /\ \A d \in Creators \ {c} : step[d] \in {"idle", "serving"}
    /\ pair[c].cert = pair[c].key /\ pair[c].cert \in 1 .. MaxPairs
    /\ step[c] \in {"open_cert", "fill_cert", "open_key"} => key = NoFile
    /\ step[c] = "fill_cert" => cert = Hollow
    /\ step[c] \in {"open_key", "fill_key"} => cert = pair[c].cert
    /\ step[c] = "fill_key" => key = Hollow

\* One that reads them finds them where they were.
LoaderInv(c) ==
  step[c] \in Loading =>
    /\ both_exist /\ ~tearing
    /\ \A d \in Creators : step[d] \notin Creating
    /\ step[c] \in {"read_key", "loaded"} => pair[c].cert = cert
    /\ step[c] = "loaded" => pair[c].key = key

\* A proxy that serves has one pair, the one on disk until a teardown.
ServerInv(c) ==
  step[c] = "serving" =>
    /\ Filled(pair[c].cert) /\ pair[c].cert = pair[c].key
    /\ c \notin replaced => cert = pair[c].cert /\ key = pair[c].key /\ ~tearing

FilledInv == Filled(cert) /\ Filled(key) => cert = key

\* Nothing is created while the file is the one that is trusted.
TrustedInv ==
  ~left_behind /\ trusted # NoFile =>
    /\ trusted = cert /\ key # NoFile /\ ~tearing
    /\ \A c \in Creators : step[c] \notin Creating

FilesInv ==
  ~crossed =>
    /\ \A c \in Creators : CreatorInv(c) /\ LoaderInv(c) /\ ServerInv(c)
    /\ FilledInv
    /\ TrustedInv

CaInv == CaTypes /\ FilesInv

LEMMA PairTypes ==
  /\ MaxPairs \in Nat
  /\ {NoFile, Hollow} \subseteq Numbers /\ 1 .. MaxPairs \subseteq Numbers
  /\ NoPair \in [cert : Numbers, key : Numbers]
<1>1. MaxPairs \in Nat
  BY CertAssumption
<1>2. {NoFile, Hollow} \subseteq Numbers /\ 1 .. MaxPairs \subseteq Numbers
  BY <1>1 DEF Numbers, NoFile, Hollow
<1> QED BY <1>1, <1>2 DEF NoPair

LEMMA CaInitInv == CaInit => CaInv
<1> SUFFICES ASSUME CaInit PROVE CaInv
  OBVIOUS
<1>1. CaTypes
  <2>1. pairs \in 0 .. MaxPairs
    BY PairTypes DEF CaInit
  <2>2. pair \in [Creators -> [cert : Numbers, key : Numbers]]
    BY PairTypes DEF CaInit
  <2> QED BY <2>1, <2>2, PairTypes DEF CaInit, CaTypes, Steps
<1>2. FilesInv
  BY DEF CaInit, FilesInv, CreatorInv, LoaderInv, ServerInv, FilledInv, TrustedInv,
    Creating, Loading, Filled
<1> QED BY <1>1, <1>2 DEF CaInv

LEMMA CaTypesKept ==
  ASSUME CaTypes, [CaNext]_caVars
  PROVE  CaTypes'
<1>1. ASSUME NEW c \in Creators, Check(c)
      PROVE  CaTypes'
  BY <1>1, PairTypes DEF CaTypes, Check, Goto, Steps, Creating
<1>2. ASSUME NEW c \in Creators, Load(c)
      PROVE  CaTypes'
  BY <1>2 DEF CaTypes, Load, Goto, Steps
<1>3. ASSUME NEW c \in Creators, Generate(c)
      PROVE  CaTypes'
  BY <1>3, PairTypes DEF CaTypes, Generate, Goto, Steps, Creating
<1>4. ASSUME NEW c \in Creators, Quits(c) \/ Trust(c) \/ Serve(c)
      PROVE  CaTypes'
  <2>1. pair' = pair \/ pair' = [pair EXCEPT ![c] = NoPair]
    BY <1>4 DEF Quits, Trust, Serve
  <2>2. pair' \in [Creators -> [cert : Numbers, key : Numbers]]
    BY <2>1, PairTypes DEF CaTypes
  <2> QED BY <1>4, <2>2 DEF CaTypes, Quits, Trust, Serve, Goto, Steps
<1>5. CASE Teardown \/ RemoveFiles \/ UNCHANGED caVars
  BY <1>5, PairTypes DEF CaTypes, Teardown, RemoveFiles, caVars
<1> QED BY <1>1, <1>2, <1>3, <1>4, <1>5 DEF CaNext

\* One that creates the pair was alone when it looked.
LEMMA CheckKeeps ==
  ASSUME CaInv, NEW c \in Creators, Check(c)
  PROVE  FilesInv'
<1> SUFFICES ASSUME ~crossed' PROVE FilesInv'
  BY DEF FilesInv
<1> USE PairTypes DEF Numbers, NoFile, Hollow, Creating, Loading
<1>1. /\ ~crossed /\ ~tearing
      /\ \A d \in Creators \ {c} : step[d] \notin Creating
      /\ ~(cert = NoFile /\ key # NoFile)
  BY DEF Check, Others_at_work
<1>2. /\ UNCHANGED <<cert, key, trusted, tearing, replaced, left_behind>>
      /\ step \in [Creators -> Steps] /\ step[c] = "idle"
  BY DEF Check, CaInv, CaTypes
<1>3. /\ \A d \in Creators : CreatorInv(d) /\ LoaderInv(d) /\ ServerInv(d)
      /\ FilledInv /\ TrustedInv
  BY <1>1 DEF CaInv, FilesInv
<1>4. CASE both_exist
  <2>1. pair' = pair /\ step' = [step EXCEPT ![c] = "read_cert"]
    BY <1>4 DEF Check, Goto
  <2>2. ASSUME NEW d \in Creators
        PROVE  (CreatorInv(d) /\ LoaderInv(d) /\ ServerInv(d))'
    <3>1. CASE d = c
      BY <1>1, <1>2, <1>3, <1>4, <2>1, <3>1 DEF CreatorInv, LoaderInv, ServerInv, both_exist
    <3>2. CASE d # c
      <4>1. step'[d] = step[d] /\ step[d] \notin Creating
        BY <1>1, <1>2, <2>1, <3>2
      <4> QED BY <1>1, <1>2, <1>3, <2>1, <4>1
            DEF CreatorInv, LoaderInv, ServerInv, both_exist
    <3> QED BY <3>1, <3>2
  <2>3. FilledInv' /\ TrustedInv'
    BY <1>2, <1>3, <2>1 DEF FilledInv, TrustedInv, Filled
  <2> QED BY <2>2, <2>3 DEF FilesInv
<1>5. CASE ~both_exist
  <2>1. /\ pairs' \in 1 .. MaxPairs
        /\ pair' = [pair EXCEPT ![c] = [cert |-> pairs', key |-> pairs']]
        /\ step' = [step EXCEPT ![c] = "open_cert"]
    BY <1>5 DEF Check, Goto, CaInv, CaTypes
  <2>2. pair'[c] = [cert |-> pairs', key |-> pairs']
    BY <2>1 DEF CaInv, CaTypes
  <2>3. key = NoFile
    BY <1>1, <1>5 DEF both_exist
  <2>4. \A d \in Creators \ {c} : step[d] \notin Creating \cup Loading
    BY <1>1, <1>3, <1>5 DEF LoaderInv
  <2>5. \A d \in Creators \ {c} : step[d] \in {"idle", "serving"}
    BY <1>2, <2>4 DEF Steps
  <2>6. ASSUME NEW d \in Creators
        PROVE  (CreatorInv(d) /\ LoaderInv(d) /\ ServerInv(d))'
    <3>1. CASE d = c
      BY <1>1, <1>2, <2>1, <2>2, <2>3, <2>5, <3>1 DEF CreatorInv, LoaderInv, ServerInv
    <3>2. CASE d # c
      <4>1. step'[d] = step[d] /\ pair'[d] = pair[d]
        BY <1>2, <2>1, <3>2 DEF CaInv, CaTypes
      <4> QED BY <1>2, <1>3, <2>5, <3>2, <4>1 DEF CreatorInv, LoaderInv, ServerInv, Filled
    <3> QED BY <3>1, <3>2
  <2>7. FilledInv'
    BY <1>2, <2>3 DEF FilledInv, Filled
  <2>8. TrustedInv'
    BY <1>2, <1>3, <2>3 DEF TrustedInv
  <2> QED BY <2>6, <2>7, <2>8 DEF FilesInv
<1> QED BY <1>4, <1>5

\* Reading changes no file.
LEMMA LoadKeeps ==
  ASSUME CaInv, NEW c \in Creators, Load(c)
  PROVE  FilesInv'
<1> SUFFICES ASSUME ~crossed' PROVE FilesInv'
  BY DEF FilesInv
<1> USE PairTypes DEF Numbers, NoFile, Hollow, Filled, Creating, Loading, Goto
<1>1. ASSUME NEW d \in Creators
      PROVE  CreatorInv(d)'
  BY DEF CaInv, FilesInv, CaTypes, CreatorInv, LoaderInv, ServerInv, FilledInv, TrustedInv,
    Load, both_exist
<1>2. ASSUME NEW d \in Creators
      PROVE  LoaderInv(d)'
  BY DEF CaInv, FilesInv, CaTypes, CreatorInv, LoaderInv, ServerInv, FilledInv, TrustedInv,
    Load, both_exist
<1>3. ASSUME NEW d \in Creators
      PROVE  ServerInv(d)'
  BY DEF CaInv, FilesInv, CaTypes, CreatorInv, LoaderInv, ServerInv, FilledInv, TrustedInv,
    Load, both_exist
<1>4. FilledInv' /\ TrustedInv'
  BY DEF CaInv, FilesInv, CaTypes, CreatorInv, LoaderInv, ServerInv, FilledInv, TrustedInv,
    Load, both_exist
<1> QED BY <1>1, <1>2, <1>3, <1>4 DEF FilesInv

\* The certificate is complete before the key is opened.
LEMMA GenerateKeeps ==
  ASSUME CaInv, NEW c \in Creators, Generate(c)
  PROVE  FilesInv'
<1> SUFFICES ASSUME ~crossed' PROVE FilesInv'
  BY DEF FilesInv
<1> USE PairTypes DEF Numbers, NoFile, Hollow, Filled, Creating, Loading, Goto
<1>1. ASSUME NEW d \in Creators
      PROVE  CreatorInv(d)'
  BY DEF CaInv, FilesInv, CaTypes, CreatorInv, LoaderInv, ServerInv, FilledInv, TrustedInv,
    Generate, both_exist
<1>2. ASSUME NEW d \in Creators
      PROVE  LoaderInv(d)'
  BY DEF CaInv, FilesInv, CaTypes, CreatorInv, LoaderInv, ServerInv, FilledInv, TrustedInv,
    Generate, both_exist
<1>3. ASSUME NEW d \in Creators
      PROVE  ServerInv(d)'
  BY DEF CaInv, FilesInv, CaTypes, CreatorInv, LoaderInv, ServerInv, FilledInv, TrustedInv,
    Generate, both_exist
<1>4. FilledInv' /\ TrustedInv'
  BY DEF CaInv, FilesInv, CaTypes, CreatorInv, LoaderInv, ServerInv, FilledInv, TrustedInv,
    Generate, both_exist
<1> QED BY <1>1, <1>2, <1>3, <1>4 DEF FilesInv

\* What is left of the files is seen to be incomplete, or is a pair.
LEMMA QuitsKeeps ==
  ASSUME CaInv, NEW c \in Creators, Quits(c)
  PROVE  FilesInv'
<1> SUFFICES ASSUME ~crossed' PROVE FilesInv'
  BY DEF FilesInv
<1> USE PairTypes DEF Numbers, NoFile, Hollow, Filled, Creating, Loading, Goto
<1>1. ASSUME NEW d \in Creators
      PROVE  CreatorInv(d)'
  BY DEF CaInv, FilesInv, CaTypes, CreatorInv, LoaderInv, ServerInv, FilledInv, TrustedInv,
    Quits, both_exist
<1>2. ASSUME NEW d \in Creators
      PROVE  LoaderInv(d)'
  BY DEF CaInv, FilesInv, CaTypes, CreatorInv, LoaderInv, ServerInv, FilledInv, TrustedInv,
    Quits, both_exist
<1>3. ASSUME NEW d \in Creators
      PROVE  ServerInv(d)'
  BY DEF CaInv, FilesInv, CaTypes, CreatorInv, LoaderInv, ServerInv, FilledInv, TrustedInv,
    Quits, both_exist
<1>4. FilledInv' /\ TrustedInv'
  BY DEF CaInv, FilesInv, CaTypes, CreatorInv, LoaderInv, ServerInv, FilledInv, TrustedInv,
    Quits, both_exist
<1> QED BY <1>1, <1>2, <1>3, <1>4 DEF FilesInv

\* The copy is made of a file that nothing will create again.
LEMMA TrustKeeps ==
  ASSUME CaInv, NEW c \in Creators, Trust(c)
  PROVE  FilesInv'
<1> SUFFICES ASSUME ~crossed' PROVE FilesInv'
  BY DEF FilesInv
<1> USE PairTypes DEF Numbers, NoFile, Hollow, Filled, Creating, Loading, Goto
<1>1. ASSUME NEW d \in Creators
      PROVE  CreatorInv(d)'
  BY DEF CaInv, FilesInv, CaTypes, CreatorInv, LoaderInv, ServerInv, FilledInv, TrustedInv,
    Trust, both_exist
<1>2. ASSUME NEW d \in Creators
      PROVE  LoaderInv(d)'
  BY DEF CaInv, FilesInv, CaTypes, CreatorInv, LoaderInv, ServerInv, FilledInv, TrustedInv,
    Trust, both_exist
<1>3. ASSUME NEW d \in Creators
      PROVE  ServerInv(d)'
  BY DEF CaInv, FilesInv, CaTypes, CreatorInv, LoaderInv, ServerInv, FilledInv, TrustedInv,
    Trust, both_exist
<1>4. FilledInv' /\ TrustedInv'
  BY DEF CaInv, FilesInv, CaTypes, CreatorInv, LoaderInv, ServerInv, FilledInv, TrustedInv,
    Trust, both_exist
<1> QED BY <1>1, <1>2, <1>3, <1>4 DEF FilesInv

\* Both files have parsed.
LEMMA ServeKeeps ==
  ASSUME CaInv, NEW c \in Creators, Serve(c)
  PROVE  FilesInv'
<1> SUFFICES ASSUME ~crossed' PROVE FilesInv'
  BY DEF FilesInv
<1> USE PairTypes DEF Numbers, NoFile, Hollow, Filled, Creating, Loading, Goto
<1>1. ASSUME NEW d \in Creators
      PROVE  CreatorInv(d)'
  BY DEF CaInv, FilesInv, CaTypes, CreatorInv, LoaderInv, ServerInv, FilledInv, TrustedInv,
    Serve, parses, both_exist
<1>2. ASSUME NEW d \in Creators
      PROVE  LoaderInv(d)'
  BY DEF CaInv, FilesInv, CaTypes, CreatorInv, LoaderInv, ServerInv, FilledInv, TrustedInv,
    Serve, parses, both_exist
<1>3. ASSUME NEW d \in Creators
      PROVE  ServerInv(d)'
  BY DEF CaInv, FilesInv, CaTypes, CreatorInv, LoaderInv, ServerInv, FilledInv, TrustedInv,
    Serve, parses, both_exist
<1>4. FilledInv' /\ TrustedInv'
  BY DEF CaInv, FilesInv, CaTypes, CreatorInv, LoaderInv, ServerInv, FilledInv, TrustedInv,
    Serve, parses, both_exist
<1> QED BY <1>1, <1>2, <1>3, <1>4 DEF FilesInv

\* Nobody but running proxies is at the files.
LEMMA TeardownKeeps ==
  ASSUME CaInv, Teardown
  PROVE  FilesInv'
<1> SUFFICES ASSUME ~crossed' PROVE FilesInv'
  BY DEF FilesInv
<1> USE PairTypes DEF Numbers, NoFile, Hollow, Filled, Creating, Loading, Goto
<1>1. ASSUME NEW d \in Creators
      PROVE  CreatorInv(d)'
  BY DEF CaInv, FilesInv, CaTypes, CreatorInv, LoaderInv, ServerInv, FilledInv, TrustedInv,
    Teardown, both_exist
<1>2. ASSUME NEW d \in Creators
      PROVE  LoaderInv(d)'
  BY DEF CaInv, FilesInv, CaTypes, CreatorInv, LoaderInv, ServerInv, FilledInv, TrustedInv,
    Teardown, both_exist
<1>3. ASSUME NEW d \in Creators
      PROVE  ServerInv(d)'
  BY DEF CaInv, FilesInv, CaTypes, CreatorInv, LoaderInv, ServerInv, FilledInv, TrustedInv,
    Teardown, both_exist
<1>4. FilledInv' /\ TrustedInv'
  BY DEF CaInv, FilesInv, CaTypes, CreatorInv, LoaderInv, ServerInv, FilledInv, TrustedInv,
    Teardown, both_exist
<1> QED BY <1>1, <1>2, <1>3, <1>4 DEF FilesInv

\* Those have been told apart when the teardown began.
LEMMA RemoveKeeps ==
  ASSUME CaInv, RemoveFiles
  PROVE  FilesInv'
<1> SUFFICES ASSUME ~crossed' PROVE FilesInv'
  BY DEF FilesInv
<1> USE PairTypes DEF Numbers, NoFile, Hollow, Filled, Creating, Loading, Goto
<1>1. ASSUME NEW d \in Creators
      PROVE  CreatorInv(d)'
  BY DEF CaInv, FilesInv, CaTypes, CreatorInv, LoaderInv, ServerInv, FilledInv, TrustedInv,
    RemoveFiles, both_exist
<1>2. ASSUME NEW d \in Creators
      PROVE  LoaderInv(d)'
  BY DEF CaInv, FilesInv, CaTypes, CreatorInv, LoaderInv, ServerInv, FilledInv, TrustedInv,
    RemoveFiles, both_exist
<1>3. ASSUME NEW d \in Creators
      PROVE  ServerInv(d)'
  <2>1. tearing /\ UNCHANGED <<step, pair, replaced, crossed>>
    BY DEF RemoveFiles
  <2>2. step[d] = "serving" => d \in replaced
    BY <2>1 DEF CaInv, FilesInv, ServerInv
  <2> QED BY <2>1, <2>2 DEF CaInv, FilesInv, ServerInv
<1>4. FilledInv' /\ TrustedInv'
  BY DEF CaInv, FilesInv, CaTypes, CreatorInv, LoaderInv, ServerInv, FilledInv, TrustedInv,
    RemoveFiles, both_exist
<1> QED BY <1>1, <1>2, <1>3, <1>4 DEF FilesInv

LEMMA CaInvariant == CaSpec => []CaInv
<1>1. ASSUME CaInv, [CaNext]_caVars
      PROVE  CaInv'
  <2>1. CaTypes'
    BY <1>1, CaTypesKept DEF CaInv
  <2>2. CASE UNCHANGED caVars
    <3>1. \A c \in Creators : (CreatorInv(c)' <=> CreatorInv(c))
            /\ (LoaderInv(c)' <=> LoaderInv(c)) /\ (ServerInv(c)' <=> ServerInv(c))
      BY <2>2 DEF caVars, CreatorInv, LoaderInv, ServerInv, both_exist
    <3>2. (FilledInv' <=> FilledInv) /\ (TrustedInv' <=> TrustedInv) /\ crossed' = crossed
      BY <2>2 DEF caVars, FilledInv, TrustedInv
    <3> QED BY <1>1, <2>1, <3>1, <3>2 DEF CaInv, FilesInv
  <2>3. CASE CaNext
    <3>1. ASSUME NEW c \in Creators,
                 Check(c) \/ Load(c) \/ Generate(c) \/ Quits(c) \/ Trust(c) \/ Serve(c)
          PROVE  FilesInv'
      BY <1>1, <3>1, CheckKeeps, LoadKeeps, GenerateKeeps, QuitsKeeps, TrustKeeps, ServeKeeps
    <3>2. ASSUME Teardown \/ RemoveFiles
          PROVE  FilesInv'
      BY <1>1, <3>2, TeardownKeeps, RemoveKeeps
    <3>3. FilesInv'
      BY <2>3, <3>1, <3>2 DEF CaNext
    <3> QED BY <2>1, <3>3 DEF CaInv
  <2> QED BY <1>1, <2>1, <2>2, <2>3
<1> QED BY <1>1, CaInitInv, PTL DEF CaSpec

\* However many commands start, are interrupted and start again, and whatever
\* is torn down between them, certificates and keys belong together, on disk and
\* in any number of running proxies, unless two commands were at the files at
\* once (load_or_create, generate_and_persist, run_teardown).
THEOREM PairWhole == CaSpec => []PairBelongsTogether
<1>1. CaInv => PairBelongsTogether
  BY DEF CaInv, FilesInv, FilledInv, ServerInv, PairBelongsTogether, Creators
<1> QED BY <1>1, CaInvariant, PTL

\* The system trusts the certificate of the file, whichever command created it
\* (run_setup, run_teardown).
THEOREM TrustHolds == CaSpec => []TrustedIsCurrent
<1>1. CaInv => TrustedIsCurrent
  BY DEF CaInv, FilesInv, TrustedInv, TrustedIsCurrent, Filled
<1> QED BY <1>1, CaInvariant, PTL

\* What a command holds: a pair it has generated, or what it has read, no part of
\* which was missing.
HoldInv ==
  /\ \A c \in Creators :
       /\ step[c] \in Creating => {pair[c].cert, pair[c].key} \subseteq 1 .. MaxPairs
       /\ step[c] = "read_key" => pair[c].cert # NoFile
       /\ step[c] = "loaded" => pair[c].cert # NoFile /\ pair[c].key # NoFile
       /\ step[c] = "serving" => Filled(pair[c].cert) /\ Filled(pair[c].key)
  /\ replaced \subseteq Proxies

\* For any number of setups and proxies, even when they cross: a proxy serves with
\* a certificate and a key that are there and complete (from_pem).
THEOREM CaTypesAll == CaSpec => []CaTypeOK
<1>1. CaInit => HoldInv
  BY DEF CaInit, HoldInv, Creating
<1>2. CaTypes /\ HoldInv /\ [CaNext]_caVars => HoldInv'
  <2> SUFFICES ASSUME CaTypes, HoldInv, [CaNext]_caVars PROVE HoldInv'
    OBVIOUS
  <2> USE PairTypes DEF Creating
  <2>1. ASSUME NEW c \in Creators, Check(c)
        PROVE  HoldInv'
    BY <2>1 DEF CaTypes, HoldInv, Check, Goto
  <2>2. ASSUME NEW c \in Creators, Load(c)
        PROVE  HoldInv'
    BY <2>2 DEF CaTypes, HoldInv, Load, Goto
  <2>3. ASSUME NEW c \in Creators, Generate(c)
        PROVE  HoldInv'
    BY <2>3 DEF CaTypes, HoldInv, Generate, Goto, NoFile
  <2>4. ASSUME NEW c \in Creators, Quits(c)
        PROVE  HoldInv'
    BY <2>4 DEF CaTypes, HoldInv, Quits, Goto
  <2>5. ASSUME NEW c \in Creators, Trust(c)
        PROVE  HoldInv'
    BY <2>5 DEF CaTypes, HoldInv, Trust, Goto
  <2>6. ASSUME NEW c \in Creators, Serve(c)
        PROVE  HoldInv'
    BY <2>6 DEF CaTypes, HoldInv, Serve, Goto, parses, Filled
  <2>7. CASE Teardown
    BY <2>7 DEF HoldInv, Teardown
  <2>8. CASE RemoveFiles \/ UNCHANGED caVars
    BY <2>8 DEF HoldInv, RemoveFiles, caVars
  <2> QED BY <2>1, <2>2, <2>3, <2>4, <2>5, <2>6, <2>7, <2>8 DEF CaNext
<1>3. CaTypes /\ HoldInv => CaTypeOK
  BY DEF CaTypes, HoldInv, Creators, CaTypeOK
<1> QED BY <1>1, <1>2, <1>3, CaInvariant, PTL DEF CaSpec, CaInv

------------------------------------------------------------------------------
(* What the proxy reports.  The invariant has four parts. *)

ExchangeInv ==
  /\ at \in [Exchanges -> Stages]
  /\ to \in [Exchanges -> Hosts \cup {NoHost}]
  /\ client \in [Exchanges -> Clients \cup {NoClient}]
  /\ overtaken \in [Exchanges -> BOOLEAN]
  /\ shared \in [Exchanges -> BOOLEAN]
  /\ DOMAIN report = Exchanges
  /\ \A e \in Exchanges : at[e] = "asked" => last_host \in Hosts

\* While a request has not been overtaken, the host remembered is its own.
HostInv ==
  \A e \in Exchanges :
    /\ at[e] = "asked" /\ ~overtaken[e] => last_host = to[e]
    /\ ~Handled(e) => report[e] = NoReport
    /\ Handled(e) /\ ~overtaken[e] => report[e].kind = classify_host(to[e])

\* Rows at the port of an exchange's client are the client's, before
\* anything else gets the port.
SocketInv ==
  \A e \in Exchanges :
    /\ at[e] = "new" => ~shared[e]
    /\ ~shared[e] =>
         \A s \in sockets : s.local = e => at[e] # "new" /\ s.owner = client[e]
    /\ Handled(e) /\ ~shared[e] => report[e].pid \in {client[e], NoClient}

\* Numbers have been parsed as the reported kind's, which is some host's.
NumbersInv ==
  \A e \in Exchanges :
    report[e].sampled =>
      /\ Handled(e)
      /\ parse_headers(report[e].kind, rate_headers(to[e]))
      /\ \E h \in Hosts : classify_host(h) = report[e].kind

ProxyInv == ExchangeInv /\ HostInv /\ SocketInv /\ NumbersInv

LEMMA ProxyInitInv == ProxyInit => ProxyInv
BY DEF ProxyInit, ProxyInv, ExchangeInv, HostInv, SocketInv, NumbersInv, Stages,
   Handled, NoReport

LEMMA ConnectInv ==
  ASSUME ProxyInv, NEW e \in Exchanges, NEW c \in Clients, Connect(e, c)
  PROVE  ProxyInv'
<1>1. ExchangeInv'
  BY DEF ProxyInv, ExchangeInv, Connect, Stages
<1>2. HostInv'
  BY DEF ProxyInv, ExchangeInv, HostInv, Connect, Handled
<1>3. SocketInv'
  BY ProxyAssumption DEF ProxyInv, ExchangeInv, SocketInv, Connect, Handled, Socket
<1>4. NumbersInv'
  BY DEF ProxyInv, ExchangeInv, NumbersInv, Connect, Handled
<1> QED BY <1>1, <1>2, <1>3, <1>4 DEF ProxyInv

LEMMA CloseClientInv ==
  ASSUME ProxyInv, NEW e \in Exchanges, CloseClient(e)
  PROVE  ProxyInv'
<1>1. ExchangeInv' /\ HostInv'
  BY DEF ProxyInv, ExchangeInv, HostInv, CloseClient, Handled
<1>2. SocketInv'
  BY DEF ProxyInv, SocketInv, CloseClient, Handled
<1>3. NumbersInv'
  BY DEF ProxyInv, ExchangeInv, NumbersInv, CloseClient, Handled
<1> QED BY <1>1, <1>2, <1>3 DEF ProxyInv

LEMMA SharePortInv ==
  ASSUME ProxyInv, NEW e \in Exchanges, NEW c \in Clients, SharePort(e, c)
  PROVE  ProxyInv'
<1>1. ExchangeInv' /\ HostInv'
  BY DEF ProxyInv, ExchangeInv, HostInv, SharePort, Handled
<1>2. SocketInv'
  BY DEF ProxyInv, ExchangeInv, SocketInv, SharePort, Looked_up, Handled, Socket
<1>3. NumbersInv'
  BY DEF ProxyInv, ExchangeInv, NumbersInv, SharePort, Handled
<1> QED BY <1>1, <1>2, <1>3 DEF ProxyInv

LEMMA HandleRequestInv ==
  ASSUME ProxyInv, NEW e \in Exchanges, NEW h \in Hosts, HandleRequest(e, h)
  PROVE  ProxyInv'
<1>1. ExchangeInv'
  BY DEF ProxyInv, ExchangeInv, HandleRequest, Stages, remembered
<1>2. HostInv'
  BY DEF ProxyInv, ExchangeInv, HostInv, HandleRequest, Handled, remembered
<1>3. SocketInv'
  BY DEF ProxyInv, ExchangeInv, SocketInv, HandleRequest, Handled
<1>4. NumbersInv'
  BY DEF ProxyInv, ExchangeInv, NumbersInv, HandleRequest, Handled
<1> QED BY <1>1, <1>2, <1>3, <1>4 DEF ProxyInv

LEMMA HandleResponseInv ==
  ASSUME ProxyInv, NEW e \in Exchanges, HandleResponse(e)
  PROVE  ProxyInv'
<1>1. ExchangeInv'
  BY DEF ProxyInv, ExchangeInv, HandleResponse, Stages
<1>2. HostInv'
  <2>1. at[e] = "asked" /\ report[e].kind = NoKind
    BY DEF ProxyInv, HostInv, HandleResponse, Handled, NoReport
  <2>2. Handled(e)' /\ report'[e].kind = classify_host(last_host)
    BY <2>1 DEF ProxyInv, ExchangeInv, HandleResponse, Handled
  <2>3. ~overtaken[e] => last_host = to[e]
    BY <2>1 DEF ProxyInv, HostInv
  <2>4. /\ to' = to /\ overtaken' = overtaken
        /\ \A x \in Exchanges \ {e} : at'[x] = at[x] /\ report'[x] = report[x]
    BY DEF ProxyInv, ExchangeInv, HandleResponse
  <2>5. \A x \in Exchanges \ {e} : Handled(x)' <=> Handled(x)
    BY <2>4 DEF Handled
  <2>6. at'[e] # "asked"
    BY <2>2 DEF Handled
  <2>7. ASSUME NEW x \in Exchanges, x # e
        PROVE  /\ at'[x] = "asked" /\ ~overtaken'[x] => last_host' = to'[x]
               /\ ~Handled(x)' => report'[x] = NoReport
               /\ Handled(x)' /\ ~overtaken'[x] => report'[x].kind = classify_host(to'[x])
    BY <2>4, <2>5, <2>7 DEF ProxyInv, HostInv, HandleResponse
  <2>8. ~overtaken'[e] => report'[e].kind = classify_host(to'[e])
    BY <2>2, <2>3, <2>4
  <2> QED BY <2>2, <2>6, <2>7, <2>8 DEF HostInv
<1>3. SocketInv'
  BY DEF ProxyInv, ExchangeInv, HostInv, SocketInv, HandleResponse, Handled,
    NoReport, lookup_pid, rows_of
<1>4. NumbersInv'
  <2> SUFFICES ASSUME NEW x \in Exchanges, report'[x].sampled
               PROVE  /\ Handled(x)'
                      /\ parse_headers(report'[x].kind, rate_headers(to'[x]))
                      /\ \E h \in Hosts : classify_host(h) = report'[x].kind
    BY DEF NumbersInv
  <2>1. CASE x # e \/ report' = report
    <3>1. report'[x] = report[x] /\ to' = to
      BY <2>1 DEF ProxyInv, ExchangeInv, HandleResponse
    <3>2. Handled(x) => Handled(x)'
      BY DEF ProxyInv, ExchangeInv, HandleResponse, Handled
    <3> QED BY <3>1, <3>2 DEF ProxyInv, NumbersInv
  <2>2. CASE x = e /\ report' # report
    <3>1. /\ at'[e] = "posting" /\ to' = to
          /\ report'[e].kind = classify_host(last_host)
          /\ report'[e].sampled = parse_headers(classify_host(last_host), rate_headers(to[e]))
      BY <2>2 DEF ProxyInv, ExchangeInv, HandleResponse
    <3>2. last_host \in Hosts
      BY DEF ProxyInv, ExchangeInv, HandleResponse
    <3> QED BY <2>2, <3>1, <3>2 DEF Handled
  <2> QED BY <2>1, <2>2
<1> QED BY <1>1, <1>2, <1>3, <1>4 DEF ProxyInv

LEMMA PostedInv ==
  ASSUME ProxyInv, NEW e \in Exchanges, Posted(e)
  PROVE  ProxyInv'
BY DEF ProxyInv, ExchangeInv, HostInv, SocketInv, NumbersInv, Posted, Handled, Stages

LEMMA ProxyStutterInv ==
  ASSUME ProxyInv, UNCHANGED proxyVars
  PROVE  ProxyInv'
BY DEF ProxyInv, ExchangeInv, HostInv, SocketInv, NumbersInv, Handled, proxyVars

LEMMA ProxyInvariant == ProxySpec => []ProxyInv
<1>1. ProxyInv /\ [ProxyNext]_proxyVars => ProxyInv'
  <2> SUFFICES ASSUME ProxyInv, [ProxyNext]_proxyVars
               PROVE  ProxyInv'
    OBVIOUS
  <2>1. CASE UNCHANGED proxyVars
    BY <2>1, ProxyStutterInv
  <2>2. ASSUME NEW e \in Exchanges, NEW c \in Clients, Connect(e, c)
        PROVE  ProxyInv'
    BY <2>2, ConnectInv
  <2>3. ASSUME NEW e \in Exchanges, NEW c \in Clients, SharePort(e, c)
        PROVE  ProxyInv'
    BY <2>3, SharePortInv
  <2>4. ASSUME NEW e \in Exchanges, CloseClient(e)
        PROVE  ProxyInv'
    BY <2>4, CloseClientInv
  <2>5. ASSUME NEW e \in Exchanges, NEW h \in Hosts, HandleRequest(e, h)
        PROVE  ProxyInv'
    BY <2>5, HandleRequestInv
  <2>6. ASSUME NEW e \in Exchanges, HandleResponse(e)
        PROVE  ProxyInv'
    BY <2>6, HandleResponseInv
  <2>7. ASSUME NEW e \in Exchanges, Posted(e)
        PROVE  ProxyInv'
    BY <2>7, PostedInv
  <2> QED BY <2>1, <2>2, <2>3, <2>4, <2>5, <2>6, <2>7 DEF ProxyNext
<1> QED BY <1>1, ProxyInitInv, PTL DEF ProxySpec

SocketRow == [owner  : Clients \cup {ProxyPid},
              local  : Exchanges \cup {ProxyPort},
              remote : Exchanges \cup {ProxyPort, "elsewhere"}]

\* The rows of the table, and what a report may name.
RowTypes ==
  /\ last_host \in Hosts \cup {NoHost}
  /\ sockets \subseteq SocketRow
  /\ \A e \in Exchanges :
       /\ report[e].pid \in Clients \cup {NoClient, ProxyPid}
       /\ at[e] = "new" <=> client[e] = NoClient
       /\ at[e] \in {"asked", "posting", "done"} => to[e] \in Hosts

\* For any number of exchanges, clients and hosts: what is posted of a response
\* names a program or none, and what has been asked for has a host.
THEOREM ProxyTypes == ProxySpec => []ProxyTypeOK
<1>1. ProxyInit => RowTypes
  BY DEF ProxyInit, RowTypes, NoReport
<1>2. ProxyInv /\ RowTypes /\ [ProxyNext]_proxyVars => RowTypes'
  <2> SUFFICES ASSUME ExchangeInv, RowTypes, [ProxyNext]_proxyVars PROVE RowTypes'
    BY DEF ProxyInv
  <2>1. ASSUME NEW e \in Exchanges, NEW c \in Clients, Connect(e, c)
        PROVE  RowTypes'
    BY <2>1, ProxyAssumption DEF ExchangeInv, RowTypes, SocketRow, Connect, Socket
  <2>2. ASSUME NEW e \in Exchanges, NEW c \in Clients, SharePort(e, c)
        PROVE  RowTypes'
    BY <2>2 DEF ExchangeInv, RowTypes, SocketRow, SharePort, Socket
  <2>3. ASSUME NEW e \in Exchanges, CloseClient(e)
        PROVE  RowTypes'
    BY <2>3 DEF RowTypes, CloseClient
  <2>4. ASSUME NEW e \in Exchanges, NEW h \in Hosts, HandleRequest(e, h)
        PROVE  RowTypes'
    BY <2>4 DEF ExchangeInv, RowTypes, HandleRequest, remembered
  <2>5. ASSUME NEW e \in Exchanges, HandleResponse(e)
        PROVE  RowTypes'
    <3>1. lookup_pid(e) \subseteq Clients \cup {NoClient, ProxyPid}
      BY DEF RowTypes, SocketRow, lookup_pid, rows_of
    <3>2. \A x \in Exchanges : report'[x].pid \in Clients \cup {NoClient, ProxyPid}
      BY <2>5, <3>1 DEF ExchangeInv, RowTypes, HandleResponse
    <3>3. /\ at[e] = "asked" /\ UNCHANGED <<to, client, last_host, sockets>>
          /\ at' \in {[at EXCEPT ![e] = "done"], [at EXCEPT ![e] = "posting"]}
      BY <2>5 DEF HandleResponse
    <3> QED BY <3>2, <3>3 DEF ExchangeInv, RowTypes
  <2>6. ASSUME NEW e \in Exchanges, Posted(e)
        PROVE  RowTypes'
    BY <2>6 DEF ExchangeInv, RowTypes, Posted
  <2>7. CASE UNCHANGED proxyVars
    BY <2>7 DEF RowTypes, proxyVars
  <2> QED BY <2>1, <2>2, <2>3, <2>4, <2>5, <2>6, <2>7 DEF ProxyNext
<1>3. ProxyInv /\ RowTypes => ProxyTypeOK
  BY DEF ProxyInv, ExchangeInv, RowTypes, SocketRow, ProxyTypeOK
<1> QED BY <1>1, <1>2, <1>3, ProxyInvariant, PTL DEF ProxySpec

------------------------------------------------------------------------------
(* The tables *)

LEMMA SmallestOfEight ==
  ASSUME NEW S \in SUBSET (1 .. 8), S # {}
  PROVE  \E i \in S : \A j \in S : i <= j
<1> SUFFICES ASSUME \A i \in S : \E j \in S : j < i
             PROVE  FALSE
  OBVIOUS
<1>1. 1 \notin S
  OBVIOUS
<1>2. 2 \notin S
  BY <1>1
<1>3. 3 \notin S
  BY <1>1, <1>2
<1>4. 4 \notin S
  BY <1>1, <1>2, <1>3
<1>5. 5 \notin S
  BY <1>1, <1>2, <1>3, <1>4
<1>6. 6 \notin S
  BY <1>1, <1>2, <1>3, <1>4, <1>5
<1>7. 7 \notin S
  BY <1>1, <1>2, <1>3, <1>4, <1>5, <1>6
<1>8. 8 \notin S
  BY <1>1, <1>2, <1>3, <1>4, <1>5, <1>6, <1>7
<1>9. PICK i : i \in S
  OBVIOUS
<1>10. i \in 1 .. 8
  BY <1>9
<1>11. i \in {1, 2, 3, 4, 5, 6, 7, 8}
  BY <1>10
<1> QED BY <1>1, <1>2, <1>3, <1>4, <1>5, <1>6, <1>7, <1>8, <1>9, <1>11

\* A host is classified as a kind only if that kind's adapter claims it.
LEMMA ClassifiedIsClaimed ==
  ASSUME NEW h, classify_host(h) # NoKind
  PROVE  \E i \in 1 .. 8 : /\ classify_host(h) = all_adapters[i]
                          /\ h \in api_hosts[all_adapters[i]]
<1> DEFINE first(i) == i \in Claimed(h) /\ \A j \in Claimed(h) : i <= j
<1>1. Claimed(h) # {}
  BY DEF classify_host
<1>2. Claimed(h) \in SUBSET (1 .. 8)
  BY DEF Claimed, all_adapters
<1>3. \E i : first(i)
  BY <1>1, <1>2, SmallestOfEight
<1>4. PICK i : i = CHOOSE k \in Claimed(h) : \A j \in Claimed(h) : k <= j
  OBVIOUS
<1>5. i \in Claimed(h)
  BY <1>3, <1>4
<1>6. classify_host(h) = all_adapters[i]
  BY <1>1, <1>4 DEF classify_host
<1> QED BY <1>2, <1>5, <1>6 DEF Claimed

\* If an adapter parses the headers of a response, then it is the adapter of
\* a provider that names its headers so.
LEMMA ParsedIsProviders ==
  ASSUME NEW h, NEW headers, NEW kind, kind # NoKind, classify_host(h) = kind,
         parse_headers(kind, headers)
  PROVE  rate_headers(h) = headers
<1>1. PICK i \in 1 .. 8 : kind = all_adapters[i] /\ h \in api_hosts[all_adapters[i]]
  BY ClassifiedIsClaimed
<1>2. CASE kind = "claude" /\ headers = "anthropic-ratelimit-"
  BY <1>1, <1>2 DEF api_hosts, rate_headers
<1>3. CASE kind = "codex" /\ headers = "x-ratelimit-"
  BY <1>1, <1>3 DEF api_hosts, rate_headers
<1> QED BY <1>2, <1>3 DEF parse_headers

\* Only adapters parse.
LEMMA ParsingKinds ==
  ASSUME NEW headers, NEW kind, parse_headers(kind, headers)
  PROVE  kind # NoKind
<1>1. kind = all_adapters[1] \/ kind = all_adapters[2]
  BY DEF parse_headers, all_adapters
<1>2. 1 \in DOMAIN all_adapters /\ 2 \in DOMAIN all_adapters
  BY DEF all_adapters
<1> QED BY <1>1, <1>2, AdaptersAssumption

------------------------------------------------------------------------------
(* Theorems *)

\* A response is reported under the kind of its own host unless another request
\* was handled in between, and numbers get the wrong kind only between providers
\* that name their headers alike, whatever else is under way (handle_response,
\* parse_headers).
THEOREM KindReported == ProxySpec => []KindOfItsHost
<1>1. ASSUME ProxyInv
      PROVE  KindOfItsHost
  <2> SUFFICES ASSUME NEW e \in Exchanges
               PROVE  /\ Handled(e) /\ ~overtaken[e] => report[e].kind = classify_host(to[e])
                      /\ report[e].sampled /\ report[e].kind # classify_host(to[e]) =>
                           \E h \in Hosts : /\ classify_host(h) = report[e].kind
                                            /\ rate_headers(h) = rate_headers(to[e])
    BY DEF KindOfItsHost
  <2>1. Handled(e) /\ ~overtaken[e] => report[e].kind = classify_host(to[e])
    BY <1>1 DEF ProxyInv, HostInv
  <2>2. ASSUME report[e].sampled
        PROVE  \E h \in Hosts : /\ classify_host(h) = report[e].kind
                                /\ rate_headers(h) = rate_headers(to[e])
    <3>1. parse_headers(report[e].kind, rate_headers(to[e]))
      BY <1>1, <2>2 DEF ProxyInv, NumbersInv
    <3>2. PICK h \in Hosts : classify_host(h) = report[e].kind
      BY <1>1, <2>2 DEF ProxyInv, NumbersInv
    <3>3. rate_headers(h) = rate_headers(to[e])
      BY <3>1, <3>2, ParsingKinds, ParsedIsProviders
    <3> QED BY <3>2, <3>3
  <2> QED BY <2>1, <2>2
<1> QED BY <1>1, ProxyInvariant, PTL

\* A response is charged to the program that asked for it, or to none, unless
\* another connection has its port (lookup_pid).
THEOREM ClientCharged == ProxySpec => []ChargedToTheClient
<1>1. ProxyInv => ChargedToTheClient
  BY DEF ProxyInv, SocketInv, ChargedToTheClient
<1> QED BY <1>1, ProxyInvariant, PTL
------------------------------------------------------------------------------
(* The dashboard: the processes it finds *)

\* What may be on the screen besides rows.
AllLines == {Line(kind, p) : kind \in Words(all_adapters), p \in ProcIds}

LEMMA AdaptersWords ==
  /\ all_adapters \in Seq(Words(all_adapters)) /\ Len(all_adapters) \in Nat
  /\ DOMAIN all_adapters = 1 .. Len(all_adapters)
  /\ \A kind \in Words(all_adapters) : \E i \in 1 .. Len(all_adapters) : all_adapters[i] = kind
BY DEF all_adapters, Words

LEMMA SearchUnfolds ==
  ASSUME NEW taken
  PROVE  \E acc :
           /\ acc[0] = {}
           /\ \A i \in 0 .. Len(all_adapters) - 1 :
                acc[i + 1] = with_detected(taken, acc[i], all_adapters[i + 1])
           /\ discovered(taken) = acc[Len(all_adapters)]
<1> DEFINE n == Len(all_adapters)
           D == 1 .. n
           V == SUBSET AllLines
           Step(lines, kind) == with_detected(taken, lines, kind)
           onward == [x \in V \X D |-> Step(x[1], all_adapters[x[2]])]
           Fold(f) == f = [T \in SUBSET D |->
                             IF T = {} THEN {} ELSE Step(f[T \ {Max(T)}], all_adapters[Max(T)])]
<1>1. /\ n \in Nat /\ DOMAIN all_adapters = D
      /\ \A i \in D : all_adapters[i] \in Words(all_adapters)
  BY AdaptersWords DEF Words
<1>2. \A lines \in V, kind \in Words(all_adapters) : Step(lines, kind) \in V
  BY DEF AllLines, with_detected
<1>3. \E f : Fold(f)
  <2>1. onward \in [V \X D -> V]
    BY <1>1, <1>2
  <2>2. {} \in V
    OBVIOUS
  <2>3. \A lines \in V, i \in D : onward[<<lines, i>>] = Step(lines, all_adapters[i])
    OBVIOUS
  <2> HIDE DEF V, n, Step, onward
  <2>4. PICK f \in [SUBSET D -> V] : IsLeftFold(f, n, {}, onward)
    BY <1>1, <2>1, <2>2, LeftFoldExists
  <2>5. \A T \in SUBSET D : T # {} => Max(T) \in D
    BY <1>1, GreatestPosition
  <2>6. \A T \in SUBSET D :
          f[T] = IF T = {} THEN {} ELSE Step(f[T \ {Max(T)}], all_adapters[Max(T)])
    BY <2>3, <2>4, <2>5 DEF IsLeftFold
  <2>7. f = [T \in SUBSET D |->
               IF T = {} THEN {} ELSE Step(f[T \ {Max(T)}], all_adapters[Max(T)])]
    BY <2>4, <2>6
  <2>8. QED
    BY <2>7, Zenon
<1> DEFINE fold == CHOOSE f : Fold(f)
           acc == [i \in 0 .. n |-> fold[1 .. i]]
<1>4. discovered(taken) = fold[D]
  BY <1>1, Zenon DEF discovered, FoldLeft, MapThenFoldSet
<1>5. \A T \in SUBSET D :
        fold[T] = IF T = {} THEN {} ELSE Step(fold[T \ {Max(T)}], all_adapters[Max(T)])
  <2>1. Fold(fold)
    <3> HIDE DEF Fold
    <3> QED
      BY <1>3, Zenon
  <2> HIDE DEF fold, Step
  <2>2. QED
    BY <2>1
<1>6. \A lines, kind : Step(lines, kind) = with_detected(taken, lines, kind)
  OBVIOUS
<1> HIDE DEF fold, Step
<1>7. acc[0] = {} /\ acc[n] = fold[D]
  <2>1. 1 .. 0 = {} /\ 0 \in 0 .. n /\ n \in 0 .. n
    BY <1>1
  <2>2. fold[{}] = {}
    BY <1>5
  <2>3. QED
    BY <2>1, <2>2
<1>8. ASSUME NEW i \in 0 .. n - 1
      PROVE  acc[i + 1] = with_detected(taken, acc[i], all_adapters[i + 1])
  <2>1. i \in Nat /\ 1 .. i + 1 \in SUBSET D /\ i \in 0 .. n /\ i + 1 \in 0 .. n
    BY <1>1
  <2>2. /\ Max(1 .. i + 1) = i + 1
        /\ (1 .. i + 1) \ {i + 1} = 1 .. i
        /\ 1 .. i + 1 # {}
    BY <2>1, LastPosition
  <2> HIDE DEF n, D
  <2>3. PICK T \in SUBSET D : T = 1 .. i + 1
    BY <2>1
  <2>4. fold[T] = Step(fold[T \ {Max(T)}], all_adapters[Max(T)])
    BY <1>5, <2>2, <2>3
  <2>5. T \ {Max(T)} = 1 .. i /\ Max(T) = i + 1
    BY <2>2, <2>3
  <2>6. fold[1 .. i + 1] = Step(fold[1 .. i], all_adapters[i + 1])
    BY <2>3, <2>4, <2>5
  <2>7. QED
    BY <1>6, <2>1, <2>6
<1>9. QED
  <2> HIDE DEF acc
  <2> QED
    BY <1>4, <1>7, <1>8
\* What the first i adapters have found: each pid once, none that is taken, and
\* every candidate one of them knows.
Reached(taken, lines, i) ==
  /\ \A l \in lines :
       /\ l.pid \in ProcIds \ taken
       /\ \E kind \in Words(all_adapters) : l = Line(kind, l.pid)
  /\ \A l, m \in lines : l.pid = m.pid => l = m
  /\ \A p \in ProcIds, j \in 1 .. i :
       candidate(p) /\ detect(all_adapters[j], scanned[p]) => p \in taken \cup Pids_of(lines)

LEMMA SearchStep ==
  ASSUME NEW taken, NEW lines, NEW i \in 0 .. Len(all_adapters) - 1, Reached(taken, lines, i)
  PROVE  Reached(taken, with_detected(taken, lines, all_adapters[i + 1]), i + 1)
<1> DEFINE kind == all_adapters[i + 1]
           more == {q \in ProcIds : candidate(q) /\ detect(kind, scanned[q])
                                    /\ fresh(q, lines, taken)}
           after_it == lines \cup {Line(kind, p) : p \in more}
<1>1. i \in Nat /\ i + 1 \in 1 .. Len(all_adapters) /\ kind \in Words(all_adapters)
  BY AdaptersWords DEF Words
<1>2. \A p : Line(kind, p).pid = p
  BY DEF Line
<1>3. \A p \in more : p \in ProcIds \ taken /\ p \notin Pids_of(lines)
  BY DEF fresh
<1>4. Pids_of(after_it) = Pids_of(lines) \cup more
  BY <1>2 DEF Pids_of
<1>5. ASSUME NEW p \in ProcIds, candidate(p), detect(kind, scanned[p])
      PROVE  p \in taken \cup Pids_of(after_it)
  BY <1>4, <1>5 DEF fresh
<1>6. with_detected(taken, lines, kind) = after_it
  BY DEF with_detected
<1>7. \A l \in after_it : l \in lines \/ \E p \in more : l = Line(kind, p)
  OBVIOUS
<1> HIDE DEF kind, more, after_it
<1>8. \A l \in after_it :
        /\ l.pid \in ProcIds \ taken
        /\ \E k \in Words(all_adapters) : l = Line(k, l.pid)
  BY <1>1, <1>2, <1>3, <1>7 DEF Reached
<1>9. \A l, m \in after_it : l.pid = m.pid => l = m
  BY <1>2, <1>3, <1>7 DEF Reached, Pids_of
<1>10. ASSUME NEW p \in ProcIds, NEW j \in 1 .. i + 1,
              candidate(p), detect(all_adapters[j], scanned[p])
       PROVE  p \in taken \cup Pids_of(after_it)
  <2>1. CASE j = i + 1
    BY <1>5, <1>10, <2>1 DEF kind
  <2>2. CASE j # i + 1
    BY <1>1, <1>4, <1>10, <2>2 DEF Reached
  <2> QED BY <2>1, <2>2
<1>11. QED
  BY <1>6, <1>8, <1>9, <1>10 DEF Reached, kind

\* And so all of them.
LEMMA AllReached ==
  ASSUME NEW taken
  PROVE  Reached(taken, discovered(taken), Len(all_adapters))
<1>1. PICK acc :
        /\ acc[0] = {}
        /\ \A i \in 0 .. Len(all_adapters) - 1 :
             acc[i + 1] = with_detected(taken, acc[i], all_adapters[i + 1])
        /\ discovered(taken) = acc[Len(all_adapters)]
  BY SearchUnfolds
<1> DEFINE n == Len(all_adapters)
           S == {i \in 0 .. n : Reached(taken, acc[i], i)}
<1>2. n \in Nat
  BY AdaptersWords
<1>3. 0 \in S
  BY <1>1, <1>2 DEF Reached
<1>4. ASSUME NEW i \in 0 .. n - 1, i \in S
      PROVE  i + 1 \in S
  <2>1. Reached(taken, acc[i + 1], i + 1)
    BY <1>1, <1>4, SearchStep
  <2> QED BY <1>2, <2>1
<1>5. 0 .. n \subseteq S
  <2> HIDE DEF S, n
  <2> QED BY <1>2, <1>3, <1>4, BoundedInduction
<1>6. QED
  BY <1>1, <1>2, <1>5
------------------------------------------------------------------------------
(* The dashboard: the usage of a kind *)

LEMMA EntryUnfolds ==
  ASSUME listed \in Seq(AgentRowShown), NEW kind
  PROVE  \E acc :
           /\ acc[0] = [last |-> 0, seen |-> 0]
           /\ \A i \in 0 .. Len(listed) - 1 :
                acc[i + 1] = counted(kind, acc[i], listed[i + 1])
           /\ latest_usage_by_kind(kind) = acc[Len(listed)]
<1> DEFINE n == Len(listed)
           D == 1 .. n
           V == [last : Nat, seen : Nat]
           none == [last |-> 0, seen |-> 0]
           Step(entry, row) == counted(kind, entry, row)
           onward == [x \in V \X D |-> Step(x[1], listed[x[2]])]
           Fold(f) == f = [T \in SUBSET D |->
                             IF T = {} THEN none ELSE Step(f[T \ {Max(T)}], listed[Max(T)])]
<1>1. n \in Nat /\ DOMAIN listed = D /\ \A i \in D : listed[i] \in AgentRowShown
  OBVIOUS
<1>2. \A entry \in V, row \in AgentRowShown : Step(entry, row) \in V
  BY DEF AgentRowShown, counted
<1>3. \E f : Fold(f)
  <2>1. onward \in [V \X D -> V]
    BY <1>1, <1>2
  <2>2. none \in V
    OBVIOUS
  <2>3. \A entry \in V, i \in D : onward[<<entry, i>>] = Step(entry, listed[i])
    OBVIOUS
  <2> HIDE DEF V, n, none, Step, onward
  <2>4. PICK f \in [SUBSET D -> V] : IsLeftFold(f, n, none, onward)
    BY <1>1, <2>1, <2>2, LeftFoldExists
  <2>5. \A T \in SUBSET D : T # {} => Max(T) \in D
    BY <1>1, GreatestPosition
  <2>6. \A T \in SUBSET D :
          f[T] = IF T = {} THEN none ELSE Step(f[T \ {Max(T)}], listed[Max(T)])
    BY <2>3, <2>4, <2>5 DEF IsLeftFold
  <2>7. f = [T \in SUBSET D |-> IF T = {} THEN none ELSE Step(f[T \ {Max(T)}], listed[Max(T)])]
    BY <2>4, <2>6
  <2>8. QED
    BY <2>7, Zenon
<1> DEFINE fold == CHOOSE f : Fold(f)
           acc == [i \in 0 .. n |-> fold[1 .. i]]
<1>4. latest_usage_by_kind(kind) = fold[D]
  BY <1>1, Zenon DEF latest_usage_by_kind, FoldLeft, MapThenFoldSet
<1>5. \A T \in SUBSET D :
        fold[T] = IF T = {} THEN none ELSE Step(fold[T \ {Max(T)}], listed[Max(T)])
  <2>1. Fold(fold)
    <3> HIDE DEF Fold
    <3> QED
      BY <1>3, Zenon
  <2> HIDE DEF fold, Step, none
  <2>2. QED
    BY <2>1
<1> HIDE DEF fold, none
<1>6. acc[0] = none /\ acc[n] = fold[D]
  <2>1. 1 .. 0 = {} /\ 0 \in 0 .. n /\ n \in 0 .. n
    BY <1>1
  <2>2. fold[{}] = none
    BY <1>5
  <2>3. QED
    BY <2>1, <2>2
<1>7. ASSUME NEW i \in 0 .. n - 1
      PROVE  acc[i + 1] = counted(kind, acc[i], listed[i + 1])
  <2>1. i \in Nat /\ 1 .. i + 1 \in SUBSET D /\ i \in 0 .. n /\ i + 1 \in 0 .. n
    BY <1>1
  <2>2. /\ Max(1 .. i + 1) = i + 1
        /\ (1 .. i + 1) \ {i + 1} = 1 .. i
        /\ 1 .. i + 1 # {}
    BY <2>1, LastPosition
  <2> HIDE DEF n, D
  <2>3. PICK T \in SUBSET D : T = 1 .. i + 1
    BY <2>1
  <2>4. fold[T] = Step(fold[T \ {Max(T)}], listed[Max(T)])
    BY <1>5, <2>2, <2>3
  <2>5. T \ {Max(T)} = 1 .. i /\ Max(T) = i + 1
    BY <2>2, <2>3
  <2>6. fold[1 .. i + 1] = Step(fold[1 .. i], listed[i + 1])
    BY <2>3, <2>4, <2>5
  <2>7. QED
    BY <2>1, <2>6
<1>8. QED
  <2> HIDE DEF acc
  <2> QED
    BY <1>4, <1>6, <1>7 DEF none

OfKind(kind) == {i \in DOMAIN listed : listed[i].kind = kind}

SeenOf(kind) == [i \in OfKind(kind) |-> listed[i].seen]

SeenIn(list, kind) ==
  FoldSet(LAMBDA i, sum : sum + list[i].seen, 0, {i \in DOMAIN list : list[i].kind = kind})

\* The requests of the rows of a kind, added up in any order.
LEMMA TotalUnfolds ==
  ASSUME listed \in Seq(AgentRowShown), NEW kind
  PROVE  \E it : AnyOrder(it, OfKind(kind), SeenOf(kind)) /\ SeenIn(listed, kind) = it[OfKind(kind)]
<1> DEFINE D == OfKind(kind)
           v == SeenOf(kind)
           pick == [T \in SUBSET D |-> CHOOSE x \in T : TRUE]
           onward == [x \in Nat \X D |-> x[1] + v[x[2]]]
           Fold(f) == f = [T \in SUBSET D |->
                             IF T = {} THEN 0
                             ELSE f[T \ {CHOOSE x \in T : TRUE}] + listed[CHOOSE x \in T : TRUE].seen]
<1>1. IsFiniteSet(D)
  <2>1. IsFiniteSet(1 .. Len(listed)) /\ D \subseteq 1 .. Len(listed)
    BY FS_Interval DEF OfKind
  <2> QED BY <2>1, FS_Subset
<1>2. v \in [D -> Nat] /\ \A i \in D : v[i] = listed[i].seen
  <2>1. \A i \in DOMAIN listed : listed[i] \in AgentRowShown
    OBVIOUS
  <2>2. \A i \in D : listed[i].seen \in Nat
    BY <2>1 DEF OfKind, AgentRowShown
  <2> QED BY <2>2 DEF SeenOf
<1>3. Picks(pick, D) /\ \A T \in SUBSET D : pick[T] = CHOOSE x \in T : TRUE
  BY DEF Picks
<1>4. \E f : Fold(f)
  <2>1. onward \in [Nat \X D -> Nat] /\ \A m \in Nat, i \in D : onward[<<m, i>>] = m + v[i]
    BY <1>2
  <2> HIDE DEF onward, pick, D, v
  <2>2. PICK f \in [SUBSET D -> Nat] : IsFold(f, D, 0, onward, pick)
    BY <1>1, <1>3, <2>1, FoldExists
  <2>3. \A T \in SUBSET D : T # {} => pick[T] \in D
    BY <1>3 DEF Picks
  <2>4. \A T \in SUBSET D :
          f[T] = IF T = {} THEN 0 ELSE f[T \ {pick[T]}] + v[pick[T]]
    BY <2>1, <2>2, <2>3 DEF IsFold
  <2>5. \A T \in SUBSET D :
          f[T] = IF T = {} THEN 0
                 ELSE f[T \ {CHOOSE x \in T : TRUE}] + listed[CHOOSE x \in T : TRUE].seen
    <3> SUFFICES ASSUME NEW T \in SUBSET D
                 PROVE  f[T] = IF T = {} THEN 0
                               ELSE f[T \ {CHOOSE x \in T : TRUE}]
                                      + listed[CHOOSE x \in T : TRUE].seen
      OBVIOUS
    <3>1. pick[T] = CHOOSE x \in T : TRUE
      BY <1>3
    <3>2. T # {} => f[T] = f[T \ {pick[T]}] + listed[pick[T]].seen
      BY <1>2, <2>3, <2>4
    <3>3. T = {} => f[T] = 0
      BY <2>4
    <3> QED BY <3>1, <3>2, <3>3
  <2>6. f = [T \in SUBSET D |->
               IF T = {} THEN 0
               ELSE f[T \ {CHOOSE x \in T : TRUE}] + listed[CHOOSE x \in T : TRUE].seen]
    BY <2>2, <2>5
  <2> QED BY <2>6, Zenon
<1> DEFINE fold == CHOOSE f : Fold(f)
<1>5. SeenIn(listed, kind) = fold[D]
  BY Zenon DEF SeenIn, OfKind, FoldSet, MapThenFoldSet
<1>6. Fold(fold)
  <2> HIDE DEF Fold
  <2> QED BY <1>4, Zenon
<1>7. IsSum(fold, D, v, pick)
  <2> HIDE DEF fold
  <2> SUFFICES ASSUME NEW T \in SUBSET D
               PROVE  fold[T] = IF T = {} THEN 0 ELSE fold[T \ {pick[T]}] + v[pick[T]]
    BY DEF IsSum
  <2>1. fold[T] = IF T = {} THEN 0
                  ELSE fold[T \ {CHOOSE x \in T : TRUE}] + listed[CHOOSE x \in T : TRUE].seen
    BY <1>6
  <2>2. T # {} => pick[T] \in D
    BY <1>3 DEF Picks
  <2> QED BY <1>2, <1>3, <2>1, <2>2
<1> HIDE DEF fold, pick
<1>8. AnyOrder(fold, D, v)
  BY <1>1, <1>2, <1>3, <1>7, SumTakesAny
<1>9. QED
  BY <1>5, <1>8
\* What the entry of a kind holds after the first i rows.
Counted(kind, entry, i, it) ==
  LET so_far == OfKind(kind) \cap 1 .. i IN
  /\ entry.last \in Nat
  /\ entry.last # 0 => \E j \in so_far : listed[j].last = entry.last
  /\ \A j \in so_far : listed[j].last <= entry.last
  /\ entry.seen = it[so_far]

LEMMA CountedStep ==
  ASSUME listed \in Seq(AgentRowShown), NEW kind, NEW it, NEW entry,
         AnyOrder(it, OfKind(kind), SeenOf(kind)),
         NEW i \in 0 .. Len(listed) - 1, Counted(kind, entry, i, it)
  PROVE  Counted(kind, counted(kind, entry, listed[i + 1]), i + 1, it)
<1> DEFINE row == listed[i + 1]
           before == OfKind(kind) \cap 1 .. i
           now == OfKind(kind) \cap 1 .. i + 1
           entry2 == counted(kind, entry, row)
<1>1. i \in Nat /\ i + 1 \in DOMAIN listed /\ row \in AgentRowShown
  OBVIOUS
<1>2. row.last \in Nat /\ row.seen \in Nat
  BY <1>1 DEF AgentRowShown
<1>3. \A j \in before : listed[j].last \in Nat
  <2>1. \A j \in before : listed[j] \in AgentRowShown
    BY DEF OfKind
  <2> QED BY <2>1 DEF AgentRowShown
<1>4. CASE row.kind # kind
  <2>1. now = before /\ entry2 = entry
    BY <1>1, <1>4 DEF OfKind, counted
  <2> HIDE DEF now, before, entry2
  <2> QED BY <2>1 DEF Counted, now, before, entry2
<1>5. CASE row.kind = kind
  <2>1. now = before \cup {i + 1} /\ i + 1 \in now /\ now \ {i + 1} = before
        /\ now \in SUBSET OfKind(kind)
    BY <1>1, <1>5 DEF OfKind
  <2>2. SeenOf(kind)[i + 1] = row.seen
    BY <2>1 DEF SeenOf
  <2>3. it[now] = it[before] + row.seen
    BY <2>1, <2>2 DEF AnyOrder
  <2>4. /\ entry2.last = IF newer(row.last, entry.last) THEN row.last ELSE entry.last
        /\ entry2.seen = entry.seen + row.seen
    BY <1>5 DEF counted
  <2>5. /\ entry.last \in Nat
        /\ entry.last # 0 => \E j \in before : listed[j].last = entry.last
        /\ \A j \in before : listed[j].last <= entry.last
        /\ entry.seen = it[before]
    BY DEF Counted
  <2> HIDE DEF now, before, entry2, row
  <2>6. entry2.last \in Nat /\ row.last <= entry2.last /\ entry.last <= entry2.last
        /\ entry2.last \in {row.last, entry.last}
    BY <1>2, <2>4, <2>5 DEF newer
  <2>7. \A j \in now : listed[j].last <= entry2.last
    BY <1>2, <1>3, <2>1, <2>5, <2>6 DEF row
  <2>8. entry2.last # 0 => \E j \in now : listed[j].last = entry2.last
    BY <2>1, <2>5, <2>6 DEF row
  <2>9. entry2.seen = it[now]
    BY <2>3, <2>4, <2>5
  <2> QED BY <2>6, <2>7, <2>8, <2>9 DEF Counted, now, entry2, row
<1> QED BY <1>4, <1>5

\* For rows of any number: the newest sample and all requests.
LEMMA UsageOfRows ==
  ASSUME listed \in Seq(AgentRowShown), NEW kind
  PROVE  /\ latest_usage_by_kind(kind).last = Max({0} \cup {listed[i].last : i \in OfKind(kind)})
         /\ latest_usage_by_kind(kind).seen = SeenIn(listed, kind)
<1>1. PICK it : AnyOrder(it, OfKind(kind), SeenOf(kind)) /\ SeenIn(listed, kind) = it[OfKind(kind)]
  BY TotalUnfolds
<1>2. PICK acc :
        /\ acc[0] = [last |-> 0, seen |-> 0]
        /\ \A i \in 0 .. Len(listed) - 1 : acc[i + 1] = counted(kind, acc[i], listed[i + 1])
        /\ latest_usage_by_kind(kind) = acc[Len(listed)]
  BY EntryUnfolds
<1> DEFINE n == Len(listed)
           S == {i \in 0 .. n : Counted(kind, acc[i], i, it)}
<1>3. n \in Nat /\ OfKind(kind) \subseteq 1 .. n
  BY DEF OfKind
<1>4. 0 \in S
  <2>1. OfKind(kind) \cap 1 .. 0 = {} /\ it[{}] = 0
    BY <1>1 DEF AnyOrder
  <2> QED BY <1>2, <1>3, <2>1 DEF Counted
<1>5. ASSUME NEW i \in 0 .. n - 1, i \in S
      PROVE  i + 1 \in S
  <2>1. Counted(kind, acc[i + 1], i + 1, it)
    BY <1>1, <1>2, <1>5, CountedStep
  <2> QED BY <1>3, <2>1
<1>6. Counted(kind, acc[n], n, it)
  <2>1. 0 .. n \subseteq S
    <3> HIDE DEF S, n
    <3> QED BY <1>3, <1>4, <1>5, BoundedInduction
  <2> QED BY <1>3, <2>1
<1> DEFINE entry == acc[n]
           all == {0} \cup {listed[i].last : i \in OfKind(kind)}
<1>7. OfKind(kind) \cap 1 .. n = OfKind(kind)
  BY <1>3
<1> HIDE DEF entry, n
<1>8. entry.last \in all /\ entry.last \in Nat /\ entry.seen = SeenIn(listed, kind)
      /\ \A i \in OfKind(kind) : listed[i].last <= entry.last
  BY <1>1, <1>6, <1>7 DEF Counted, entry
<1>9. \A x \in all : x \in Nat /\ entry.last >= x
  <2>1. \A i \in OfKind(kind) : listed[i] \in AgentRowShown
    BY DEF OfKind
  <2>2. \A i \in OfKind(kind) : listed[i].last \in Nat
    BY <2>1 DEF AgentRowShown
  <2> QED BY <1>8, <2>2
<1>10. Max(all) = entry.last
  <2> HIDE DEF all
  <2>1. \A x \in all : (\A y \in all : x >= y) => x = entry.last
    BY <1>8, <1>9
  <2> QED BY <1>8, <1>9, <2>1 DEF Max
<1>11. QED
  BY <1>2, <1>8, <1>10 DEF entry, n
------------------------------------------------------------------------------
(* The dashboard: a refresh *)

ShownPids == {listed[i].pid : i \in shown}

\* What a finished refresh has made of its readings.
ScreenInv ==
  /\ pidfiles = service
  /\ shown = visible_rows
  /\ \A l \in found : l.pid \in ProcIds \ ShownPids
  /\ \A l, m \in found : l.pid = m.pid => l = m
  /\ \A p \in ProcIds :
       candidate(p) /\ Agent(scanned[p]) => p \in ShownPids \cup Pids_of(found)
  /\ \A l \in found :
       /\ l.usage.last = Max({0} \cup {listed[i].last : i \in OfKind(l.kind)})
       /\ l.usage.seen = SeenIn(listed, l.kind)

\* A process that has been there all along is the one that was scanned, and
\* nothing is read again once the screen has been made.
RefreshInv ==
  /\ DashboardTypeOK
  /\ phase \in {"idle", "listed", "scanned", "ready"}
  /\ phase \in {"scanned", "ready"} => \A p \in steady : scanned[p] = running[p]
  /\ phase # "ready" => shown = {} /\ found = {}
  /\ phase = "ready" => ScreenInv

LEMMA RefreshInit == DashboardInit => RefreshInv
<1> SUFFICES ASSUME DashboardInit PROVE RefreshInv
  OBVIOUS
<1>1. rows \in Seq(AgentRowShown)
  <2>1. PICK m \in 0 .. MaxRows : rows \in [1 .. m -> SomeRows]
    BY DEF DashboardInit, BoundedSeq, SeqOf
  <2>2. SomeRows \subseteq AgentRowShown
    BY DEF SomeRows, AgentRowShown
  <2>3. rows \in [1 .. m -> AgentRowShown] /\ m \in Nat
    BY <2>1, <2>2, DashboardAssumption
  <2> QED BY <2>3
<1>2. DashboardTypeOK
  BY <1>1 DEF DashboardInit, DashboardTypeOK, NoProcs, Pids_of
<1> QED BY <1>2 DEF DashboardInit, RefreshInv

\* Rows come and go.
LEMMA RowsTyped ==
  ASSUME rows \in Seq(AgentRowShown),
         \/ \E p \in ProcIds : \E kind \in RowKinds : AddRow(kind, p)
         \/ \E i \in DOMAIN rows : RetireRow(i) \/ SampleRow(i)
  PROVE  rows' \in Seq(AgentRowShown)
<1>1. ASSUME NEW p \in ProcIds, NEW kind \in RowKinds, AddRow(kind, p)
      PROVE  rows' \in Seq(AgentRowShown)
  <2>1. [kind |-> kind, pid |-> p, last |-> 0, seen |-> 0] \in AgentRowShown
    BY DEF AgentRowShown
  <2> QED BY <1>1, <2>1 DEF AddRow
<1>2. ASSUME NEW i \in DOMAIN rows, RetireRow(i)
      PROVE  rows' \in Seq(AgentRowShown)
  <2>1. /\ i \in 1 .. Len(rows) /\ Len(rows) \in Nat
        /\ rows' = SubSeq(rows, 1, i - 1) \o SubSeq(rows, i + 1, Len(rows))
    BY <1>2 DEF RetireRow, RemoveAt
  <2>2. /\ SubSeq(rows, 1, i - 1) \in Seq(AgentRowShown)
        /\ SubSeq(rows, i + 1, Len(rows)) \in Seq(AgentRowShown)
    BY <2>1
  <2> QED BY <2>1, <2>2
<1>3. ASSUME NEW i \in DOMAIN rows, SampleRow(i)
      PROVE  rows' \in Seq(AgentRowShown)
  <2>1. rows[i] \in AgentRowShown
    BY <1>3
  <2>2. PICK ts \in {rows[j].last : j \in DOMAIN rows} \cup {2} :
          rows' = [rows EXCEPT ![i].last = ts, ![i].seen = @ + 1]
    BY <1>3 DEF SampleRow
  <2>3. \A j \in DOMAIN rows : rows[j] \in AgentRowShown
    OBVIOUS
  <2>4. ts \in Nat
    BY <2>2, <2>3 DEF AgentRowShown
  <2>5. [rows[i] EXCEPT !.last = ts, !.seen = @ + 1] \in AgentRowShown
    <3> DEFINE sampled == [rows[i] EXCEPT !.last = ts]
    <3>1. sampled \in AgentRowShown /\ sampled.seen = rows[i].seen
      BY <2>1, <2>4 DEF AgentRowShown
    <3>2. [sampled EXCEPT !.seen = @ + 1] \in AgentRowShown
      <4> HIDE DEF sampled
      <4>1. PICK seen2 \in Nat : seen2 = sampled.seen + 1
        BY <3>1 DEF AgentRowShown
      <4>2. [sampled EXCEPT !.seen = seen2] \in AgentRowShown
        BY <3>1 DEF AgentRowShown
      <4> QED BY <4>1, <4>2
    <3>3. [rows[i] EXCEPT !.last = ts, !.seen = @ + 1] = [sampled EXCEPT !.seen = @ + 1]
      BY <3>1
    <3> QED BY <3>2, <3>3
  <2>6. rows' = [rows EXCEPT ![i] = [rows[i] EXCEPT !.last = ts, !.seen = @ + 1]]
    BY <2>1, <2>2
  <2> QED BY <2>5, <2>6
<1> QED BY <1>1, <1>2, <1>3

\* What happens around the dashboard does so before the screen is made.
LEMMA AroundKeeps ==
  ASSUME RefreshInv,
         \/ \E p \in ProcIds :
              \/ Launch(p) \/ Quit(p) \/ WritePidfile(p)
              \/ \E kind \in RowKinds : AddRow(kind, p)
         \/ \E i \in DOMAIN rows : RetireRow(i) \/ SampleRow(i)
  PROVE  RefreshInv'
<1>1. phase # "ready" /\ UNCHANGED readings
  BY DEF Launch, Quit, WritePidfile, AddRow, RetireRow, SampleRow, Change
<1>2. UNCHANGED <<phase, listed, scanned, pidfiles, shown, found>>
  BY <1>1 DEF readings
<1>3. rows' \in Seq(AgentRowShown)
  <2>1. CASE rows' = rows
    BY <2>1 DEF RefreshInv, DashboardTypeOK
  <2>2. CASE rows' # rows
    BY <2>2, RowsTyped DEF RefreshInv, DashboardTypeOK, Launch, Quit, WritePidfile
  <2> QED BY <2>1, <2>2
<1>4. /\ running' \in [ProcIds -> Images \cup {Gone}]
      /\ steady' \subseteq steady
      /\ \A p \in steady' : running'[p] = running[p]
  BY DEF RefreshInv, DashboardTypeOK, Launch, Quit, WritePidfile, AddRow, RetireRow, SampleRow
<1>5. DashboardTypeOK'
  BY <1>2, <1>3, <1>4 DEF RefreshInv, DashboardTypeOK, Pids_of
<1> QED BY <1>1, <1>2, <1>4, <1>5 DEF RefreshInv

LEMMA ReadingKeeps ==
  ASSUME RefreshInv, List \/ Scan
  PROVE  RefreshInv'
<1>1. UNCHANGED <<running, rows, service, shown, found>> /\ phase' \in {"listed", "scanned"}
      /\ shown = {} /\ found = {}
  BY DEF RefreshInv, List, Scan, world
<1>2. CASE List
  BY <1>1, <1>2 DEF RefreshInv, DashboardTypeOK, Pids_of, List
<1>3. CASE Scan
  BY <1>1, <1>3 DEF RefreshInv, DashboardTypeOK, Pids_of, Scan
<1> QED BY <1>2, <1>3

LEMMA PrepareKeeps ==
  ASSUME RefreshInv, Prepare
  PROVE  RefreshInv'
<1> DEFINE taken == {listed[i].pid : i \in visible_rows}
           n == Len(all_adapters)
<1>1. /\ UNCHANGED <<running, rows, service, listed, scanned, steady>>
      /\ phase' = "ready" /\ pidfiles' = service /\ phase = "scanned"
      /\ shown' = visible_rows /\ found' = discovered(taken)
      /\ listed \in Seq(AgentRowShown)
  BY DEF RefreshInv, DashboardTypeOK, Prepare, world
<1>2. Reached(taken, found', n)
  BY <1>1, AllReached
<1>3. visible_rows' = visible_rows /\ \A p \in ProcIds : candidate(p)' <=> candidate(p)
  BY <1>1 DEF visible_rows, candidate
<1>4. ShownPids' = taken
  BY <1>1 DEF ShownPids
<1>5. \A l \in found' : l.pid \in ProcIds \ taken
  BY <1>2 DEF Reached
<1>6. \A l, m \in found' : l.pid = m.pid => l = m
  BY <1>2 DEF Reached
<1>7. ASSUME NEW p \in ProcIds, candidate(p), Agent(scanned[p])
      PROVE  p \in taken \cup Pids_of(found')
  <2>1. PICK kind \in Words(all_adapters) : detect(kind, scanned[p])
    BY <1>7 DEF Agent
  <2>2. PICK j \in 1 .. n : all_adapters[j] = kind
    BY AdaptersWords
  <2> HIDE DEF n, taken
  <2> QED BY <1>2, <1>7, <2>1, <2>2 DEF Reached
<1>8. ASSUME NEW l \in found'
      PROVE  /\ l.usage.last = Max({0} \cup {listed[i].last : i \in OfKind(l.kind)})
             /\ l.usage.seen = SeenIn(listed, l.kind)
  <2>1. PICK kind \in Words(all_adapters) : l = Line(kind, l.pid)
    BY <1>2 DEF Reached
  <2>2. l.kind = kind /\ l.usage = latest_usage_by_kind(kind)
    BY <2>1 DEF Line
  <2> QED BY <1>1, <2>2, UsageOfRows
<1>9. \A kind : OfKind(kind)' = OfKind(kind)
  BY <1>1 DEF OfKind
<1> HIDE DEF taken, n
<1>10. ScreenInv'
  <2>1. \A p \in ProcIds :
          candidate(p)' /\ Agent(scanned'[p]) => p \in ShownPids' \cup Pids_of(found')
    BY <1>1, <1>3, <1>4, <1>7
  <2>2. \A l \in found' :
          /\ l.usage.last = Max({0} \cup {listed'[i].last : i \in OfKind(l.kind)'})
          /\ l.usage.seen = SeenIn(listed', l.kind)
    BY <1>1, <1>8, <1>9
  <2>3. pidfiles' = service' /\ shown' = visible_rows'
    BY <1>1, <1>3
  <2>4. \A l \in found' : l.pid \in ProcIds \ ShownPids'
    BY <1>4, <1>5
  <2> QED BY <1>6, <2>1, <2>2, <2>3, <2>4 DEF ScreenInv
<1>11. DashboardTypeOK'
  BY <1>1, <1>5 DEF RefreshInv, DashboardTypeOK, Pids_of, visible_rows
<1> QED BY <1>1, <1>10, <1>11 DEF RefreshInv

LEMMA RefreshInvariant == DashboardSpec => []RefreshInv
<1>1. RefreshInv /\ [DashboardNext]_dashboardVars => RefreshInv'
  <2> SUFFICES ASSUME RefreshInv, [DashboardNext]_dashboardVars
               PROVE  RefreshInv'
    OBVIOUS
  <2>1. CASE UNCHANGED dashboardVars
    <3>1. UNCHANGED <<running, rows, service, phase, listed, scanned, pidfiles, shown, found,
                      steady>>
      BY <2>1 DEF dashboardVars, world, readings
    <3>2. DashboardTypeOK'
      BY <3>1 DEF RefreshInv, DashboardTypeOK, Pids_of
    <3>3. ScreenInv => ScreenInv'
      BY <3>1 DEF ScreenInv, ShownPids, visible_rows, candidate, Pids_of, OfKind
    <3> QED BY <3>1, <3>2, <3>3 DEF RefreshInv
  <2> QED BY <2>1, AroundKeeps, ReadingKeeps, PrepareKeeps DEF DashboardNext
<1> QED BY <1>1, RefreshInit, PTL DEF DashboardSpec

\* For any processes, rows and pidfiles, whatever starts and ends during a refresh:
\* an agent that was there throughout is on the screen, once (visible_pids).
THEOREM AgentsShown == DashboardSpec => []AgentsAreShown
<1>1. RefreshInv => AgentsAreShown
  <2> SUFFICES ASSUME RefreshInv, phase = "ready" PROVE AgentsAreShown
    BY DEF RefreshInv, AgentsAreShown
  <2>1. ScreenInv /\ \A p \in steady : scanned[p] = running[p] /\ running[p] # Gone /\ p \in ProcIds
    BY DEF RefreshInv, DashboardTypeOK
  <2>2. ASSUME NEW p \in steady, Agent(running[p]), p \notin pidfiles,
               ~is_internal_handoff_cmd(running[p])
        PROVE  p \in ShownPids \cup Pids_of(found)
    BY <2>1, <2>2 DEF ScreenInv, candidate
  <2>3. \A i \in shown : listed[i].pid \notin Pids_of(found)
    BY <2>1 DEF ScreenInv, ShownPids, Pids_of
  <2> QED BY <2>1, <2>2, <2>3 DEF ScreenInv, ShownPids, AgentsAreShown
<1> QED BY <1>1, RefreshInvariant, PTL

\* For any number of rows and samples: an agent without a row has the newest sample
\* of its kind and all the requests of it (latest_usage_by_kind, apply_kind_usage).
THEOREM UsageNewest == DashboardSpec => []UsageIsNewest
<1>1. RefreshInv => UsageIsNewest
  <2> SUFFICES ASSUME RefreshInv, NEW l \in found
               PROVE  LET of_kind == {i \in DOMAIN listed : listed[i].kind = l.kind} IN
                      /\ l.usage.last = Max({0} \cup {listed[i].last : i \in of_kind})
                      /\ l.usage.seen = FoldSet(LAMBDA i, sum : sum + listed[i].seen, 0, of_kind)
    BY Zenon DEF UsageIsNewest
  <2>1. /\ l.usage.last = Max({0} \cup {listed[i].last : i \in OfKind(l.kind)})
        /\ l.usage.seen = SeenIn(listed, l.kind)
    BY DEF RefreshInv, ScreenInv
  <2> QED BY <2>1, Zenon DEF OfKind, SeenIn
<1> QED BY <1>1, RefreshInvariant, PTL

\* And what it has read and found is of this machine.
THEOREM DashboardTypes == DashboardSpec => []DashboardTypeOK
BY RefreshInvariant, PTL DEF RefreshInv
------------------------------------------------------------------------------
(* The parts together *)

\* A behaviour of the six parts in one instance is one of each of them, so that
\* what is proved of a part holds there.
THEOREM PartsOfHome ==
  FairHomeSpec =>
    BrainSpec /\ ProxySpec /\ DashboardSpec /\ SnapshotSpec /\ CaSpec /\ WorktreeSpec
<1>1. HomeInit =>
        BrainInit /\ ProxyInit /\ DashboardInit /\ SnapshotInit /\ CaInit /\ WorktreeInit
  BY DEF HomeInit
<1>2. [HomeNext]_homeVars =>
        /\ [BrainNext]_allVars
        /\ [ProxyNext]_proxyVars
        /\ [DashboardNext]_dashboardVars
        /\ [SnapshotNext]_snapshotVars
        /\ [CaNext]_caVars
        /\ [WorktreeNext]_treeVars
  BY DEF HomeNext, homeVars
<1>3. QED
  BY <1>1, <1>2, PTL
     DEF FairHomeSpec, BrainSpec, ProxySpec, DashboardSpec, SnapshotSpec, CaSpec, WorktreeSpec

\* The state of each is of its type, for all constants: the file of the memory is
\* made of calls, the proxy serves with a complete pair, and only a handoff's
\* path is recorded.
THEOREM HomeTypes == FairHomeSpec => []HomeTypeOK
<1>1. /\ BrainTypeOK /\ ProxyTypeOK /\ DashboardTypeOK
      /\ SnapshotTypeOK /\ CaTypeOK /\ WorktreeTypeOK
      => HomeTypeOK
  BY DEF HomeTypeOK
<1>2. QED
  BY <1>1, PartsOfHome, BrainTypes, ProxyTypes, DashboardTypes, SnapshotTypes, CaTypesAll,
     TreeTypes, PTL
=============================================================================
