------------------------------- MODULE Brain -------------------------------
(***************************************************************************)
(* The shared memory of a project, .handoff/brain.md, and those who write  *)
(* it: `handoff brain append` through the daemon's /brain/append or, when  *)
(* that fails, directly; /brain/edit; and the user's editor.               *)
(*                                                                         *)
(* writeln! makes three write calls, a newline, the text and a newline.    *)
(* Each goes to the end of the file (O_APPEND).  The daemon holds a lock   *)
(* around them; nothing else does.  Whether the daemon is there is the     *)
(* subject of module Services: it may be stopped, or crash, between any    *)
(* two calls.                                                              *)
(***************************************************************************)
EXTENDS Services

CONSTANTS
  Writers,     \* shells that run `handoff brain append`
  Editors,     \* users with the file open in an editor, or clients of /brain/edit
  MaxAppends, MaxSaves,     \* bounds
  MaxFailures               \* bound on write errors, 404s and interrupts

Nobody == "nobody"

ASSUME BrainAssumption ==
  /\ Nobody \notin Writers
  /\ {MaxAppends, MaxSaves, MaxFailures} \subseteq Nat

VARIABLES
  brain,       \* the file: the calls whose data it holds, in order
  lock,        \* brain_lock: the writer whose request holds it, or Nobody
  wpc,         \* per writer, where its command is
  request,     \* per writer, where its request to the daemon is
  text,        \* per writer, the number of the text it appends
  written,     \* per writer, the calls made for that text, by either way
  opened,      \* per editor, the contents it has loaded, or NotOpen
  appends, saves, failures, \* so far (bounded)
  reported,    \* history: texts whose command has reported success
  overwritten, \* history: texts of which a save has removed something
  disturbed    \* history: texts whose request failed or lost its daemon

writerVars == <<lock, wpc, request, text, written>>
bounds == <<appends, saves, failures>>
history == <<reported, overwritten, disturbed>>
brainVars == <<brain, writerVars, opened, bounds, history>>
allVars == <<serviceVars, brainVars>>

NotOpen == <<[text |-> 0, part |-> 0, by |-> NoPid]>>

\* One write call: whose text, which of the three, and the daemon that made it.
Fragment == [text : 1 .. MaxAppends, part : 1 .. 3, by : Pids \cup {NoPid}]

BrainInit ==
  /\ ServicesInit
  /\ brain = <<>>
  /\ lock = Nobody
  /\ wpc = [w \in Writers |-> "idle"]
  /\ request = [w \in Writers |-> "none"]
  /\ text = [w \in Writers |-> 0]
  /\ written = [w \in Writers |-> 0]
  /\ opened = [e \in Editors |-> NotOpen]
  /\ appends = 0
  /\ saves = 0
  /\ failures = 0
  /\ reported = {}
  /\ overwritten = {}
  /\ disturbed = {}

\* Something fails, or the user interrupts.
OneFailure == failures < MaxFailures /\ failures' = failures + 1

------------------------------------------------------------------------------
(* cmd_brain_append *)

\* The request reaches the daemon, is refused, or is answered with 404: when
\* HANDOFF_DAEMON_URL ends in /rpc, as rpc_call wants it, it is sent to
\* /rpc/brain/append.
Ask(w) ==
  /\ wpc[w] = "idle"
  /\ request[w] = "none"
  /\ appends < MaxAppends
  /\ appends' = appends + 1
  /\ text' = [text EXCEPT ![w] = appends + 1]
  /\ written' = [written EXCEPT ![w] = 0]
  /\ wpc' = [wpc EXCEPT ![w] = "asking"]
  /\ \/ /\ port # NoPid
        /\ request' = [request EXCEPT ![w] = "waiting"]
        /\ UNCHANGED failures
     \/ /\ IF port = NoPid THEN UNCHANGED failures ELSE OneFailure
        /\ request' = [request EXCEPT ![w] = "error"]
  /\ UNCHANGED <<serviceVars, brain, lock, opened, saves, history>>

Finish(w) == wpc' = [wpc EXCEPT ![w] = "idle"]

Answered(w) ==
  /\ wpc[w] = "asking"
  /\ request[w] = "ok"
  /\ Finish(w)
  /\ request' = [request EXCEPT ![w] = "none"]
  /\ reported' = reported \cup {text[w]}
  /\ UNCHANGED <<serviceVars, brain, lock, text, written, opened, bounds,
                 overwritten, disturbed>>

\* Seeded fault: a request that takes its time is given up, not withdrawn.
FallBack_impatient(w) ==
  /\ wpc[w] = "asking"
  /\ request[w] # "ok"
  /\ wpc' = [wpc EXCEPT ![w] = "direct"]
  /\ written' = [written EXCEPT ![w] = 0]
  /\ UNCHANGED <<serviceVars, brain, lock, request, text, opened, bounds,
                 history>>

\* Any other outcome: the command writes the file itself.
FallBack(w) ==
  /\ wpc[w] = "asking"
  /\ request[w] = "error"
  /\ wpc' = [wpc EXCEPT ![w] = "direct"]
  /\ request' = [request EXCEPT ![w] = "none"]
  /\ written' = [written EXCEPT ![w] = 0]
  /\ UNCHANGED <<serviceVars, brain, lock, text, opened, bounds, history>>

\* The next write call for the text of w goes to the end of the file.
NextCall(w, by) ==
  /\ brain' = Append(brain, [text |-> text[w], part |-> written[w] + 1, by |-> by])
  /\ written' = [written EXCEPT ![w] = @ + 1]

DirectWrite(w) ==
  /\ wpc[w] = "direct"
  /\ \/ /\ NextCall(w, NoPid)
        /\ IF written[w] = 2
           THEN Finish(w) /\ reported' = reported \cup {text[w]}
           ELSE UNCHANGED <<wpc, reported>>
        /\ UNCHANGED failures
     \/ /\ OneFailure
        /\ Finish(w)
        /\ UNCHANGED <<brain, written, reported>>
  /\ UNCHANGED <<serviceVars, lock, request, text, opened, appends, saves,
                 overwritten, disturbed>>

\* The user interrupts the command.  Its handler is dropped if it waits for
\* the lock; once it writes it does not wait any more.
Interrupt(w) ==
  /\ wpc[w] # "idle"
  /\ OneFailure
  /\ Finish(w)
  /\ request' = [request EXCEPT ![w] = IF @ = "writing" THEN @ ELSE "none"]
  /\ UNCHANGED <<serviceVars, brain, lock, text, written, opened, appends, saves,
                 history>>

------------------------------------------------------------------------------
(* brain_append in the daemon *)

\* Seeded fault: the lock is not taken.
lock_free_always == TRUE

lock_free == lock = Nobody

TakeLock(w) ==
  /\ request[w] = "waiting"
  /\ lock_free
  /\ lock' = w
  /\ request' = [request EXCEPT ![w] = "writing"]
  /\ UNCHANGED <<serviceVars, brain, wpc, text, written, opened, bounds,
                 history>>

\* Seeded fault: the lock is kept when a write fails.
Respond_keeping(w, answer) ==
  /\ lock' = IF answer = "ok" THEN Nobody ELSE lock
  /\ request' = [request EXCEPT ![w] = IF wpc[w] = "asking" THEN answer ELSE "none"]

\* The response, if the client is still there.
Respond(w, answer) ==
  /\ lock' = Nobody
  /\ request' = [request EXCEPT ![w] = IF wpc[w] = "asking" THEN answer ELSE "none"]

\* Seeded fault: success is answered whatever the writes have returned.
WriteError_ignored(w) ==
  /\ request[w] = "writing"
  /\ OneFailure
  /\ Respond(w, "ok")
  /\ UNCHANGED <<brain, written, disturbed>>

\* The file cannot be opened, or a write call fails.
WriteError(w) ==
  /\ request[w] = "writing"
  /\ OneFailure
  /\ Respond(w, "error")
  /\ disturbed' = disturbed \cup {text[w]}
  /\ UNCHANGED <<brain, written>>

DaemonWrite(w) ==
  /\ request[w] = "writing"
  /\ \/ /\ NextCall(w, port)
        /\ IF written[w] = 2 THEN Respond(w, "ok") ELSE UNCHANGED <<lock, request>>
        /\ UNCHANGED <<disturbed, failures>>
     \/ WriteError(w)
  /\ UNCHANGED <<serviceVars, wpc, text, opened, appends, saves, reported,
                 overwritten>>

------------------------------------------------------------------------------
(* Editors *)

Open(e) ==
  /\ opened[e] = NotOpen
  /\ saves < MaxSaves
  /\ saves' = saves + 1
  /\ opened' = [opened EXCEPT ![e] = brain]
  /\ UNCHANGED <<serviceVars, brain, writerVars, appends, failures, history>>

Contents(b) == {b[i] : i \in DOMAIN b}

\* The file is b from now on: what it held beyond that is gone.
Replace(e, b) ==
  /\ opened[e] # NotOpen
  /\ brain' = b
  /\ opened' = [opened EXCEPT ![e] = NotOpen]
  /\ overwritten' = overwritten \cup {f.text : f \in Contents(brain) \ Contents(b)}
  /\ UNCHANGED <<serviceVars, writerVars, appends, saves, reported, disturbed>>

\* $EDITOR takes no notice of the lock.
Save(e) == Replace(e, opened[e]) /\ UNCHANGED failures

\* POST /brain/edit, under the lock.  fs::write empties the file and then fills
\* it; if the second fails, an empty file is left.
EditRequest(e) ==
  /\ port # NoPid
  /\ lock_free
  /\ \/ Replace(e, opened[e]) /\ UNCHANGED failures
     \/ Replace(e, <<>>) /\ OneFailure

------------------------------------------------------------------------------
(* Composition with the lifecycle of the daemon *)

\* The requests of a daemon that has gone are lost: the client sees its
\* connection closed.
InDaemon(w) == request[w] \in {"waiting", "writing"}

LoseRequests ==
  /\ lock' = Nobody
  /\ request' = [w \in Writers |->
                   IF ~InDaemon(w) THEN request[w]
                   ELSE IF wpc[w] = "asking" THEN "error" ELSE "none"]
  /\ disturbed' = disturbed \cup {text[w] : w \in {v \in Writers : InDaemon(v)}}
  /\ UNCHANGED <<brain, wpc, text, written, opened, bounds, reported, overwritten>>

Lifecycle ==
  /\ ServicesNext
  /\ IF port # NoPid /\ port' # port THEN LoseRequests ELSE UNCHANGED brainVars

AppendStep(w) == Answered(w) \/ FallBack(w) \/ DirectWrite(w)

DaemonStep(w) == TakeLock(w) \/ DaemonWrite(w)

BrainNext ==
  \/ Lifecycle
  \/ \E w \in Writers : Ask(w) \/ AppendStep(w) \/ DaemonStep(w) \/ Interrupt(w)
  \/ \E e \in Editors : Open(e) \/ Save(e) \/ EditRequest(e)

BrainSpec == BrainInit /\ [][BrainNext]_allVars

\* The daemon's handlers and the commands go on while they can.
FairBrainSpec ==
  /\ BrainSpec
  /\ \A w \in Writers : WF_allVars(AppendStep(w)) /\ WF_allVars(DaemonStep(w))

------------------------------------------------------------------------------
(* Properties *)

BrainTypeOK ==
  /\ ServicesTypeOK
  /\ brain \in Seq(Fragment)
  /\ lock \in Writers \cup {Nobody}
  /\ \A w \in Writers : request[w] = "writing" <=> lock = w
  /\ wpc \in [Writers -> {"idle", "asking", "direct"}]
  /\ written \in [Writers -> 0 .. 3]
  /\ \A w \in Writers : InDaemon(w) => port # NoPid
  /\ reported \cup overwritten \cup disturbed \subseteq 1 .. appends

\* Two requests to the same daemon do not mix their lines, whoever else writes
\* and whatever an editor saves meanwhile (brain_lock is held over writeln!).
DaemonEntriesDoNotMix ==
  \A i, j, k \in DOMAIN brain :
    /\ i < j /\ j < k
    /\ brain[i].by # NoPid
    /\ brain[i].by = brain[j].by /\ brain[j].by = brain[k].by
    /\ brain[i].text = brain[k].text
    => brain[j].text = brain[i].text

Whole(t, b) ==
  \E i, j, k \in DOMAIN b :
    /\ i < j /\ j < k
    /\ b[i].by = b[j].by /\ b[j].by = b[k].by
    /\ \A x \in {i, j, k} : b[x].text = t
    /\ b[i].part = 1 /\ b[j].part = 2 /\ b[k].part = 3

\* A text whose command has reported success is in the file, all of it, unless
\* an editor that did not have it has saved: although the daemon may stop, crash
\* or fail in the middle of it and the command then starts again by itself.
ReportedIsKept == \A t \in reported \ overwritten : Whole(t, brain)

\* The texts that are there, all of them.
Entries(b) == {t \in {f.text : f \in Contents(b)} : Whole(t, b)}

Memory == INSTANCE SharedMemory WITH
  kept <- Entries(brain),
  loaded <- [e \in Editors |-> Entries(opened[e])],
  told <- reported,
  spoilt <- overwritten

\* For those who read and append, the file is a set of texts that each gets
\* into at a stroke, and only an editor's save takes out, although three calls
\* make a text and the daemon, the commands and the editors make them at once.
ImplementsMemory == Memory!Spec

\* A text is written twice only if the daemon failed or went away with it (the
\* command falls back when a request has ended, not while it is in progress).
WrittenOnce ==
  \A i, j \in DOMAIN brain :
    /\ brain[i].text = brain[j].text
    /\ brain[i].part = brain[j].part
    /\ brain[i].text \notin disturbed
    => i = j

\* Every append command comes to its end, whatever becomes of the daemon and
\* of the requests before it in the queue for the lock.
AppendsEnd == \A w \in Writers : wpc[w] # "idle" ~> wpc[w] = "idle"
=============================================================================
