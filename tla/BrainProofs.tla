----------------------------- MODULE BrainProofs -----------------------------
(***************************************************************************)
(* Theorems about the services (Services) and the project's memory that    *)
(* one of them keeps (Brain), for any number of shells, commands, crashes, *)
(* reused pids, writers, texts and editors.                                *)
(***************************************************************************)
EXTENDS Brain, TLAPS

------------------------------------------------------------------------------
(* Start and stop of a service *)

ProcTypes ==
  /\ proc \in [Pids -> ProcState]
  /\ doing \in [Operators -> DoingState]
  /\ target \in [Operators -> Pids \cup {NoPid}]

\* The command that is under way is alone.
AloneInv ==
  \A o, x \in Operators : Busy(o) /\ Busy(x) => o = x

\* Where it is, it knows of the service that runs; without one the pidfile does.
KnownInv ==
  /\ \A o \in Operators :
       /\ doing[o] = "spawn" => \A p \in Pids : proc[p] # "running"
       /\ doing[o] \in {"truncate", "write"} =>
            /\ target[o] \in Pids
            /\ \A p \in Pids : proc[p] = "running" => p = target[o]
       /\ doing[o] \in {"kill", "remove"} => target[o] \in Pids /\ pidfile = target[o]
       /\ doing[o] = "remove" => proc[target[o]] # "running"
  /\ \A p \in Pids :
       proc[p] = "running" =>
         pidfile = p \/ \E o \in Operators : doing[o] \in {"truncate", "write"}

NameInv == ProcTypes /\ (~excused => AloneInv /\ KnownInv)

LEMMA NameInit == ServicesInit => NameInv
<1> SUFFICES ASSUME ServicesInit PROVE NameInv
  OBVIOUS
<1>1. ProcTypes
  BY DEF ServicesInit, ProcTypes, ProcState, DoingState
<1>2. AloneInv
  BY DEF ServicesInit, AloneInv, Busy
<1>3. KnownInv
  BY DEF ServicesInit, KnownInv
<1> QED BY <1>1, <1>2, <1>3 DEF NameInv

\* A process that ends, or a pid that is given to a stranger.
LEMMA FewerRunKeeps ==
  ASSUME NameInv,
         UNCHANGED <<pidfile, doing, target, excused>>,
         proc' \in [Pids -> ProcState],
         \A p \in Pids : proc'[p] = "running" => proc[p] = "running"
  PROVE  NameInv'
<1>1. ProcTypes' /\ (~excused => AloneInv')
  BY DEF NameInv, ProcTypes, AloneInv, Busy
<1>2. ~excused => KnownInv'
  BY DEF NameInv, KnownInv
<1> QED BY <1>1, <1>2 DEF NameInv

LEMMA ProcessKeeps ==
  ASSUME NameInv, NEW p \in Pids,
         Bind(p) \/ BindFails(p) \/ Terminates(p) \/ Crashes(p) \/ Reused(p) \/ StrangerEnds(p)
  PROVE  NameInv'
<1>1. UNCHANGED <<pidfile, doing, target, excused>>
  BY DEF Bind, BindFails, Terminates, Crashes, Reused, StrangerEnds, Ended
<1>2. /\ proc' \in [Pids -> ProcState]
      /\ \A q \in Pids : proc'[q] = "running" => proc[q] = "running"
  BY DEF NameInv, ProcTypes, ProcState, Bind, BindFails, Terminates, Crashes, Reused,
    StrangerEnds, Ended
<1> QED BY <1>1, <1>2, FewerRunKeeps

\* A command that begins is alone, or excused.
LEMMA BeginKeeps ==
  ASSUME NameInv, NEW o \in Operators, Start(o) \/ Stop(o)
  PROVE  NameInv'
<1>1. UNCHANGED proc /\ doing[o] = "idle"
  BY DEF Start, Stop, Begin
<1>2. ProcTypes'
  BY DEF NameInv, ProcTypes, Start, Stop, DoingState
<1>3. ASSUME ~excused'
      PROVE  AloneInv' /\ KnownInv'
  <2>1. /\ ~excused /\ \A x \in Operators : ~Busy(x)
    BY <1>3 DEF Start, Stop, Begin
  <2>2. \A x \in Operators : doing[x] \in {"idle", "dashboard"}
    BY <2>1 DEF Busy
  <2>3. \A p \in Pids : proc[p] = "running" => pidfile = p
    BY <2>1, <2>2 DEF NameInv, KnownInv
  <2>4. \A x \in Operators \ {o} : doing'[x] = doing[x]
    BY DEF NameInv, ProcTypes, Start, Stop
  <2>5. AloneInv'
    BY <2>2, <2>4 DEF AloneInv, Busy
  <2>6. CASE Start(o)
    <3>1. /\ UNCHANGED <<pidfile, target>>
          /\ doing'[o] = IF pid_alive(pidfile) THEN "idle" ELSE "spawn"
      BY <2>6 DEF Start, NameInv, ProcTypes
    <3>2. doing'[o] = "spawn" => \A p \in Pids : proc[p] # "running"
      BY <2>3, <3>1 DEF pid_alive, may_signal
    <3> QED BY <1>1, <2>2, <2>3, <2>4, <2>5, <3>1, <3>2 DEF KnownInv
  <2>7. CASE Stop(o)
    <3>1. CASE pidfile \in Pids
      <4>1. /\ UNCHANGED pidfile /\ target'[o] = pidfile /\ doing'[o] = "kill"
        BY <2>7, <3>1 DEF Stop, NameInv, ProcTypes
      <4> QED BY <1>1, <2>2, <2>3, <2>4, <2>5, <3>1, <4>1 DEF KnownInv
    <3>2. CASE pidfile \notin Pids
      <4>1. doing' = doing
        BY <2>7, <3>2 DEF Stop
      <4> QED BY <1>1, <2>2, <2>3, <2>5, <3>2, <4>1 DEF KnownInv
    <3> QED BY <3>1, <3>2
  <2> QED BY <2>6, <2>7
<1> QED BY <1>2, <1>3 DEF NameInv

\* One that goes on finds what it left, as nobody else is under way.
LEMMA CommandKeeps ==
  ASSUME NameInv, NEW o \in Operators,
         CommandStep(o) \/ WriteFails(o) \/ LeaveDashboard(o)
  PROVE  NameInv'
<1>1. ProcTypes'
  BY DEF NameInv, ProcTypes, ProcState, DoingState, CommandStep, WriteFails, LeaveDashboard, Spawn,
    Truncate, WritePid, Kill, may_signal, RemovePidfile, Continue, reaped
<1>2. ASSUME ~excused'
      PROVE  AloneInv' /\ KnownInv'
  <2>1. ~excused /\ ~WriteFails(o)
    BY <1>2 DEF CommandStep, WriteFails, LeaveDashboard, Spawn, Truncate, WritePid, Kill,
      RemovePidfile
  <2>2. AloneInv /\ KnownInv /\ ProcTypes
    BY <2>1 DEF NameInv
  <2>3. \A x \in Operators \ {o} : doing'[x] = doing[x]
    BY <2>2 DEF ProcTypes, CommandStep, WriteFails, LeaveDashboard, Spawn, Truncate,
      WritePid, Kill, RemovePidfile, Continue
  <2>4. Busy(o)' => Busy(o)
    BY <2>1, <2>2 DEF ProcTypes, Busy, CommandStep, LeaveDashboard, Spawn, Truncate, WritePid,
      Kill, RemovePidfile, Continue
  <2>5. AloneInv'
    BY <2>2, <2>3, <2>4 DEF AloneInv, Busy
  <2>6. Busy(o) => \A x \in Operators \ {o} : doing[x] \in {"idle", "dashboard"}
    BY <2>2 DEF AloneInv, Busy
  <2>7. CASE LeaveDashboard(o)
    <3>1. doing[o] = "dashboard" /\ doing'[o] = "idle" /\ UNCHANGED <<pidfile, target>>
      BY <2>2, <2>7 DEF LeaveDashboard, Continue, ProcTypes
    <3>2. \A p \in Pids : proc'[p] = "running" => proc[p] = "running"
      BY <2>2, <2>7 DEF LeaveDashboard, reaped, ProcTypes
    <3> QED BY <2>2, <2>3, <2>5, <3>1, <3>2 DEF KnownInv
  <2>8. CASE Spawn(o)
    <3>1. PICK p \in Pids : /\ proc' = [proc EXCEPT ![p] = "running"]
                            /\ target' = [target EXCEPT ![o] = p]
      BY <2>8 DEF Spawn
    <3>2. doing[o] = "spawn" /\ doing'[o] = "truncate" /\ target'[o] = p
      BY <2>2, <2>8, <3>1 DEF Spawn, Continue, ProcTypes
    <3>3. \A q \in Pids : proc'[q] = "running" => q = p
      BY <2>2, <3>1, <3>2 DEF KnownInv, ProcTypes
    <3> QED BY <2>3, <2>5, <2>6, <3>2, <3>3 DEF KnownInv, Busy
  <2>9. CASE Truncate(o)
    <3>1. doing[o] = "truncate" /\ doing'[o] = "write" /\ UNCHANGED <<proc, target>>
      BY <2>2, <2>9 DEF Truncate, Continue, ProcTypes
    <3> QED BY <2>2, <2>3, <2>5, <2>6, <3>1 DEF KnownInv, Busy
  <2>10. CASE WritePid(o)
    <3>1. /\ doing[o] = "write" /\ doing'[o] \in {"idle", "dashboard"}
          /\ pidfile' = target[o] /\ target' = target
          /\ \A p \in Pids : proc'[p] = "running" => proc[p] = "running"
      BY <2>2, <2>10 DEF WritePid, Continue, ProcTypes, reaped
    <3> QED BY <2>2, <2>3, <2>5, <2>6, <3>1 DEF KnownInv, Busy
  <2>11. CASE Kill(o)
    <3>1. /\ doing[o] = "kill" /\ doing'[o] = "remove" /\ UNCHANGED <<pidfile, target>>
          /\ target[o] \in Pids
          /\ proc'[target[o]] # "running"
          /\ \A p \in Pids : proc'[p] = "running" => proc[p] = "running"
      BY <2>2, <2>11 DEF Kill, may_signal, Continue, ProcTypes, KnownInv
    <3> QED BY <2>2, <2>3, <2>5, <2>6, <3>1 DEF KnownInv, Busy
  <2>12. CASE RemovePidfile(o)
    <3>1. doing[o] = "remove" /\ doing'[o] = "idle" /\ UNCHANGED <<proc, target>>
      BY <2>2, <2>12 DEF RemovePidfile, Continue, ProcTypes
    <3>2. \A p \in Pids : proc[p] # "running"
      BY <2>2, <2>6, <3>1 DEF KnownInv, Busy
    <3> QED BY <2>2, <2>3, <2>5, <2>6, <3>1, <3>2 DEF KnownInv, Busy
  <2> QED BY <2>1, <2>7, <2>8, <2>9, <2>10, <2>11, <2>12 DEF CommandStep
<1> QED BY <1>1, <1>2 DEF NameInv

LEMMA NameKept ==
  ASSUME NameInv, [ServicesNext]_serviceVars
  PROVE  NameInv'
<1>1. CASE UNCHANGED serviceVars
  BY <1>1, FewerRunKeeps DEF serviceVars, NameInv, ProcTypes
<1> QED BY <1>1, BeginKeeps, CommandKeeps, ProcessKeeps DEF ServicesNext

LEMMA NameInvariant == ServicesSpec => []NameInv
BY NameInit, NameKept, PTL DEF ServicesSpec

\* For any number of shells, commands, crashes, and pids reused by processes of
\* this user or of another, whom a start takes for dead, the service that runs
\* is the one the pidfile names, unless commands overlapped or the file could
\* not be written (cmd_daemon_start, cmd_proxy_start, stop_pidfile).
THEOREM RunsUnderItsName == ServicesSpec => []RunningIsNamed
<1>1. NameInv => RunningIsNamed
  BY DEF NameInv, KnownInv, RunningIsNamed, Settled, Busy
<1> QED BY <1>1, NameInvariant, PTL

\* Types: a port that is held is held by a process that has not ended, and a
\* command past its start knows a pid.
LEMMA ServicesTypesKept ==
  ASSUME ServicesTypeOK, [ServicesNext]_serviceVars
  PROVE  ServicesTypeOK'
<1> USE DEF ServicesTypeOK, ProcState, DoingState
<1>1. ASSUME NEW p \in Pids, Ended(p)
      PROVE  ServicesTypeOK'
  BY <1>1, ServicesAssumption DEF Ended
<1>2. ASSUME NEW p \in Pids, Bind(p) \/ Reused(p) \/ StrangerEnds(p)
      PROVE  ServicesTypeOK'
  BY <1>2, ServicesAssumption DEF Bind, Reused, StrangerEnds
<1>3. ASSUME NEW o \in Operators, Start(o) \/ Stop(o)
      PROVE  ServicesTypeOK'
  BY <1>3, ServicesAssumption DEF Start, Stop, Begin
<1>4. ASSUME NEW o \in Operators, Spawn(o)
      PROVE  ServicesTypeOK'
  BY <1>4, ServicesAssumption DEF Spawn, Continue
<1>5. ASSUME NEW o \in Operators, Truncate(o) \/ RemovePidfile(o)
      PROVE  ServicesTypeOK'
  BY <1>5, ServicesAssumption DEF Truncate, RemovePidfile, Continue
<1>6. ASSUME NEW o \in Operators, WritePid(o) \/ WriteFails(o) \/ LeaveDashboard(o)
      PROVE  ServicesTypeOK'
  <2>1. target[o] \in Pids
    BY <1>6 DEF WritePid, WriteFails, LeaveDashboard
  <2>2. QED
    BY <1>6, <2>1, ServicesAssumption
       DEF WritePid, WriteFails, LeaveDashboard, Continue, reaped
<1>7. ASSUME NEW o \in Operators, Kill(o)
      PROVE  ServicesTypeOK'
  BY <1>7, ServicesAssumption DEF Kill, may_signal, Continue
<1>8. CASE UNCHANGED serviceVars
  BY <1>8 DEF serviceVars
<1>9. QED
  BY <1>1, <1>2, <1>3, <1>4, <1>5, <1>6, <1>7, <1>8
     DEF ServicesNext, CommandStep, BindFails, Terminates, Crashes

LEMMA ServicesTypes == ServicesSpec => []ServicesTypeOK
<1>1. ServicesInit => ServicesTypeOK
  BY ServicesAssumption DEF ServicesInit, ServicesTypeOK, ProcState, DoingState
<1>2. QED
  BY <1>1, ServicesTypesKept, PTL DEF ServicesSpec

------------------------------------------------------------------------------
(* The memory *)

\* What the file holds, and what the editors have loaded of it.
Copies == {brain} \cup {opened[e] : e \in Editors}

Call == [text : Nat, part : Nat, by : Pids \cup {NoPid}]

\* No call of an undisturbed text is there twice, nor more calls of it than its
\* writer has made.
OnceIn(b) ==
  /\ \A i, j \in DOMAIN b :
       /\ b[i].text = b[j].text /\ b[i].part = b[j].part
       /\ b[i].text \notin disturbed
       => i = j
  /\ \A w \in Writers, i \in DOMAIN b :
       b[i].text = text[w] /\ text[w] \notin disturbed => b[i].part <= written[w]

\* Of one daemon, the calls of a text are next to each other.
ApartIn(b) ==
  \A i, j, k \in DOMAIN b :
    /\ i < j /\ j < k
    /\ b[i].by # NoPid /\ b[i].by = b[j].by /\ b[j].by = b[k].by
    /\ b[i].text = b[k].text
    => b[j].text = b[i].text

\* The request that has the lock has been the last since it began, and one that
\* waits has not begun.
TurnsIn(b) ==
  \A w \in Writers, i \in DOMAIN b :
    b[i].text = text[w] /\ b[i].by # NoPid =>
      /\ request[w] # "waiting"
      /\ request[w] = "writing" =>
           \A j \in DOMAIN b : i < j /\ b[j].by = b[i].by => b[j].text = text[w]

CopyInv(b) ==
  /\ b \in Seq(Call)
  /\ \A i \in DOMAIN b : b[i].text <= appends
  /\ OnceIn(b)
  /\ ApartIn(b)
  /\ TurnsIn(b)

WriterTypes ==
  /\ appends \in Nat
  /\ text \in [Writers -> Nat]
  /\ written \in [Writers -> Nat]
  /\ wpc \in [Writers -> {"idle", "asking", "direct"}]
  /\ request \in [Writers -> {"none", "waiting", "writing", "ok", "error"}]
  /\ port \in Pids \cup {NoPid}
  /\ opened = [e \in Editors |-> opened[e]]

WriterInv ==
  /\ \A w \in Writers : text[w] <= appends
  /\ \A v, w \in Writers : text[v] = text[w] /\ text[w] # 0 => v = w
  /\ \A w \in Writers : InDaemon(w) => port # NoPid /\ text[w] # 0
  /\ \A w \in Writers : request[w] = "writing" => lock = w
  /\ \A w \in Writers : wpc[w] # "idle" => text[w] # 0
  /\ \A w \in Writers : wpc[w] = "direct" => request[w] = "none"
  /\ \A w \in Writers :
       /\ request[w] = "waiting" => written[w] = 0
       /\ request[w] = "error" /\ text[w] \notin disturbed => written[w] = 0

MemoryInv == WriterTypes /\ WriterInv /\ \A b \in Copies : CopyInv(b)

\* Without a file, the editor has no text.
LEMMA NoTextInIt ==
  /\ NotOpen \in Seq(Call) /\ Len(NotOpen) = 1
  /\ NotOpen[1].text = 0 /\ NotOpen[1].part = 0 /\ NotOpen[1].by = NoPid
BY DEF NotOpen, Call

LEMMA MemoryInit == BrainInit => MemoryInv
<1> SUFFICES ASSUME BrainInit PROVE MemoryInv
  OBVIOUS
<1>1. NotOpen \in Seq(Call)
  BY NoTextInIt
<1>2. WriterTypes
  BY <1>1 DEF BrainInit, ServicesInit, WriterTypes
<1>3. WriterInv
  BY DEF BrainInit, WriterInv, InDaemon
<1>4. ASSUME NEW b \in {<<>>, NotOpen}
      PROVE  CopyInv(b)
  <2>1. CASE b = <<>>
    BY <2>1 DEF BrainInit, CopyInv, OnceIn, ApartIn, TurnsIn
  <2>2. CASE b = NotOpen
    BY <2>2, NoTextInIt DEF BrainInit, CopyInv, OnceIn, ApartIn, TurnsIn
  <2> QED BY <1>4, <2>1, <2>2
<1> QED BY <1>2, <1>3, <1>4 DEF BrainInit, MemoryInv, Copies

\* A step that makes no call, begins no request and keeps the count of every
\* text that is undisturbed.
QuietStep ==
  /\ Copies' \subseteq Copies \cup {<<>>, NotOpen}
  /\ UNCHANGED <<text, appends>>
  /\ disturbed \subseteq disturbed'
  /\ \A w \in Writers :
       /\ text[w] \notin disturbed' => written'[w] = written[w]
       /\ request'[w] = "waiting" => request[w] = "waiting"
       /\ request'[w] = "writing" => request[w] \in {"waiting", "writing"}

LEMMA QuietKeeps ==
  ASSUME MemoryInv, QuietStep, WriterTypes'
  PROVE  \A b \in Copies' : CopyInv(b)'
<1> SUFFICES ASSUME NEW b \in Copies' PROVE CopyInv(b)'
  OBVIOUS
<1>1. CASE b = <<>>
  BY <1>1 DEF WriterTypes, CopyInv, OnceIn, ApartIn, TurnsIn
<1>2. CASE b = NotOpen
  BY <1>2, NoTextInIt DEF WriterTypes, CopyInv, OnceIn, ApartIn, TurnsIn
<1>3. CASE b \in Copies
  <2>1. CopyInv(b)
    BY <1>3 DEF MemoryInv
  <2>2. OnceIn(b)'
    BY <2>1 DEF CopyInv, OnceIn, QuietStep
  <2>3. TurnsIn(b)'
    BY <2>1 DEF CopyInv, TurnsIn, QuietStep
  <2> QED BY <2>1, <2>2, <2>3 DEF CopyInv, ApartIn, QuietStep
<1> QED BY <1>1, <1>2, <1>3 DEF QuietStep

\* A new text is in no copy.
LEMMA AskKeepsCopies ==
  ASSUME MemoryInv, NEW w \in Writers, Ask(w)
  PROVE  \A b \in Copies' : CopyInv(b)'
<1> SUFFICES ASSUME NEW b \in Copies PROVE CopyInv(b)'
  BY DEF Ask, Copies
<1>1. /\ CopyInv(b) /\ WriterTypes
      /\ text' = [text EXCEPT ![w] = appends + 1] /\ appends' = appends + 1
      /\ disturbed' = disturbed
      /\ \A v \in Writers \ {w} : written'[v] = written[v] /\ request'[v] = request[v]
  BY DEF MemoryInv, Ask, history, WriterTypes
<1>2. \A i \in DOMAIN b : b[i].text <= appends /\ b[i].text \in Nat
  <2>1. \A i \in DOMAIN b : b[i] \in Call
    BY <1>1 DEF CopyInv
  <2> QED BY <1>1, <2>1 DEF CopyInv, Call
<1>3. \A i \in DOMAIN b : b[i].text # text'[w]
  BY <1>1, <1>2 DEF WriterTypes
<1>4. OnceIn(b)'
  BY <1>1, <1>3 DEF CopyInv, OnceIn, WriterTypes
<1>5. TurnsIn(b)'
  BY <1>1, <1>3 DEF CopyInv, TurnsIn, WriterTypes
<1> QED BY <1>1, <1>2, <1>4, <1>5 DEF CopyInv, ApartIn, WriterTypes

\* Who makes a call goes on with its own text.
LEMMA CallKeepsCopies ==
  ASSUME MemoryInv, NEW w \in Writers, NEW by \in Pids \cup {NoPid}, NextCall(w, by),
         by = NoPid \/ request[w] = "writing", text[w] # 0,
         UNCHANGED <<text, opened, appends, disturbed>>,
         \A v \in Writers : request'[v] = "waiting" => request[v] = "waiting",
         \A v \in Writers : request'[v] = "writing" => request[v] = "writing"
  PROVE  \A b \in Copies' : CopyInv(b)'
<1>1. /\ WriterTypes /\ WriterInv
      /\ written' = [written EXCEPT ![w] = @ + 1]
      /\ brain' = Append(brain, [text |-> text[w], part |-> written[w] + 1, by |-> by])
  BY DEF MemoryInv, NextCall
<1>2. \A e \in Editors : CopyInv(opened[e])'
  <2> SUFFICES ASSUME NEW e \in Editors PROVE CopyInv(opened[e])'
    OBVIOUS
  <2> DEFINE b == opened[e]
  <2>1. CopyInv(b) /\ b' = b
    BY DEF MemoryInv, Copies
  <2>2. \A i \in DOMAIN b : b[i] \in Call
    BY <2>1 DEF CopyInv
  <2>3. \A v \in Writers : written[v] \in Nat /\ written'[v] \in Nat /\ written[v] <= written'[v]
    BY <1>1 DEF WriterTypes
  <2>4. OnceIn(b)'
    <3>1. \A v \in Writers, i \in DOMAIN b :
             b[i].text = text[v] /\ text[v] \notin disturbed => b[i].part <= written'[v]
      <4> SUFFICES ASSUME NEW v \in Writers, NEW i \in DOMAIN b,
                          b[i].text = text[v], text[v] \notin disturbed
                   PROVE  b[i].part <= written'[v]
        OBVIOUS
      <4> HIDE DEF b
      <4>1. b[i].part \in Nat /\ b[i].part <= written[v]
        BY <2>1, <2>2 DEF CopyInv, OnceIn, Call
      <4> QED BY <2>3, <4>1
    <3> HIDE DEF b
    <3> QED BY <2>1, <3>1 DEF CopyInv, OnceIn
  <2> HIDE DEF b
  <2>5. TurnsIn(b)'
    BY <2>1 DEF CopyInv, TurnsIn
  <2>6. CopyInv(b)'
    BY <2>1, <2>4, <2>5 DEF CopyInv, ApartIn
  <2> QED BY <2>6 DEF b
<1>3. CopyInv(brain)'
  <2> DEFINE n == Len(brain) + 1
             c == [text |-> text[w], part |-> written[w] + 1, by |-> by]
  <2>1. CopyInv(brain) /\ c \in Call
    BY <1>1 DEF MemoryInv, Copies, Call, WriterTypes
  <2> HIDE DEF c
  <2>2. /\ brain' \in Seq(Call) /\ DOMAIN brain' = DOMAIN brain \cup {n}
        /\ brain'[n] = c /\ n \notin DOMAIN brain /\ n \in Nat
        /\ \A i \in DOMAIN brain : i < n /\ i \in Nat /\ brain'[i] = brain[i] /\ brain[i] \in Call
    BY <1>1, <2>1 DEF CopyInv, c
  <2> HIDE DEF n
  <2>3. c.text = text[w] /\ c.part = written[w] + 1 /\ c.by = by /\ written[w] \in Nat
    BY <1>1 DEF c, WriterTypes
  <2>4. \A i \in DOMAIN brain' : brain'[i].text <= appends
    BY <1>1, <2>1, <2>2, <2>3 DEF CopyInv, WriterInv
  <2>5. OnceIn(brain)'
    <3>1. \A i \in DOMAIN brain : brain[i].text = text[w] /\ text[w] \notin disturbed =>
             brain[i].part # c.part
      BY <2>1, <2>2, <2>3 DEF CopyInv, OnceIn, Call
    <3>2. \A i, j \in DOMAIN brain' :
            /\ brain'[i].text = brain'[j].text /\ brain'[i].part = brain'[j].part
            /\ brain'[i].text \notin disturbed
            => i = j
      <4> SUFFICES ASSUME NEW i \in DOMAIN brain', NEW j \in DOMAIN brain',
                          brain'[i].text = brain'[j].text, brain'[i].part = brain'[j].part,
                          brain'[i].text \notin disturbed
                   PROVE  i = j
        OBVIOUS
      <4>1. CASE i \in DOMAIN brain /\ j \in DOMAIN brain
        BY <2>1, <2>2, <4>1 DEF CopyInv, OnceIn
      <4>2. CASE i = n \/ j = n
        BY <2>2, <2>3, <3>1, <4>2
      <4> QED BY <2>2, <4>1, <4>2
    <3>3. ASSUME NEW v \in Writers, NEW i \in DOMAIN brain',
                 brain'[i].text = text[v], text[v] \notin disturbed
          PROVE  brain'[i].part <= written'[v]
      <4>1. /\ written[v] \in Nat
            /\ written'[v] = IF v = w THEN written[v] + 1 ELSE written[v]
        BY <1>1 DEF WriterTypes
      <4>2. CASE i = n
        <5>1. v = w
          BY <1>1, <2>2, <2>3, <3>3, <4>2 DEF WriterInv
        <5> QED BY <2>2, <2>3, <4>1, <4>2, <5>1
      <4>3. CASE i \in DOMAIN brain
        <5>1. brain[i].part <= written[v] /\ brain[i].part \in Nat
          BY <2>1, <2>2, <3>3, <4>3 DEF CopyInv, OnceIn, Call
        <5> QED BY <2>2, <4>1, <4>3, <5>1
      <4> QED BY <2>2, <4>2, <4>3
    <3> QED BY <3>2, <3>3 DEF OnceIn
  <2>6. ApartIn(brain)'
    <3> SUFFICES ASSUME NEW i \in DOMAIN brain', NEW j \in DOMAIN brain', NEW k \in DOMAIN brain',
                        i < j, j < k, brain'[i].by # NoPid, brain'[i].by = brain'[j].by,
                        brain'[j].by = brain'[k].by, brain'[i].text = brain'[k].text
                 PROVE  brain'[j].text = brain'[i].text
      BY DEF ApartIn
    <3>1. i \in DOMAIN brain /\ j \in DOMAIN brain
      BY <2>2
    <3>2. CASE k \in DOMAIN brain
      BY <2>1, <2>2, <3>1, <3>2 DEF CopyInv, ApartIn
    <3>3. CASE k = n
      <4>1. brain[i].text = text[w] /\ brain[i].by = by /\ brain[j].by = by /\ request[w] = "writing"
        BY <2>2, <2>3, <3>1, <3>3
      <4> QED BY <2>1, <2>2, <3>1, <4>1 DEF CopyInv, TurnsIn
    <3> QED BY <2>2, <3>2, <3>3
  <2>7. TurnsIn(brain)'
    <3> SUFFICES ASSUME NEW v \in Writers, NEW i \in DOMAIN brain',
                        brain'[i].text = text[v], brain'[i].by # NoPid
                 PROVE  /\ request'[v] # "waiting"
                        /\ request'[v] = "writing" =>
                             \A j \in DOMAIN brain' :
                               i < j /\ brain'[j].by = brain'[i].by => brain'[j].text = text[v]
      BY DEF TurnsIn
    <3>1. CASE i = n
      <4>1. request[w] = "writing" /\ text[v] = text[w] /\ text[w] # 0
        BY <1>1, <2>2, <2>3, <3>1 DEF WriterInv, InDaemon
      <4>2. v = w
        BY <1>1, <4>1 DEF WriterInv
      <4> QED BY <2>2, <3>1, <4>1, <4>2
    <3>2. CASE i \in DOMAIN brain
      <4>1. /\ request[v] # "waiting"
            /\ request[v] = "writing" =>
                 \A j \in DOMAIN brain : i < j /\ brain[j].by = brain[i].by => brain[j].text = text[v]
        BY <2>1, <2>2, <3>2 DEF CopyInv, TurnsIn
      <4>2. ASSUME request[v] = "writing", by # NoPid
            PROVE  v = w
        BY <1>1, <4>2 DEF WriterInv
      <4> QED BY <2>2, <2>3, <3>2, <4>1, <4>2
    <3> QED BY <2>2, <3>1, <3>2
  <2> QED BY <2>2, <2>4, <2>5, <2>6, <2>7 DEF CopyInv
<1> QED BY <1>2, <1>3 DEF Copies

LEMMA PortStaysTyped ==
  ASSUME port \in Pids \cup {NoPid}, ServicesNext
  PROVE  port' \in Pids \cup {NoPid}
BY DEF ServicesNext, Start, Stop, Begin, CommandStep, Spawn, Truncate, WritePid, Kill,
  RemovePidfile, WriteFails, LeaveDashboard, Continue, Bind, BindFails, Terminates, Crashes, Reused,
  StrangerEnds, Ended

LEMMA EditorsKeep ==
  ASSUME MemoryInv, NEW e \in Editors, Open(e) \/ Save(e) \/ EditRequest(e)
  PROVE  MemoryInv'
<1>1. /\ WriterTypes /\ WriterInv
      /\ UNCHANGED <<serviceVars, writerVars, appends, disturbed>>
  BY DEF MemoryInv, Open, Save, EditRequest, Replace, history
<1>2. \/ brain' = brain /\ opened' = [opened EXCEPT ![e] = brain]
      \/ brain' \in {opened[e], <<>>} /\ opened' = [opened EXCEPT ![e] = NotOpen]
  BY DEF Open, Save, EditRequest, Replace
<1>3. WriterTypes'
  BY <1>1, <1>2 DEF WriterTypes, writerVars, serviceVars
<1>4. WriterInv'
  BY <1>1 DEF WriterInv, InDaemon, writerVars, serviceVars
<1>5. Copies' \subseteq Copies \cup {<<>>, NotOpen}
  BY <1>1, <1>2 DEF WriterTypes, Copies
<1>6. QuietStep
  BY <1>1, <1>5 DEF QuietStep, writerVars
<1> QED BY <1>3, <1>4, <1>6, QuietKeeps DEF MemoryInv

\* The requests of a daemon that has gone are over.
LEMMA LifecycleKeeps ==
  ASSUME MemoryInv, Lifecycle
  PROVE  MemoryInv'
<1>1. WriterTypes /\ WriterInv /\ port' \in Pids \cup {NoPid} /\ UNCHANGED <<brain, opened>>
  BY PortStaysTyped DEF MemoryInv, WriterTypes, Lifecycle, LoseRequests, brainVars
<1>2. CASE LoseRequests
  <2>1. /\ UNCHANGED <<wpc, text, written, appends>>
        /\ disturbed \subseteq disturbed'
        /\ \A w \in Writers :
             /\ ~InDaemon(w) => request'[w] = request[w]
             /\ InDaemon(w) => /\ request'[w] = IF wpc[w] = "asking" THEN "error" ELSE "none"
                               /\ text[w] \in disturbed'
    BY <1>2 DEF LoseRequests, bounds
  <2>2. WriterTypes'
    BY <1>1, <1>2, <2>1 DEF WriterTypes, LoseRequests, InDaemon
  <2>3. WriterInv'
    BY <1>1, <2>1 DEF WriterInv, InDaemon
  <2>4. QuietStep
    BY <1>1, <2>1 DEF QuietStep, Copies, InDaemon
  <2> QED BY <2>2, <2>3, <2>4, QuietKeeps DEF MemoryInv
<1>3. CASE UNCHANGED brainVars /\ ~(port # NoPid /\ port' # port)
  <2>1. UNCHANGED <<lock, wpc, request, text, written, appends, disturbed>>
    BY <1>3 DEF brainVars, writerVars, bounds, history
  <2>2. WriterTypes'
    BY <1>1, <2>1 DEF WriterTypes
  <2>3. WriterInv'
    BY <1>1, <1>3, <2>1 DEF WriterInv, InDaemon
  <2>4. QuietStep
    BY <1>1, <2>1 DEF QuietStep, Copies
  <2> QED BY <2>2, <2>3, <2>4, QuietKeeps DEF MemoryInv
<1> QED BY <1>2, <1>3 DEF Lifecycle

\* Steps of a writer that call nothing.
LEMMA QuietWriterKeeps ==
  ASSUME MemoryInv, NEW w \in Writers,
         Answered(w) \/ FallBack(w) \/ TakeLock(w) \/ Interrupt(w)
  PROVE  MemoryInv'
<1>1. /\ WriterTypes /\ WriterInv
      /\ UNCHANGED <<port, brain, opened, text, appends, disturbed>>
  BY DEF MemoryInv, Answered, FallBack, TakeLock, Interrupt, bounds, history, serviceVars
<1>2. WriterTypes'
  BY <1>1 DEF WriterTypes, Answered, FallBack, TakeLock, Interrupt, Finish
<1>3. WriterInv'
  <2>1. CASE Answered(w) \/ FallBack(w)
    BY <1>1, <2>1 DEF WriterTypes, WriterInv, InDaemon, Answered, FallBack, Finish
  <2>2. CASE TakeLock(w)
    BY <1>1, <2>2, BrainAssumption DEF WriterTypes, WriterInv, InDaemon, TakeLock, lock_free
  <2>3. CASE Interrupt(w)
    BY <1>1, <2>3 DEF WriterTypes, WriterInv, InDaemon, Interrupt, Finish
  <2> QED BY <2>1, <2>2, <2>3
<1>4. QuietStep
  <2>1. \A v \in Writers : text[v] \notin disturbed' => written'[v] = written[v]
    BY <1>1 DEF WriterTypes, WriterInv, Answered, FallBack, TakeLock, Interrupt
  <2>2. \A v \in Writers :
          /\ request'[v] = "waiting" => request[v] = "waiting"
          /\ request'[v] = "writing" => request[v] \in {"waiting", "writing"}
    BY <1>1 DEF WriterTypes, Answered, FallBack, TakeLock, Interrupt
  <2> QED BY <1>1, <2>1, <2>2 DEF QuietStep, Copies
<1> QED BY <1>2, <1>3, <1>4, QuietKeeps DEF MemoryInv

LEMMA AskKeeps ==
  ASSUME MemoryInv, NEW w \in Writers, Ask(w)
  PROVE  MemoryInv'
<1>1. /\ WriterTypes /\ WriterInv /\ UNCHANGED <<port, lock, opened, disturbed>>
      /\ wpc[w] = "idle" /\ request[w] = "none"
      /\ text' = [text EXCEPT ![w] = appends + 1] /\ appends' = appends + 1
      /\ written' = [written EXCEPT ![w] = 0] /\ wpc' = [wpc EXCEPT ![w] = "asking"]
      /\ \/ port # NoPid /\ request' = [request EXCEPT ![w] = "waiting"]
         \/ request' = [request EXCEPT ![w] = "error"]
  BY DEF MemoryInv, Ask, serviceVars, history
<1>2. WriterTypes'
  <2>1. /\ appends' \in Nat /\ text' \in [Writers -> Nat] /\ written' \in [Writers -> Nat]
        /\ wpc' \in [Writers -> {"idle", "asking", "direct"}]
    BY <1>1 DEF WriterTypes
  <2>2. request' \in [Writers -> {"none", "waiting", "writing", "ok", "error"}]
    BY <1>1 DEF WriterTypes
  <2>3. port' \in Pids \cup {NoPid} /\ opened' = [e \in Editors |-> opened'[e]]
    BY <1>1 DEF WriterTypes
  <2> QED BY <2>1, <2>2, <2>3 DEF WriterTypes
<1>3. WriterInv'
  BY <1>1 DEF WriterTypes, WriterInv, InDaemon
<1> QED BY <1>2, <1>3, AskKeepsCopies DEF MemoryInv

LEMMA WriteKeeps ==
  ASSUME MemoryInv, NEW w \in Writers, DirectWrite(w) \/ DaemonWrite(w)
  PROVE  MemoryInv'
<1>1. WriterTypes /\ WriterInv /\ UNCHANGED <<port, text, opened, appends>>
  BY DEF MemoryInv, DirectWrite, DaemonWrite, serviceVars
<1>2. CASE DirectWrite(w)
  <2>1. UNCHANGED <<lock, request, disturbed>> /\ wpc[w] = "direct"
        /\ wpc' \in {wpc, [wpc EXCEPT ![w] = "idle"]}
    BY <1>2 DEF DirectWrite, Finish
  <2>2. CASE NextCall(w, NoPid)
    <3>1. written' = [written EXCEPT ![w] = @ + 1]
      BY <2>2 DEF NextCall
    <3>2. WriterTypes'
      BY <1>1, <2>1, <3>1 DEF WriterTypes
    <3>3. WriterInv'
      BY <1>1, <2>1, <3>1 DEF WriterTypes, WriterInv, InDaemon
    <3>4. \A b \in Copies' : CopyInv(b)'
      BY <1>1, <2>1, <2>2, CallKeepsCopies DEF WriterInv
    <3> QED BY <3>2, <3>3, <3>4 DEF MemoryInv
  <2>3. CASE UNCHANGED <<brain, written>>
    <3>1. WriterTypes'
      BY <1>1, <2>1, <2>3 DEF WriterTypes
    <3>2. WriterInv'
      BY <1>1, <2>1, <2>3 DEF WriterTypes, WriterInv, InDaemon
    <3>3. QuietStep
      BY <1>1, <2>1, <2>3 DEF QuietStep, Copies
    <3> QED BY <3>1, <3>2, <3>3, QuietKeeps DEF MemoryInv
  <2> QED BY <1>2, <2>2, <2>3 DEF DirectWrite
<1>3. CASE DaemonWrite(w)
  <2>1. /\ request[w] = "writing" /\ wpc' = wpc /\ disturbed \subseteq disturbed'
        /\ \/ UNCHANGED <<lock, request>>
           \/ \E a \in {"ok", "error", "none"} : request' = [request EXCEPT ![w] = a]
    BY <1>3 DEF DaemonWrite, WriteError, Respond
  <2>2. CASE /\ NextCall(w, port) /\ UNCHANGED disturbed
             /\ UNCHANGED <<lock, request>> \/ Respond(w, "ok")
    <3>1. written' = [written EXCEPT ![w] = @ + 1]
      BY <2>2 DEF NextCall
    <3>2. WriterTypes'
      BY <1>1, <2>1, <3>1 DEF WriterTypes
    <3>3. WriterInv'
      BY <1>1, <2>1, <2>2, <3>1 DEF WriterTypes, WriterInv, InDaemon, Respond
    <3>4. \A b \in Copies' : CopyInv(b)'
      <4>1. /\ \A v \in Writers : request'[v] = "waiting" => request[v] = "waiting"
            /\ \A v \in Writers : request'[v] = "writing" => request[v] = "writing"
        BY <1>1, <2>1 DEF WriterTypes
      <4>2. PICK p \in Pids \cup {NoPid} : p = port
        BY <1>1 DEF WriterTypes
      <4>3. NextCall(w, p) /\ request[w] = "writing" /\ text[w] # 0
        BY <1>1, <2>1, <2>2, <4>2 DEF WriterInv, InDaemon
      <4>4. UNCHANGED <<text, opened, appends, disturbed>>
        BY <1>1, <2>2
      <4> QED BY <4>1, <4>3, <4>4, CallKeepsCopies
    <3> QED BY <3>2, <3>3, <3>4 DEF MemoryInv
  <2>3. CASE WriteError(w)
    <3>1. /\ UNCHANGED <<brain, written>> /\ text[w] \in disturbed'
          /\ Respond(w, "error")
      BY <2>3 DEF WriteError
    <3>2. WriterTypes'
      BY <1>1, <2>1, <3>1 DEF WriterTypes
    <3>3. WriterInv'
      BY <1>1, <2>1, <3>1 DEF WriterTypes, WriterInv, InDaemon, Respond
    <3>4. QuietStep
      BY <1>1, <2>1, <3>1 DEF QuietStep, Copies, WriterTypes
    <3> QED BY <3>2, <3>3, <3>4, QuietKeeps DEF MemoryInv
  <2> QED BY <1>3, <2>2, <2>3 DEF DaemonWrite
<1> QED BY <1>2, <1>3

LEMMA MemoryKept ==
  ASSUME MemoryInv, [BrainNext]_allVars
  PROVE  MemoryInv'
<1>1. CASE UNCHANGED allVars
  BY <1>1 DEF allVars, serviceVars, brainVars, writerVars, bounds, history, MemoryInv, WriterTypes,
    WriterInv, InDaemon, Copies, CopyInv, OnceIn, ApartIn, TurnsIn
<1> QED BY <1>1, LifecycleKeeps, AskKeeps, QuietWriterKeeps, WriteKeeps, EditorsKeep
  DEF BrainNext, AppendStep, DaemonStep

LEMMA MemoryInvariant == BrainSpec => []MemoryInv
BY MemoryInit, MemoryKept, PTL DEF BrainSpec

\* For any number of writers, texts, editors and crashes of the daemon, a text
\* it has not failed with is not written twice (cmd_brain_append's fallback).
THEOREM NeverTwice == BrainSpec => []WrittenOnce
<1>1. MemoryInv => WrittenOnce
  BY DEF MemoryInv, Copies, CopyInv, OnceIn, WrittenOnce
<1> QED BY <1>1, MemoryInvariant, PTL

\* And the lines of two requests to one daemon are not mixed, whoever writes
\* besides it and whatever an editor brings back (brain_lock).
THEOREM EntriesApart == BrainSpec => []DaemonEntriesDoNotMix
<1>1. MemoryInv => DaemonEntriesDoNotMix
  BY DEF MemoryInv, Copies, CopyInv, ApartIn, DaemonEntriesDoNotMix
<1> QED BY <1>1, MemoryInvariant, PTL

------------------------------------------------------------------------------
(* What a reported text rests on *)

\* The calls one process makes for a text are in their order, ...
OrderIn(b) ==
  \A i, j \in DOMAIN b :
    i < j /\ b[i].text = b[j].text /\ b[i].by = b[j].by => b[i].part < b[j].part

\* ... and as far as it has come: a command makes none before it falls back.
PaceIn(b) ==
  \A w \in Writers, i \in DOMAIN b :
    b[i].text = text[w] =>
      /\ b[i].by = NoPid => /\ wpc[w] # "asking"
                            /\ wpc[w] = "direct" => b[i].part <= written[w]
      /\ b[i].by # NoPid /\ request[w] = "writing" => b[i].part <= written[w]

OrderInv == \A b \in Copies : OrderIn(b) /\ PaceIn(b)

\* The first n calls of p for the text t.
HasIn(b, t, p, n) ==
  \A m \in 1 .. n : \E i \in DOMAIN b : b[i] = [text |-> t, part |-> m, by |-> p]

AllIn(b, t) == \E p \in Pids \cup {NoPid} : HasIn(b, t, p, 3)

\* What has been written is there, unless a save has removed it.
HeldInv ==
  /\ \A w \in Writers :
       text[w] \notin overwritten =>
         /\ wpc[w] = "direct" => HasIn(brain, text[w], NoPid, written[w])
         /\ request[w] = "writing" => HasIn(brain, text[w], port, written[w])
         /\ request[w] = "ok" => AllIn(brain, text[w])
  /\ \A t \in reported \ overwritten : AllIn(brain, t)

KeptInv == MemoryInv /\ OrderInv /\ HeldInv

LEMMA KeptInit == BrainInit => KeptInv
<1> SUFFICES ASSUME BrainInit PROVE KeptInv
  OBVIOUS
<1>1. \A b \in Copies : b \in {<<>>, NotOpen}
  BY DEF BrainInit, Copies
<1>2. OrderIn(<<>>) /\ PaceIn(<<>>)
  BY DEF OrderIn, PaceIn
<1>3. OrderIn(NotOpen) /\ PaceIn(NotOpen)
  BY NoTextInIt DEF BrainInit, OrderIn, PaceIn
<1>4. HeldInv
  BY DEF BrainInit, HeldInv
<1> QED BY <1>1, <1>2, <1>3, <1>4, MemoryInit DEF KeptInv, OrderInv

\* No one but a request that takes the lock, or a command that falls back,
\* starts to write, and nothing is written.
QuietPace ==
  \A w \in Writers :
    /\ wpc'[w] = "asking" => wpc[w] = "asking"
    /\ wpc'[w] = "direct" =>
         wpc[w] = "asking" \/ (wpc[w] = "direct" /\ written'[w] = written[w])
    /\ request'[w] = "writing" =>
         request[w] = "waiting" \/ (request[w] = "writing" /\ written'[w] = written[w])

LEMMA QuietOrders ==
  ASSUME KeptInv, QuietStep, QuietPace, WriterTypes', WriterInv'
  PROVE  OrderInv'
<1> SUFFICES ASSUME NEW b \in Copies' PROVE OrderIn(b) /\ PaceIn(b)'
  BY DEF OrderInv, OrderIn
<1>1. CASE b = <<>>
  BY <1>1 DEF OrderIn, PaceIn
<1>2. CASE b = NotOpen
  BY <1>2, NoTextInIt DEF WriterTypes, WriterInv, InDaemon, OrderIn, PaceIn
<1>3. CASE b \in Copies
  <2>1. OrderIn(b) /\ PaceIn(b) /\ TurnsIn(b)
    BY <1>3 DEF KeptInv, OrderInv, MemoryInv, CopyInv
  <2>2. ASSUME NEW w \in Writers, NEW i \in DOMAIN b, b[i].text = text'[w]
        PROVE  /\ b[i].by = NoPid => /\ wpc'[w] # "asking"
                                     /\ wpc'[w] = "direct" => b[i].part <= written'[w]
               /\ b[i].by # NoPid /\ request'[w] = "writing" => b[i].part <= written'[w]
    <3>1. b[i].text = text[w]
      BY <2>2 DEF QuietStep
    <3> QED BY <2>1, <3>1 DEF PaceIn, TurnsIn, QuietPace
  <2> QED BY <2>1, <2>2 DEF PaceIn
<1> QED BY <1>1, <1>2, <1>3 DEF QuietStep

LEMMA AskOrders ==
  ASSUME KeptInv, NEW w \in Writers, Ask(w)
  PROVE  OrderInv'
<1> SUFFICES ASSUME NEW b \in Copies PROVE OrderIn(b) /\ PaceIn(b)'
  BY DEF OrderInv, OrderIn, Ask, Copies
<1>1. /\ CopyInv(b) /\ OrderIn(b) /\ PaceIn(b) /\ WriterTypes
      /\ text' = [text EXCEPT ![w] = appends + 1]
      /\ \A v \in Writers \ {w} :
           written'[v] = written[v] /\ request'[v] = request[v] /\ wpc'[v] = wpc[v]
  BY DEF KeptInv, MemoryInv, OrderInv, Ask, WriterTypes
<1>2. \A i \in DOMAIN b : b[i].text <= appends /\ b[i].text \in Nat
  <2>1. \A i \in DOMAIN b : b[i] \in Call
    BY <1>1 DEF CopyInv
  <2> QED BY <1>1, <2>1 DEF CopyInv, Call
<1>3. \A i \in DOMAIN b : b[i].text # text'[w]
  BY <1>1, <1>2 DEF WriterTypes
<1>4. ASSUME NEW v \in Writers, NEW i \in DOMAIN b, b[i].text = text'[v]
      PROVE  /\ b[i].by = NoPid => /\ wpc'[v] # "asking"
                                   /\ wpc'[v] = "direct" => b[i].part <= written'[v]
             /\ b[i].by # NoPid /\ request'[v] = "writing" => b[i].part <= written'[v]
  <2>1. v # w /\ text'[v] = text[v]
    BY <1>1, <1>3, <1>4 DEF WriterTypes
  <2> QED BY <1>1, <1>4, <2>1 DEF PaceIn
<1> QED BY <1>1, <1>4 DEF PaceIn

LEMMA CallOrders ==
  ASSUME KeptInv, NEW w \in Writers, NEW by \in Pids \cup {NoPid}, NextCall(w, by),
         IF by = NoPid THEN wpc[w] = "direct" ELSE request[w] = "writing",
         text[w] # 0, UNCHANGED <<text, opened>>,
         \A v \in Writers : wpc'[v] # "idle" => wpc'[v] = wpc[v],
         \A v \in Writers : request'[v] = "writing" => request[v] = "writing"
  PROVE  OrderInv'
<1>1. /\ WriterTypes /\ WriterInv
      /\ written' = [written EXCEPT ![w] = @ + 1]
      /\ brain' = Append(brain, [text |-> text[w], part |-> written[w] + 1, by |-> by])
  BY DEF KeptInv, MemoryInv, NextCall
<1>2. \A v \in Writers : /\ written[v] \in Nat /\ written'[v] \in Nat
                         /\ written'[v] = IF v = w THEN written[v] + 1 ELSE written[v]
  BY <1>1 DEF WriterTypes
<1>3. ASSUME NEW b \in Copies
      PROVE  /\ OrderIn(b) /\ PaceIn(b)'
             /\ b \in Seq(Call) /\ \A i \in DOMAIN b : b[i] \in Call /\ b[i].part \in Nat
  <2>1. OrderIn(b) /\ PaceIn(b) /\ b \in Seq(Call)
    BY DEF KeptInv, OrderInv, MemoryInv, CopyInv
  <2>2. \A i \in DOMAIN b : b[i] \in Call
    BY <2>1
  <2>3. \A i \in DOMAIN b : b[i].part \in Nat
    BY <2>2 DEF Call
  <2>4. ASSUME NEW v \in Writers, NEW i \in DOMAIN b, b[i].text = text'[v]
        PROVE  /\ b[i].by = NoPid => /\ wpc'[v] # "asking"
                                     /\ wpc'[v] = "direct" => b[i].part <= written'[v]
               /\ b[i].by # NoPid /\ request'[v] = "writing" => b[i].part <= written'[v]
    BY <1>2, <2>1, <2>3, <2>4 DEF PaceIn
  <2> QED BY <2>1, <2>2, <2>3, <2>4 DEF PaceIn
<1>4. \A e \in Editors : (OrderIn(opened[e]) /\ PaceIn(opened[e]))'
  <2> SUFFICES ASSUME NEW e \in Editors
               PROVE  (OrderIn(opened[e]) /\ PaceIn(opened[e]))'
    OBVIOUS
  <2>1. PICK b \in Copies : b = opened[e]
    BY DEF Copies
  <2>2. OrderIn(b) /\ PaceIn(b)' /\ b = opened'[e]
    BY <1>3, <2>1
  <2> QED BY <2>2 DEF OrderIn, PaceIn
<1>5. (OrderIn(brain) /\ PaceIn(brain))'
  <2> DEFINE n == Len(brain) + 1
             c == [text |-> text[w], part |-> written[w] + 1, by |-> by]
  <2>1. PICK b \in Copies : b = brain
    BY DEF Copies
  <2>2. OrderIn(b) /\ PaceIn(b) /\ PaceIn(b)' /\ b \in Seq(Call)
        /\ \A i \in DOMAIN b : b[i].part \in Nat
    BY <1>3 DEF KeptInv, OrderInv
  <2> HIDE DEF c
  <2>3. /\ DOMAIN brain' = DOMAIN b \cup {n}
        /\ brain'[n] = c /\ n \notin DOMAIN b
        /\ \A i \in DOMAIN b : i < n /\ i \in Nat /\ brain'[i] = b[i]
    BY <1>1, <2>1, <2>2 DEF c
  <2>4. n \in Nat
    BY <2>1, <2>2
  <2> HIDE DEF n
  <2>5. c.text = text[w] /\ c.part = written[w] + 1 /\ c.by = by
    BY DEF c
  <2>6. \A i \in DOMAIN b : b[i].text = text[w] /\ b[i].by = by => b[i].part <= written[w]
    BY <2>2 DEF PaceIn
  <2>7. OrderIn(brain')
    <3> SUFFICES ASSUME NEW i \in DOMAIN brain', NEW j \in DOMAIN brain', i < j,
                        brain'[i].text = brain'[j].text, brain'[i].by = brain'[j].by
                 PROVE  brain'[i].part < brain'[j].part
      BY DEF OrderIn
    <3>1. i \in DOMAIN b
      BY <2>3, <2>4
    <3>2. CASE j \in DOMAIN b
      BY <2>2, <2>3, <3>1, <3>2 DEF OrderIn
    <3>3. CASE j = n
      BY <1>2, <2>2, <2>3, <2>5, <2>6, <3>1, <3>3
    <3> QED BY <2>3, <3>2, <3>3
  <2>8. ASSUME NEW v \in Writers, NEW i \in DOMAIN brain', brain'[i].text = text'[v]
        PROVE  /\ brain'[i].by = NoPid => /\ wpc'[v] # "asking"
                                          /\ wpc'[v] = "direct" => brain'[i].part <= written'[v]
               /\ brain'[i].by # NoPid /\ request'[v] = "writing" => brain'[i].part <= written'[v]
    <3>1. CASE i = n
      <4>1. v = w
        BY <1>1, <2>3, <2>5, <2>8, <3>1 DEF WriterInv
      <4> QED BY <1>2, <2>3, <2>5, <3>1, <4>1
    <3>2. CASE i \in DOMAIN b
      BY <2>2, <2>3, <2>8, <3>2 DEF PaceIn
    <3> QED BY <2>3, <3>1, <3>2
  <2> QED BY <2>7, <2>8 DEF OrderIn, PaceIn
<1> QED BY <1>4, <1>5 DEF Copies, OrderInv

\* What stays of the file.
Stays ==
  /\ overwritten \subseteq overwritten'
  /\ \A i \in DOMAIN brain :
       brain[i].text \notin overwritten' => \E j \in DOMAIN brain' : brain'[j] = brain[i]

LEMMA HeldStays ==
  ASSUME Stays, NEW t, t \notin overwritten'
  PROVE  /\ \A p, n : HasIn(brain, t, p, n) => HasIn(brain', t, p, n)
         /\ AllIn(brain, t) => AllIn(brain', t)
BY DEF Stays, HasIn, AllIn

\* A step that leaves the writers where they are, or makes fewer of them write.
LEMMA QuietHolds ==
  ASSUME HeldInv, Stays, UNCHANGED text,
         \A t \in reported' : t \in reported \/ AllIn(brain, t) \/ t \in overwritten,
         \A w \in Writers :
           /\ wpc'[w] = "direct" => \/ wpc[w] = "direct" /\ written'[w] = written[w]
                                    \/ written'[w] = 0
           /\ request'[w] = "writing" =>
                \/ request[w] = "writing" /\ written'[w] = written[w] /\ port' = port
                \/ request[w] = "waiting" /\ written'[w] = 0
           /\ request'[w] = "ok" => request[w] = "ok"
  PROVE  HeldInv'
<1>1. ASSUME NEW w \in Writers, text'[w] \notin overwritten'
      PROVE  /\ wpc'[w] = "direct" => HasIn(brain', text'[w], NoPid, written'[w])
             /\ request'[w] = "writing" => HasIn(brain', text'[w], port', written'[w])
             /\ request'[w] = "ok" => AllIn(brain', text'[w])
  <2>1. PICK t : t = text[w]
    OBVIOUS
  <2>2. t \notin overwritten' /\ t \notin overwritten /\ text'[w] = t
    BY <1>1, <2>1 DEF Stays
  <2>3. \A p : HasIn(brain', t, p, 0)
    BY DEF HasIn
  <2> QED BY <2>1, <2>2, <2>3, HeldStays DEF HeldInv
<1>2. ASSUME NEW t \in reported' \ overwritten'
      PROVE  AllIn(brain', t)
  BY <1>2, HeldStays DEF HeldInv, Stays
<1> QED BY <1>1, <1>2 DEF HeldInv, AllIn, HasIn

LEMMA QuietWriterKept ==
  ASSUME KeptInv, NEW w \in Writers,
         Answered(w) \/ FallBack(w) \/ TakeLock(w) \/ Interrupt(w)
  PROVE  OrderInv' /\ HeldInv'
<1>1. /\ WriterTypes /\ WriterInv /\ HeldInv
      /\ UNCHANGED <<port, brain, opened, text, appends, overwritten, disturbed>>
  BY DEF KeptInv, MemoryInv, Answered, FallBack, TakeLock, Interrupt, bounds, history, serviceVars
<1>2. WriterTypes' /\ WriterInv'
  BY QuietWriterKeeps DEF KeptInv, MemoryInv
<1>3. \A v \in Writers :
        /\ wpc'[v] = "asking" => wpc[v] = "asking"
        /\ wpc'[v] = "direct" => \/ wpc[v] = "direct" /\ written'[v] = written[v]
                                 \/ wpc[v] = "asking" /\ written'[v] = 0
        /\ request'[v] = "waiting" => request[v] = "waiting"
        /\ request'[v] = "writing" => /\ request[v] \in {"waiting", "writing"}
                                      /\ written'[v] = written[v]
        /\ request'[v] = "ok" => request[v] = "ok"
  BY <1>1 DEF WriterTypes, Answered, FallBack, TakeLock, Interrupt, Finish
<1>4. \A v \in Writers : text[v] \notin disturbed' => written'[v] = written[v]
  BY <1>1 DEF WriterTypes, WriterInv, Answered, FallBack, TakeLock, Interrupt
<1>5. QuietStep
  BY <1>1, <1>3, <1>4 DEF QuietStep, Copies
<1>6. OrderInv'
  BY <1>2, <1>3, <1>5, QuietOrders DEF QuietPace
<1>7. \A t \in reported' : t \in reported \/ AllIn(brain, t) \/ t \in overwritten
  BY <1>1 DEF HeldInv, Answered, FallBack, TakeLock, Interrupt, history
<1>8. HeldInv'
  <2>1. Stays
    BY <1>1 DEF Stays
  <2>2. \A v \in Writers : request[v] = "waiting" => written[v] = 0
    BY <1>1 DEF WriterInv
  <2> QED BY <1>1, <1>3, <1>7, <2>1, <2>2, QuietHolds
<1> QED BY <1>6, <1>8

LEMMA AskKept ==
  ASSUME KeptInv, NEW w \in Writers, Ask(w)
  PROVE  OrderInv' /\ HeldInv'
<1>1. /\ WriterTypes /\ HeldInv /\ UNCHANGED <<port, brain, overwritten, reported>>
      /\ wpc' = [wpc EXCEPT ![w] = "asking"]
      /\ text' = [text EXCEPT ![w] = appends + 1]
      /\ \A v \in Writers \ {w} : request'[v] = request[v] /\ written'[v] = written[v]
      /\ request'[w] \in {"waiting", "error"}
  BY DEF KeptInv, MemoryInv, Ask, serviceVars, history, WriterTypes
<1>2. \A v \in Writers \ {w} : text'[v] = text[v] /\ wpc'[v] = wpc[v]
  BY <1>1 DEF WriterTypes
<1>3. wpc'[w] = "asking"
  BY <1>1 DEF WriterTypes
<1>4. HeldInv'
  BY <1>1, <1>2, <1>3 DEF HeldInv, AllIn, HasIn
<1> QED BY <1>4, AskOrders

LEMMA EditorsKept ==
  ASSUME KeptInv, NEW e \in Editors, Open(e) \/ Save(e) \/ EditRequest(e)
  PROVE  OrderInv' /\ HeldInv'
<1>1. /\ WriterTypes /\ WriterInv /\ HeldInv
      /\ UNCHANGED <<port, writerVars, appends, reported, disturbed>>
  BY DEF KeptInv, MemoryInv, Open, Save, EditRequest, Replace, history, serviceVars
<1>2. \/ UNCHANGED <<brain, overwritten>> /\ opened' = [opened EXCEPT ![e] = brain]
      \/ /\ brain' \in {opened[e], <<>>} /\ opened' = [opened EXCEPT ![e] = NotOpen]
         /\ overwritten' = overwritten \cup
                            {f.text : f \in Contents(brain) \ Contents(brain')}
  BY DEF Open, Save, EditRequest, Replace, history
<1>3. WriterTypes' /\ WriterInv'
  BY EditorsKeep DEF KeptInv, MemoryInv
<1>4. OrderInv'
  <2>1. Copies' \subseteq Copies \cup {<<>>, NotOpen}
    BY <1>1, <1>2 DEF WriterTypes, Copies
  <2>2. QuietStep /\ QuietPace
    BY <1>1, <2>1 DEF QuietStep, QuietPace, writerVars
  <2> QED BY <1>3, <2>2, QuietOrders
<1>5. HeldInv'
  <2>1. Stays
    BY <1>2 DEF Stays, Contents
  <2> QED BY <1>1, <2>1, QuietHolds DEF writerVars
<1> QED BY <1>4, <1>5

LEMMA LifecycleKept ==
  ASSUME KeptInv, Lifecycle
  PROVE  OrderInv' /\ HeldInv'
<1>1. WriterTypes /\ WriterInv /\ HeldInv
      /\ UNCHANGED <<brain, opened, wpc, text, written, appends, reported, overwritten>>
      /\ disturbed \subseteq disturbed'
  BY DEF KeptInv, MemoryInv, Lifecycle, LoseRequests, brainVars, writerVars, bounds, history
<1>2. WriterTypes' /\ WriterInv'
  BY LifecycleKeeps DEF KeptInv, MemoryInv
<1>3. \A w \in Writers :
        /\ request'[w] = "waiting" => request[w] = "waiting"
        /\ request'[w] = "writing" => request[w] = "writing" /\ port' = port
        /\ request'[w] = "ok" => request[w] = "ok"
  <2>1. CASE LoseRequests
    BY <2>1 DEF LoseRequests, InDaemon
  <2>2. CASE UNCHANGED brainVars /\ ~(port # NoPid /\ port' # port)
    BY <1>1, <2>2 DEF WriterInv, InDaemon, brainVars, writerVars
  <2> QED BY <2>1, <2>2 DEF Lifecycle
<1>4. OrderInv'
  <2>1. QuietStep /\ QuietPace
    BY <1>1, <1>3 DEF QuietStep, QuietPace, Copies
  <2> QED BY <1>2, <2>1, QuietOrders
<1>5. HeldInv'
  <2>1. Stays
    BY <1>1 DEF Stays
  <2> QED BY <1>1, <1>3, <2>1, QuietHolds
<1> QED BY <1>4, <1>5

\* The next call of p is there, and what was before it.
LEMMA CallAdds ==
  ASSUME KeptInv, NEW w \in Writers, NEW p, NextCall(w, p),
         UNCHANGED <<text, overwritten>>
  PROVE  /\ Stays
         /\ HasIn(brain, text[w], p, written[w]) =>
              HasIn(brain', text[w], p, written[w] + 1)
<1>1. /\ brain \in Seq(Call) /\ written[w] \in Nat
      /\ brain' = Append(brain, [text |-> text[w], part |-> written[w] + 1, by |-> p])
  BY DEF KeptInv, MemoryInv, WriterTypes, Copies, CopyInv, NextCall
<1>2. /\ \A i \in DOMAIN brain : i \in DOMAIN brain' /\ brain'[i] = brain[i]
      /\ \E j \in DOMAIN brain' : brain'[j] = [text |-> text[w], part |-> written[w] + 1, by |-> p]
  <2>1. Len(brain) + 1 \in DOMAIN brain'
    BY <1>1
  <2> QED BY <1>1, <2>1
<1>3. \A m \in 1 .. (written[w] + 1) : m \in 1 .. written[w] \/ m = written[w] + 1
  BY <1>1
<1> QED BY <1>2, <1>3 DEF Stays, HasIn

LEMMA DirectKept ==
  ASSUME KeptInv, NEW w \in Writers, DirectWrite(w)
  PROVE  OrderInv' /\ HeldInv'
<1>1. /\ WriterTypes /\ WriterInv /\ HeldInv
      /\ UNCHANGED <<port, request, text, opened, appends, overwritten, disturbed>>
      /\ wpc[w] = "direct" /\ wpc' \in {wpc, [wpc EXCEPT ![w] = "idle"]}
  BY DEF KeptInv, MemoryInv, DirectWrite, Finish, serviceVars
<1>2. \A v \in Writers : wpc'[v] # "idle" => wpc'[v] = wpc[v]
  BY <1>1 DEF WriterTypes
<1>3. CASE /\ NextCall(w, NoPid)
           /\ IF written[w] = 2 THEN Finish(w) /\ reported' = reported \cup {text[w]}
              ELSE UNCHANGED <<wpc, reported>>
  <2>1. OrderInv'
    BY <1>1, <1>2, <1>3, CallOrders DEF WriterInv
  <2>2. /\ Stays
        /\ HasIn(brain, text[w], NoPid, written[w]) =>
             HasIn(brain', text[w], NoPid, written[w] + 1)
    BY <1>1, <1>3, CallAdds
  <2>3. /\ \A v \in Writers \ {w} : written'[v] = written[v]
        /\ written'[w] = written[w] + 1 /\ request[w] = "none"
    BY <1>1, <1>3 DEF WriterTypes, WriterInv, NextCall
  <2>4. \A v \in Writers : \A t :
          t = text[v] /\ t \notin overwritten =>
            /\ wpc'[v] = "direct" => HasIn(brain', t, NoPid, written'[v])
            /\ request[v] = "writing" => HasIn(brain', t, port, written'[v])
            /\ request[v] = "ok" => AllIn(brain', t)
    BY <1>1, <1>2, <2>2, <2>3, HeldStays DEF HeldInv
  <2>5. ASSUME NEW t \in reported' \ overwritten
        PROVE  AllIn(brain', t)
    <3>1. CASE t \in reported
      BY <1>1, <2>2, <2>5, <3>1, HeldStays DEF HeldInv
    <3>2. CASE t = text[w] /\ written[w] = 2
      <4>1. HasIn(brain', t, NoPid, 3)
        BY <1>1, <2>2, <2>5, <3>2 DEF HeldInv
      <4> QED BY <4>1 DEF AllIn
    <3> QED BY <1>3, <2>5, <3>1, <3>2
  <2>6. HeldInv'
    BY <1>1, <2>4, <2>5 DEF HeldInv, AllIn, HasIn
  <2> QED BY <2>1, <2>6
<1>4. CASE UNCHANGED <<brain, written, reported>>
  <2>1. WriterTypes' /\ WriterInv'
    BY WriteKeeps DEF KeptInv, MemoryInv
  <2>2. QuietStep /\ QuietPace
    BY <1>1, <1>2, <1>4 DEF QuietStep, QuietPace, Copies
  <2>3. Stays
    BY <1>1, <1>4 DEF Stays
  <2>4. HeldInv'
    BY <1>1, <1>2, <1>4, <2>3, QuietHolds
  <2> QED BY <2>1, <2>2, <2>4, QuietOrders
<1> QED BY <1>3, <1>4 DEF DirectWrite

LEMMA DaemonKept ==
  ASSUME KeptInv, NEW w \in Writers, DaemonWrite(w)
  PROVE  OrderInv' /\ HeldInv'
<1>1. /\ WriterTypes /\ WriterInv /\ HeldInv
      /\ UNCHANGED <<port, wpc, text, opened, appends, reported, overwritten>>
      /\ request[w] = "writing" /\ text[w] # 0
  BY DEF KeptInv, MemoryInv, DaemonWrite, serviceVars, WriterInv, InDaemon
<1>2. CASE /\ NextCall(w, port)
           /\ IF written[w] = 2 THEN Respond(w, "ok") ELSE UNCHANGED <<lock, request>>
  <2>1. PICK p \in Pids : p = port
    BY <1>1 DEF WriterTypes, WriterInv, InDaemon
  <2>2. NextCall(w, p) /\ p # NoPid
    BY <1>2, <2>1, ServicesAssumption
  <2>3. /\ \A v \in Writers \ {w} : request'[v] = request[v] /\ written'[v] = written[v]
        /\ written'[w] = written[w] + 1
        /\ request'[w] = "writing" => request' = request
        /\ request'[w] = "ok" => written[w] = 2
    BY <1>1, <1>2 DEF WriterTypes, Respond, NextCall
  <2>4. \A v \in Writers : request'[v] = "writing" => request[v] = "writing"
    BY <2>3
  <2>5. \A v \in Writers : wpc'[v] # "idle" => wpc'[v] = wpc[v]
    BY <1>1
  <2>6. OrderInv'
    BY <1>1, <2>1, <2>2, <2>4, <2>5, CallOrders
  <2>7. /\ Stays
        /\ HasIn(brain, text[w], p, written[w]) => HasIn(brain', text[w], p, written[w] + 1)
    BY <1>1, <2>2, CallAdds
  <2>8. wpc[w] # "direct"
    BY <1>1 DEF WriterInv
  <2>9. \A v \in Writers : \A t :
          t = text[v] /\ t \notin overwritten =>
            /\ wpc[v] = "direct" => HasIn(brain', t, NoPid, written'[v])
            /\ request'[v] = "writing" => HasIn(brain', t, port, written'[v])
    BY <1>1, <2>1, <2>3, <2>4, <2>7, <2>8, HeldStays DEF HeldInv
  <2>10. ASSUME NEW v \in Writers, NEW t, t = text[v], t \notin overwritten, request'[v] = "ok"
         PROVE  AllIn(brain', t)
    <3>1. CASE v = w
      <4>1. HasIn(brain', t, p, 3)
        BY <1>1, <2>1, <2>3, <2>7, <2>10, <3>1 DEF HeldInv
      <4> QED BY <4>1 DEF AllIn
    <3>2. CASE v # w
      BY <1>1, <2>3, <2>7, <2>10, <3>2, HeldStays DEF HeldInv
    <3> QED BY <3>1, <3>2
  <2>11. \A t \in reported \ overwritten : AllIn(brain', t)
    BY <1>1, <2>7, HeldStays DEF HeldInv
  <2>12. HeldInv'
    BY <1>1, <2>9, <2>10, <2>11 DEF HeldInv, AllIn, HasIn
  <2> QED BY <2>6, <2>12
<1>3. CASE WriteError(w)
  <2>1. /\ WriterTypes' /\ WriterInv'
        /\ UNCHANGED <<brain, written>> /\ disturbed \subseteq disturbed'
        /\ \A v \in Writers : /\ request'[v] = "waiting" => request[v] = "waiting"
                              /\ request'[v] = "writing" => request[v] = "writing"
                              /\ request'[v] = "ok" => request[v] = "ok"
    BY <1>1, <1>3, WriteKeeps DEF KeptInv, MemoryInv, WriteError, Respond, WriterTypes
  <2>2. QuietStep /\ QuietPace
    BY <1>1, <2>1 DEF QuietStep, QuietPace, Copies
  <2>3. Stays
    BY <1>1, <2>1 DEF Stays
  <2>4. HeldInv'
    BY <1>1, <2>1, <2>3, QuietHolds
  <2> QED BY <2>1, <2>2, <2>4, QuietOrders
<1> QED BY <1>2, <1>3 DEF DaemonWrite

LEMMA KeptKept ==
  ASSUME KeptInv, [BrainNext]_allVars
  PROVE  KeptInv'
<1>1. MemoryInv'
  BY MemoryKept DEF KeptInv
<1>2. CASE UNCHANGED allVars
  BY <1>1, <1>2 DEF allVars, serviceVars, brainVars, writerVars, bounds, history, KeptInv,
    OrderInv, Copies, OrderIn, PaceIn, HeldInv, AllIn, HasIn
<1> QED BY <1>1, <1>2, LifecycleKept, AskKept, QuietWriterKept, DirectKept, DaemonKept, EditorsKept
  DEF BrainNext, AppendStep, DaemonStep, KeptInv

LEMMA KeptInvariant == BrainSpec => []KeptInv
BY KeptInit, KeptKept, PTL DEF BrainSpec

\* Three calls of one process for a text are all of it, as they are in order.
LEMMA WholeIsAll ==
  ASSUME NEW b, b \in Seq(Call), OrderIn(b), NEW t
  PROVE  Whole(t, b) <=> AllIn(b, t)
<1>1. ASSUME Whole(t, b)
      PROVE  AllIn(b, t)
  <2>1. PICK i, j, k \in DOMAIN b :
          /\ b[i].by = b[j].by /\ b[j].by = b[k].by
          /\ \A x \in {i, j, k} : b[x].text = t
          /\ b[i].part = 1 /\ b[j].part = 2 /\ b[k].part = 3
    BY <1>1 DEF Whole
  <2>2. {b[i], b[j], b[k]} \subseteq Call
    OBVIOUS
  <2>3. /\ b[i] = [text |-> t, part |-> 1, by |-> b[i].by]
        /\ b[j] = [text |-> t, part |-> 2, by |-> b[i].by]
        /\ b[k] = [text |-> t, part |-> 3, by |-> b[i].by]
        /\ b[i].by \in Pids \cup {NoPid}
    BY <2>1, <2>2 DEF Call
  <2>4. \A m \in 1 .. 3 : m = 1 \/ m = 2 \/ m = 3
    OBVIOUS
  <2> QED BY <2>3, <2>4 DEF AllIn, HasIn
<1>2. ASSUME AllIn(b, t)
      PROVE  Whole(t, b)
  <2>1. PICK p \in Pids \cup {NoPid} : HasIn(b, t, p, 3)
    BY <1>2 DEF AllIn
  <2>2. PICK i \in DOMAIN b : b[i] = [text |-> t, part |-> 1, by |-> p]
    BY <2>1 DEF HasIn
  <2>3. PICK j \in DOMAIN b : b[j] = [text |-> t, part |-> 2, by |-> p]
    BY <2>1 DEF HasIn
  <2>4. PICK k \in DOMAIN b : b[k] = [text |-> t, part |-> 3, by |-> p]
    BY <2>1 DEF HasIn
  <2>5. {i, j, k} \subseteq Int
    OBVIOUS
  <2>6. i < j /\ j < k
    BY <2>2, <2>3, <2>4, <2>5 DEF OrderIn
  <2> QED BY <2>2, <2>3, <2>4, <2>6 DEF Whole
<1> QED BY <1>1, <1>2

\* For any number of writers, texts, editors and crashes, what a command has
\* reported as written is in the file, in one piece or beside other texts, until
\* a save removes it (brain_append, append_brain_direct).
THEOREM ReportKept == BrainSpec => []ReportedIsKept
<1>1. KeptInv => ReportedIsKept
  BY WholeIsAll DEF ReportedIsKept, KeptInv, HeldInv, OrderInv, MemoryInv, CopyInv, Copies
<1> QED BY <1>1, KeptInvariant, PTL

------------------------------------------------------------------------------
(* The file is a memory of texts *)

\* What is in the copies.
LEMMA EntriesOfCopies ==
  ASSUME KeptInv
  PROVE  \A b \in Copies : \A t : t \in Entries(b) <=> AllIn(b, t)
<1> SUFFICES ASSUME NEW b \in Copies, NEW t PROVE t \in Entries(b) <=> AllIn(b, t)
  OBVIOUS
<1>1. b \in Seq(Call) /\ OrderIn(b)
  BY DEF KeptInv, MemoryInv, CopyInv, OrderInv
<1>2. Whole(t, b) => t \in {f.text : f \in Contents(b)}
  BY DEF Whole, Contents
<1> QED BY <1>1, <1>2, WholeIsAll DEF Entries

LEMMA NothingInIt == Entries(<<>>) = {} /\ Entries(NotOpen) = {}
<1>1. \A t : ~Whole(t, <<>>)
  BY DEF Whole
<1>2. \A t : ~Whole(t, NotOpen)
  BY NoTextInIt DEF Whole
<1> QED BY <1>1, <1>2 DEF Entries

\* A call completes the text it is for, if any.
LEMMA CallCompletes ==
  ASSUME KeptInv, KeptInv', NEW w \in Writers, NEW p, NextCall(w, p)
  PROVE  \/ Entries(brain') = Entries(brain)
         \/ /\ text[w] \notin Entries(brain)
            /\ Entries(brain') = Entries(brain) \cup {text[w]}
<1>1. /\ \A t : t \in Entries(brain) <=> AllIn(brain, t)
      /\ \A t : t \in Entries(brain') <=> AllIn(brain', t)
  <2>1. \A t : t \in Entries(brain) <=> AllIn(brain, t)
    BY EntriesOfCopies DEF Copies
  <2>2. brain' \in Seq(Call) /\ OrderIn(brain')
    BY DEF KeptInv, MemoryInv, CopyInv, OrderInv, Copies, OrderIn
  <2>3. \A t : Whole(t, brain') => t \in {f.text : f \in Contents(brain')}
    BY DEF Whole, Contents
  <2> QED BY <2>1, <2>2, <2>3, WholeIsAll DEF Entries
<1>2. /\ brain \in Seq(Call)
      /\ brain' = Append(brain, [text |-> text[w], part |-> written[w] + 1, by |-> p])
  BY DEF KeptInv, MemoryInv, Copies, CopyInv, NextCall
<1>3. /\ \A i \in DOMAIN brain : i \in DOMAIN brain' /\ brain'[i] = brain[i]
      /\ \A i \in DOMAIN brain' : i \in DOMAIN brain \/ brain'[i].text = text[w]
  BY <1>2
<1>4. \A t : AllIn(brain, t) => AllIn(brain', t)
  BY <1>3 DEF AllIn, HasIn
<1>5. \A t : t # text[w] /\ AllIn(brain', t) => AllIn(brain, t)
  BY <1>3 DEF AllIn, HasIn
<1> QED BY <1>1, <1>4, <1>5

\* A save removes no text without a mark.
LEMMA SaveSpoils ==
  ASSUME KeptInv, NEW b \in Copies \cup {<<>>}, NEW t \in Entries(brain) \ Entries(b)
  PROVE  t \in {f.text : f \in Contents(brain) \ Contents(b)}
<1>1. PICK p \in Pids \cup {NoPid} : HasIn(brain, t, p, 3)
  BY EntriesOfCopies DEF Copies, AllIn
<1>2. ~HasIn(b, t, p, 3)
  <2>1. CASE b \in Copies
    BY <2>1, EntriesOfCopies DEF AllIn
  <2>2. CASE b = <<>>
    <3>1. 1 \in 1 .. 3 /\ DOMAIN b = {}
      BY <2>2
    <3> QED BY <3>1 DEF HasIn
  <2> QED BY <2>1, <2>2
<1>3. PICK m \in 1 .. 3 : \A i \in DOMAIN b : b[i] # [text |-> t, part |-> m, by |-> p]
  BY <1>2 DEF HasIn
<1>4. PICK i \in DOMAIN brain : brain[i] = [text |-> t, part |-> m, by |-> p]
  BY <1>1 DEF HasIn
<1>5. brain[i] \in Contents(brain) \ Contents(b) /\ brain[i].text = t
  BY <1>3, <1>4 DEF Contents
<1> QED BY <1>5

\* What a step of the file does to the memory, in the state it leads to.
LEMMA SameMemory ==
  ASSUME UNCHANGED <<brain, opened, reported, overwritten>>
  PROVE  UNCHANGED Memory!memory
BY DEF Memory!memory, Entries, Contents, Whole

LEMMA OpenLoads ==
  ASSUME KeptInv, NEW e \in Editors, Open(e)
  PROVE  Memory!Load(e)
<1>1. /\ UNCHANGED <<brain, reported, overwritten>>
      /\ opened' = [opened EXCEPT ![e] = brain]
  BY DEF Open, history
<1>2. Entries(brain)' = Entries(brain)
  BY <1>1 DEF Entries, Contents, Whole
<1>3. [d \in Editors |-> Entries(opened[d])]' =
        [[d \in Editors |-> Entries(opened[d])] EXCEPT ![e] = Entries(brain)]
  <2>1. [d \in Editors |-> Entries(opened[d])]' = [d \in Editors |-> Entries(opened'[d])]
    BY DEF Entries, Contents, Whole
  <2>2. \A d \in Editors : opened'[d] = IF d = e THEN brain ELSE opened[d]
    BY <1>1 DEF KeptInv, MemoryInv, WriterTypes
  <2> QED BY <2>1, <2>2
<1> QED BY <1>1, <1>2, <1>3 DEF Memory!Load

LEMMA ReplaceSaves ==
  ASSUME KeptInv, NEW e \in Editors, NEW b \in {opened[e], <<>>}, Replace(e, b)
  PROVE  Memory!Save(e)
<1>1. /\ brain' = b /\ UNCHANGED reported
      /\ opened' = [opened EXCEPT ![e] = NotOpen]
      /\ overwritten' = overwritten \cup {f.text : f \in Contents(brain) \ Contents(b)}
  BY DEF Replace
<1>2. Entries(brain)' = Entries(b)
  BY <1>1 DEF Entries, Contents, Whole
<1>3. Entries(b) \in {Entries(opened[e]), {}}
  BY NothingInIt
<1>4. [d \in Editors |-> Entries(opened[d])]' =
        [[d \in Editors |-> Entries(opened[d])] EXCEPT ![e] = {}]
  <2>1. [d \in Editors |-> Entries(opened[d])]' = [d \in Editors |-> Entries(opened'[d])]
    BY DEF Entries, Contents, Whole
  <2>2. \A d \in Editors : opened'[d] = IF d = e THEN NotOpen ELSE opened[d]
    BY <1>1 DEF KeptInv, MemoryInv, WriterTypes
  <2> QED BY <2>1, <2>2, NothingInIt
<1>5. Entries(brain) \ Entries(b) \subseteq overwritten'
  BY <1>1, SaveSpoils DEF Copies
<1> QED BY <1>1, <1>2, <1>3, <1>4, <1>5 DEF Memory!Save

\* The calls of the daemon and of the commands; what they report is whole.
LEMMA CallKeepsMemory ==
  ASSUME KeptInv, KeptInv', NEW w \in Writers, NEW p, NextCall(w, p),
         UNCHANGED <<opened, overwritten>>,
         reported' \in {reported, reported \cup {text[w]}}
  PROVE  [Memory!Next]_Memory!memory
<1>1. /\ Entries(brain)' = Entries(brain')
      /\ UNCHANGED [d \in Editors |-> Entries(opened[d])]
  BY DEF Entries, Contents, Whole
<1>2. CASE Entries(brain') = Entries(brain)
  <2>1. CASE UNCHANGED reported
    BY <1>1, <1>2, <2>1 DEF Memory!memory
  <2>2. CASE reported' = reported \cup {text[w]}
    <3>1. text[w] \in Entries(brain') \cup overwritten
      <4>1. text[w] \notin overwritten => AllIn(brain', text[w])
        BY <2>2 DEF KeptInv, HeldInv, AllIn, HasIn
      <4>2. brain' \in Seq(Call) /\ OrderIn(brain')
        BY DEF KeptInv, MemoryInv, CopyInv, OrderInv, Copies, OrderIn
      <4>3. AllIn(brain', text[w]) => Whole(text[w], brain')
        BY <4>2, WholeIsAll
      <4>4. Whole(text[w], brain') => text[w] \in {f.text : f \in Contents(brain')}
        BY DEF Whole, Contents
      <4> QED BY <4>1, <4>3, <4>4 DEF Entries
    <3>2. Memory!Tell
      BY <1>1, <1>2, <2>2, <3>1 DEF Memory!Tell
    <3> QED BY <3>2 DEF Memory!Next
  <2> QED BY <2>1, <2>2
<1>3. CASE text[w] \notin Entries(brain) /\ Entries(brain') = Entries(brain) \cup {text[w]}
  <2>1. Memory!Keep
    BY <1>1, <1>3 DEF Memory!Keep
  <2> QED BY <2>1 DEF Memory!Next
<1> QED BY <1>2, <1>3, CallCompletes

LEMMA AnsweredTells ==
  ASSUME KeptInv, NEW w \in Writers, Answered(w)
  PROVE  Memory!Tell
<1>1. /\ UNCHANGED <<brain, opened, overwritten>>
      /\ reported' = reported \cup {text[w]} /\ request[w] = "ok"
  BY DEF Answered
<1>2. text[w] \in Entries(brain) \cup overwritten
  BY <1>1, EntriesOfCopies DEF KeptInv, HeldInv, Copies
<1>3. /\ Entries(brain)' = Entries(brain)
      /\ UNCHANGED [d \in Editors |-> Entries(opened[d])]
  BY <1>1 DEF Entries, Contents, Whole
<1> QED BY <1>1, <1>2, <1>3 DEF Memory!Tell

LEMMA MemoryStep ==
  ASSUME KeptInv, KeptInv', [BrainNext]_allVars
  PROVE  [Memory!Next]_Memory!memory
<1>1. CASE UNCHANGED allVars \/ Lifecycle
  BY <1>1, SameMemory DEF allVars, brainVars, history, Lifecycle, LoseRequests
<1>2. ASSUME NEW w \in Writers, Ask(w) \/ FallBack(w) \/ TakeLock(w) \/ Interrupt(w)
      PROVE  UNCHANGED Memory!memory
  BY <1>2, SameMemory DEF Ask, FallBack, TakeLock, Interrupt, history
<1>3. ASSUME NEW w \in Writers, Answered(w)
      PROVE  Memory!Next
  BY <1>3, AnsweredTells DEF Memory!Next
<1>4. ASSUME NEW w \in Writers, DirectWrite(w)
      PROVE  [Memory!Next]_Memory!memory
  <2>1. CASE NextCall(w, NoPid) /\ reported' \in {reported, reported \cup {text[w]}}
    BY <1>4, <2>1, CallKeepsMemory DEF DirectWrite
  <2>2. CASE UNCHANGED <<brain, reported>>
    BY <1>4, <2>2, SameMemory DEF DirectWrite
  <2> QED BY <1>4, <2>1, <2>2 DEF DirectWrite
<1>5. ASSUME NEW w \in Writers, DaemonWrite(w)
      PROVE  [Memory!Next]_Memory!memory
  <2>1. CASE NextCall(w, port)
    BY <1>5, <2>1, CallKeepsMemory DEF DaemonWrite
  <2>2. CASE WriteError(w)
    BY <1>5, <2>2, SameMemory DEF DaemonWrite, WriteError
  <2> QED BY <1>5, <2>1, <2>2 DEF DaemonWrite
<1>6. ASSUME NEW e \in Editors, Open(e) \/ Save(e) \/ EditRequest(e)
      PROVE  Memory!Next
  <2>1. CASE Open(e)
    BY <2>1, OpenLoads DEF Memory!Next
  <2>2. CASE \E b \in {opened[e], <<>>} : Replace(e, b)
    BY <2>2, ReplaceSaves DEF Memory!Next
  <2> QED BY <1>6, <2>1, <2>2 DEF Save, EditRequest
<1> QED BY <1>1, <1>2, <1>3, <1>4, <1>5, <1>6 DEF BrainNext, AppendStep, DaemonStep

\* Whatever calls, crashes, lost requests and saves come between, those who use
\* the file see a memory of texts (brain_append, append_brain_direct, brain_edit).
THEOREM MemoryRefinement == BrainSpec => ImplementsMemory
<1>1. BrainInit => Memory!Init
  BY NothingInIt DEF BrainInit, Memory!Init
<1>2. KeptInv /\ KeptInv' /\ [BrainNext]_allVars => [Memory!Next]_Memory!memory
  BY MemoryStep
<1> QED BY <1>1, <1>2, KeptInvariant, PTL DEF BrainSpec, ImplementsMemory, Memory!Spec

------------------------------------------------------------------------------
(* The types of the memory *)

\* An editor that has the file open has calls of it.
FragmentInv ==
  /\ brain \in Seq(Fragment)
  /\ \A e \in Editors : opened[e] # NotOpen => opened[e] \in Seq(Fragment)

\* Who still writes a text has not made its third call.
PaceInv ==
  /\ appends <= MaxAppends
  /\ written \in [Writers -> 0 .. 3]
  /\ \A w \in Writers : wpc[w] = "direct" \/ request[w] = "writing" => written[w] <= 2
  /\ lock \in Writers \cup {Nobody}
  /\ \A w \in Writers : lock = w => request[w] = "writing"

ToldInv == reported \cup overwritten \cup disturbed \subseteq 1 .. appends

TypeInv == MemoryInv /\ ServicesTypeOK /\ FragmentInv /\ PaceInv /\ ToldInv

LEMMA TypeInit == BrainInit => TypeInv
<1> SUFFICES ASSUME BrainInit PROVE TypeInv
  OBVIOUS
<1>1. MemoryInv
  BY MemoryInit
<1>2. ServicesTypeOK
  BY ServicesAssumption DEF BrainInit, ServicesInit, ServicesTypeOK, ProcState, DoingState
<1>3. FragmentInv
  BY DEF BrainInit, FragmentInv
<1>4. PaceInv
  BY BrainAssumption DEF BrainInit, PaceInv
<1>5. ToldInv
  BY DEF BrainInit, ToldInv
<1> QED BY <1>1, <1>2, <1>3, <1>4, <1>5 DEF TypeInv

\* The number of a text that has been begun.
LEMMA BegunText ==
  ASSUME MemoryInv, NEW w \in Writers, text[w] # 0
  PROVE  text[w] \in 1 .. appends
BY DEF MemoryInv, WriterTypes, WriterInv

\* A step that makes no call and begins no text.
LEMMA QuietTyped ==
  ASSUME TypeInv, MemoryInv',
         UNCHANGED <<brain, opened, text, appends, overwritten>>,
         reported' \cup disturbed' \subseteq
           reported \cup disturbed \cup {text[w] : w \in {v \in Writers : text[v] # 0}}
  PROVE  FragmentInv' /\ ToldInv'
<1>1. FragmentInv'
  BY DEF TypeInv, FragmentInv
<1>2. \A w \in Writers : text[w] # 0 => text[w] \in 1 .. appends
  BY BegunText DEF TypeInv
<1>3. ToldInv'
  BY <1>2 DEF TypeInv, ToldInv
<1> QED BY <1>1, <1>3

LEMMA LifecycleTyped ==
  ASSUME TypeInv, MemoryInv', Lifecycle
  PROVE  TypeInv'
<1>1. ServicesTypeOK'
  BY ServicesTypesKept DEF TypeInv, Lifecycle
<1>2. CASE LoseRequests
  <2>1. /\ lock' = Nobody
        /\ UNCHANGED <<brain, opened, wpc, text, written, appends, reported, overwritten>>
        /\ disturbed' = disturbed \cup {text[w] : w \in {v \in Writers : InDaemon(v)}}
    BY <1>2 DEF LoseRequests, bounds
  <2>2. \A w \in Writers : InDaemon(w) => text[w] # 0
    BY DEF TypeInv, MemoryInv, WriterInv
  <2>3. FragmentInv' /\ ToldInv'
    BY <2>1, <2>2, QuietTyped
  <2>4. \A w \in Writers : request'[w] # "writing"
    BY <1>2 DEF LoseRequests, InDaemon
  <2>5. PaceInv'
    BY <2>1, <2>4, BrainAssumption DEF TypeInv, PaceInv
  <2> QED BY <1>1, <2>3, <2>5 DEF TypeInv
<1>3. CASE UNCHANGED brainVars
  <2>1. UNCHANGED <<brain, opened, lock, wpc, request, text, written, appends,
                    reported, overwritten, disturbed>>
    BY <1>3 DEF brainVars, writerVars, bounds, history
  <2>2. FragmentInv' /\ ToldInv'
    BY <2>1, QuietTyped
  <2>3. PaceInv'
    BY <2>1 DEF TypeInv, PaceInv
  <2> QED BY <1>1, <2>2, <2>3 DEF TypeInv
<1> QED BY <1>2, <1>3 DEF Lifecycle

LEMMA AskTyped ==
  ASSUME TypeInv, MemoryInv', NEW w \in Writers, Ask(w)
  PROVE  TypeInv'
<1>1. /\ appends < MaxAppends /\ appends' = appends + 1
      /\ UNCHANGED <<serviceVars, brain, opened, lock, reported, overwritten, disturbed>>
      /\ wpc' = [wpc EXCEPT ![w] = "asking"]
      /\ written' = [written EXCEPT ![w] = 0]
      /\ request[w] = "none"
      /\ request' \in {[request EXCEPT ![w] = "waiting"], [request EXCEPT ![w] = "error"]}
  BY DEF Ask, history
<1>2. /\ appends \in Nat
      /\ request \in [Writers -> {"none", "waiting", "writing", "ok", "error"}]
      /\ wpc \in [Writers -> {"idle", "asking", "direct"}]
  BY DEF TypeInv, MemoryInv, WriterTypes
<1>3. ServicesTypeOK'
  BY <1>1 DEF TypeInv, ServicesTypeOK, serviceVars
<1>4. FragmentInv' /\ ToldInv'
  BY <1>1, <1>2 DEF TypeInv, FragmentInv, ToldInv
<1>5. appends' <= MaxAppends
  BY <1>1, <1>2, BrainAssumption
<1>6. PaceInv'
  BY <1>1, <1>2, <1>5 DEF TypeInv, PaceInv
<1> QED BY <1>3, <1>4, <1>6 DEF TypeInv

LEMMA QuietWriterTyped ==
  ASSUME TypeInv, MemoryInv', NEW w \in Writers,
         Answered(w) \/ FallBack(w) \/ TakeLock(w) \/ Interrupt(w)
  PROVE  TypeInv'
<1>1. /\ UNCHANGED <<brain, opened, text, appends, overwritten, disturbed>>
      /\ reported' \in {reported, reported \cup {text[w]}}
      /\ reported' # reported => wpc[w] # "idle"
  BY DEF Answered, FallBack, TakeLock, Interrupt, bounds, history
<1>2. WriterTypes /\ WriterInv
  BY DEF TypeInv, MemoryInv
<1>3. FragmentInv' /\ ToldInv'
  BY <1>1, <1>2, QuietTyped DEF WriterInv
<1>4. ServicesTypeOK'
  BY DEF TypeInv, ServicesTypeOK, serviceVars, Answered, FallBack, TakeLock, Interrupt
<1>5. PaceInv'
  <2>1. CASE Answered(w) \/ FallBack(w)
    BY <1>2, <2>1 DEF TypeInv, PaceInv, WriterTypes, Answered, FallBack, Finish, bounds
  <2>2. CASE TakeLock(w)
    BY <1>2, <2>2, BrainAssumption
       DEF TypeInv, PaceInv, WriterTypes, WriterInv, TakeLock, lock_free, bounds
  <2>3. CASE Interrupt(w)
    BY <1>2, <2>3 DEF TypeInv, PaceInv, WriterTypes, Interrupt, Finish
  <2> QED BY <2>1, <2>2, <2>3
<1> QED BY <1>3, <1>4, <1>5 DEF TypeInv

LEMMA CallTyped ==
  ASSUME TypeInv, NEW w \in Writers, NEW by \in Pids \cup {NoPid},
         NextCall(w, by), text[w] # 0, written[w] <= 2, opened' = opened
  PROVE  FragmentInv' /\ written' = [written EXCEPT ![w] = written[w] + 1]
         /\ written' \in [Writers -> 0 .. 3]
<1>1. written \in [Writers -> 0 .. 3] /\ appends <= MaxAppends /\ appends \in Nat
  BY DEF TypeInv, PaceInv, MemoryInv, WriterTypes
<1>2. written' = [written EXCEPT ![w] = written[w] + 1]
  BY DEF NextCall
<1>3. text[w] \in 1 .. MaxAppends
  BY <1>1, BegunText, BrainAssumption DEF TypeInv
<1>4. [text |-> text[w], part |-> written[w] + 1, by |-> by] \in Fragment
  BY <1>1, <1>3 DEF Fragment
<1>5. brain' \in Seq(Fragment)
  BY <1>4 DEF NextCall, TypeInv, FragmentInv
<1>6. FragmentInv'
  BY <1>5 DEF TypeInv, FragmentInv
<1> QED BY <1>1, <1>2, <1>6

LEMMA DirectTyped ==
  ASSUME TypeInv, MemoryInv', NEW w \in Writers, DirectWrite(w)
  PROVE  TypeInv'
<1>1. /\ WriterTypes /\ WriterInv /\ wpc[w] = "direct" /\ text[w] # 0 /\ written[w] <= 2
      /\ UNCHANGED <<serviceVars, lock, request, text, opened, appends, overwritten, disturbed>>
      /\ reported' \in {reported, reported \cup {text[w]}}
  BY DEF TypeInv, MemoryInv, WriterInv, PaceInv, DirectWrite
<1>2. ServicesTypeOK'
  BY <1>1 DEF TypeInv, ServicesTypeOK, serviceVars
<1>3. text[w] \in 1 .. appends
  BY <1>1, BegunText DEF TypeInv
<1>4. ToldInv'
  BY <1>1, <1>3 DEF TypeInv, ToldInv
<1>5. request[w] = "none"
  BY <1>1 DEF WriterInv
<1>6. CASE /\ NextCall(w, NoPid)
           /\ IF written[w] = 2 THEN Finish(w) ELSE UNCHANGED wpc
  <2>1. /\ FragmentInv' /\ written' = [written EXCEPT ![w] = written[w] + 1]
        /\ written' \in [Writers -> 0 .. 3]
    BY <1>1, <1>6, CallTyped
  <2>2. written[w] \in 0 .. 3 /\ \A v \in Writers : written[v] \in Int
    BY DEF TypeInv, PaceInv
  <2>3. PaceInv'
    BY <1>1, <1>5, <1>6, <2>1, <2>2 DEF TypeInv, PaceInv, WriterTypes, Finish
  <2> QED BY <1>2, <1>4, <2>1, <2>3 DEF TypeInv
<1>7. CASE UNCHANGED <<brain, written>> /\ Finish(w)
  <2>1. FragmentInv' /\ PaceInv'
    BY <1>1, <1>7 DEF TypeInv, FragmentInv, PaceInv, WriterTypes, Finish
  <2> QED BY <1>2, <1>4, <2>1 DEF TypeInv
<1> QED BY <1>6, <1>7 DEF DirectWrite

LEMMA DaemonTyped ==
  ASSUME TypeInv, MemoryInv', NEW w \in Writers, DaemonWrite(w)
  PROVE  TypeInv'
<1>1. /\ WriterTypes /\ WriterInv /\ request[w] = "writing" /\ text[w] # 0 /\ written[w] <= 2
      /\ UNCHANGED <<serviceVars, wpc, text, opened, appends, reported, overwritten>>
      /\ disturbed' \in {disturbed, disturbed \cup {text[w]}}
  BY DEF TypeInv, MemoryInv, WriterInv, PaceInv, InDaemon, DaemonWrite, WriteError
<1>2. ServicesTypeOK'
  BY <1>1 DEF TypeInv, ServicesTypeOK, serviceVars
<1>3. text[w] \in 1 .. appends
  BY <1>1, BegunText DEF TypeInv
<1>4. ToldInv'
  BY <1>1, <1>3 DEF TypeInv, ToldInv
<1>5. wpc[w] # "direct" /\ lock = w
  BY <1>1 DEF WriterInv
<1>6. CASE /\ NextCall(w, port)
           /\ IF written[w] = 2 THEN Respond(w, "ok") ELSE UNCHANGED <<lock, request>>
  <2>1. PICK p \in Pids \cup {NoPid} : p = port
    BY <1>1 DEF WriterTypes
  <2>2. /\ FragmentInv' /\ written' = [written EXCEPT ![w] = written[w] + 1]
        /\ written' \in [Writers -> 0 .. 3]
    BY <1>1, <1>6, <2>1, CallTyped
  <2>3. written[w] \in 0 .. 3 /\ \A v \in Writers : written[v] \in Int
    BY DEF TypeInv, PaceInv
  <2>4. PaceInv'
    <3>1. CASE written[w] = 2
      BY <1>1, <1>5, <1>6, <2>2, <2>3, <3>1, BrainAssumption
         DEF TypeInv, PaceInv, WriterTypes, WriterInv, Respond
    <3>2. CASE written[w] # 2
      BY <1>1, <1>5, <1>6, <2>2, <2>3, <3>2 DEF TypeInv, PaceInv, WriterTypes
    <3> QED BY <3>1, <3>2
  <2> QED BY <1>2, <1>4, <2>2, <2>4 DEF TypeInv
<1>7. CASE WriteError(w)
  <2>1. FragmentInv'
    BY <1>1, <1>7 DEF TypeInv, FragmentInv, WriteError
  <2>2. PaceInv'
    BY <1>1, <1>5, <1>7, BrainAssumption
       DEF TypeInv, PaceInv, WriterTypes, WriterInv, WriteError, Respond
  <2> QED BY <1>2, <1>4, <2>1, <2>2 DEF TypeInv
<1> QED BY <1>6, <1>7 DEF DaemonWrite

\* A save removes texts that have been begun, and no others.
LEMMA EditorsTyped ==
  ASSUME TypeInv, MemoryInv', NEW e \in Editors, Open(e) \/ Save(e) \/ EditRequest(e)
  PROVE  TypeInv'
<1>1. UNCHANGED <<serviceVars, lock, wpc, request, written, appends, reported, disturbed>>
  BY DEF Open, Save, EditRequest, Replace, history, writerVars
<1>2. ServicesTypeOK'
  BY <1>1 DEF TypeInv, ServicesTypeOK, serviceVars
<1>3. PaceInv'
  BY <1>1 DEF TypeInv, PaceInv
<1>4. WriterTypes
  BY DEF TypeInv, MemoryInv
<1>5. CASE Open(e)
  BY <1>1, <1>2, <1>3, <1>4, <1>5
     DEF TypeInv, FragmentInv, ToldInv, WriterTypes, Open, history
<1>6. ASSUME NEW b \in {opened[e], <<>>}, Replace(e, b)
      PROVE  TypeInv'
  <2>1. /\ brain' = b /\ opened' = [opened EXCEPT ![e] = NotOpen] /\ opened[e] # NotOpen
        /\ overwritten' = overwritten \cup {f.text : f \in Contents(brain) \ Contents(b)}
    BY <1>6 DEF Replace
  <2>2. FragmentInv'
    <3>1. b \in Seq(Fragment)
      <4>1. <<>> \in Seq(Fragment)
        OBVIOUS
      <4> QED BY <1>6, <2>1, <4>1 DEF TypeInv, FragmentInv
    <3>2. \A x \in Editors :
            opened'[x] # NotOpen => opened[x] # NotOpen /\ opened'[x] = opened[x]
      BY <1>4, <2>1 DEF WriterTypes
    <3> QED BY <2>1, <3>1, <3>2 DEF TypeInv, FragmentInv
  <2>3. \A i \in DOMAIN brain : brain[i].text \in 1 .. appends
    <3>1. CopyInv(brain)
      BY DEF TypeInv, MemoryInv, Copies
    <3>2. \A i \in DOMAIN brain : brain[i] \in Fragment
      BY DEF TypeInv, FragmentInv
    <3> QED BY <1>4, <3>1, <3>2 DEF CopyInv, Fragment, WriterTypes
  <2>4. ToldInv'
    BY <1>1, <2>1, <2>3 DEF TypeInv, ToldInv, Contents
  <2> QED BY <1>2, <1>3, <2>2, <2>4 DEF TypeInv
<1> QED BY <1>5, <1>6 DEF Save, EditRequest

LEMMA TypeKept ==
  ASSUME TypeInv, [BrainNext]_allVars
  PROVE  TypeInv'
<1>1. MemoryInv'
  BY MemoryKept DEF TypeInv
<1>2. CASE UNCHANGED allVars
  BY <1>1, <1>2 DEF allVars, serviceVars, brainVars, writerVars, bounds, history, TypeInv,
    ServicesTypeOK, FragmentInv, PaceInv, ToldInv
<1> QED BY <1>1, <1>2, LifecycleTyped, AskTyped, QuietWriterTyped, DirectTyped, DaemonTyped,
    EditorsTyped DEF BrainNext, AppendStep, DaemonStep

\* For any number of writers and editors, whatever fails: the file is made of
\* calls and nothing else, no text has more than three of one attempt, the
\* lock's holder is the request that writes, and no request outlives its daemon.
THEOREM BrainTypes == BrainSpec => []BrainTypeOK
<1>1. TypeInv => BrainTypeOK
  BY DEF TypeInv, MemoryInv, WriterTypes, WriterInv, FragmentInv, PaceInv, ToldInv, BrainTypeOK
<1> QED BY <1>1, TypeInit, TypeKept, PTL DEF BrainSpec
=============================================================================
