---------------------------- MODULE TargetProofs ----------------------------
(***************************************************************************)
(* The agent rows of module Failover: an executor works on a row nobody    *)
(* else works on or records, and rows keep their identity.  Then the same  *)
(* beside the callers of module Daemon, whose requests are charged to rows *)
(* of the process they came from, and give it a second row only in a race. *)
(***************************************************************************)
EXTENDS Daemon, FailoverProofs, FoldProofs

\* The row an executor holds is of the kind it was asked for, and has no pid
\* until that executor writes it.
HeldRows ==
  \A x \in Holding :
    LET t == task[x].new_agent_id IN
    /\ t \in DOMAIN agents
    /\ agents[t].kind = task[x].to_kind
    /\ agents[t].spawned_by = "handoff"
    /\ pc[x] \in {"spawn", "update_pid"} => agents[t].pid = NoPid

TargetInv == TargetsUnique /\ HeldRows

\* What no statement on the table changes in an existing row.
SameRows(S) ==
  /\ DOMAIN agents \subseteq DOMAIN agents'
  /\ \A a \in DOMAIN agents :
       /\ agents'[a].kind = agents[a].kind
       /\ agents'[a].spawned_by = agents[a].spawned_by
       /\ agents'[a].started_at = agents[a].started_at
       /\ agents[a].status # "running" => agents'[a].status # "running"
       /\ a \in S => agents'[a].pid = agents[a].pid

\* Executor x goes on with the row it has, or has none.
Keeps(x) ==
  \/ x \notin Holding'
  \/ /\ x \in Holding
     /\ task'[x].new_agent_id = task[x].new_agent_id
     /\ task'[x].to_kind = task[x].to_kind
     /\ pc'[x] \in {"spawn", "update_pid"} => pc[x] \in {"spawn", "update_pid"}

Undisturbed ==
  /\ UNCHANGED handoffs
  /\ SameRows(DOMAIN agents)
  /\ \A x \in Exec : Keeps(x)

LEMMA InitTarget == Init => TargetInv
  BY DEF Init, StorageInit, TargetInv, TargetsUnique, HeldRows, Holding, ExecutorOnly

LEMMA UndisturbedStep ==
  ASSUME TargetInv, Undisturbed
  PROVE  TargetInv'
<1>1. \A x \in Exec : x \in Holding' =>
        /\ x \in Holding
        /\ task'[x].new_agent_id = task[x].new_agent_id
        /\ task'[x].to_kind = task[x].to_kind
        /\ pc'[x] \in {"spawn", "update_pid"} => pc[x] \in {"spawn", "update_pid"}
  BY DEF Undisturbed, Keeps
<1>2. Holding' \subseteq Exec /\ Holding \subseteq Exec
  BY DEF Holding
<1>3. HeldRows'
  BY <1>1, <1>2 DEF HeldRows, Undisturbed, SameRows, TargetInv
<1>4. TargetsUnique'
  BY <1>1, <1>2 DEF TargetsUnique, Undisturbed, SameRows, TargetInv
<1>5. QED
  BY <1>3, <1>4 DEF TargetInv

\* Appending a row or changing a status leaves all pids as they are.
LEMMA InsertRows ==
  ASSUME DbTypeOK, NEW kind, NEW pid, NEW by, insert_agent(kind, pid, by)
  PROVE  /\ SameRows(DOMAIN agents)
         /\ next_agent_id \notin DOMAIN agents
         /\ next_agent_id \in DOMAIN agents'
         /\ next_agent_id # NoRow
         /\ agents'[next_agent_id].kind = kind
         /\ agents'[next_agent_id].spawned_by = by
         /\ agents'[next_agent_id].pid = pid
<1> DEFINE row == [kind |-> kind, pid |-> pid, spawned_by |-> by,
                   status |-> "running", started_at |-> now]
<1>1. agents' = Append(agents, row)
  BY DEF insert_agent
<1>2. /\ DOMAIN agents = 1 .. Len(agents)
      /\ DOMAIN agents' = 1 .. Len(agents) + 1
      /\ agents'[Len(agents) + 1] = row
      /\ \A a \in DOMAIN agents : agents'[a] = agents[a]
  BY <1>1 DEF DbTypeOK
<1>3. Len(agents) \in Nat
  BY DEF DbTypeOK
<1>4. QED
  BY <1>2, <1>3 DEF SameRows, next_agent_id, NoRow

LEMMA StopRows ==
  ASSUME DbTypeOK, NEW id, NEW s \in {"stopped", "failed"}, mark_agent_stopped(id, s)
  PROVE  SameRows(DOMAIN agents)
<1>1. CASE agents' = agents
  BY <1>1 DEF SameRows
<1>2. CASE id \in DOMAIN agents /\ agents' = [agents EXCEPT ![id].status = s]
  <2>1. \A a \in DOMAIN agents : agents[a] \in AgentRow
    BY DEF DbTypeOK
  <2>2. DOMAIN agents' = DOMAIN agents
    BY <1>2
  <2>3. \A a \in DOMAIN agents : a # id => agents'[a] = agents[a]
    BY <1>2
  <2>4. agents'[id] = [agents[id] EXCEPT !.status = s]
    BY <1>2
  <2>5. /\ agents'[id].kind = agents[id].kind
        /\ agents'[id].spawned_by = agents[id].spawned_by
        /\ agents'[id].started_at = agents[id].started_at
        /\ agents'[id].status = s
        /\ agents'[id].pid = agents[id].pid
    BY <1>2, <2>1, <2>4 DEF AgentRow
  <2>6. QED
    BY <2>2, <2>3, <2>5 DEF SameRows
<1>3. QED
  BY <1>1, <1>2 DEF mark_agent_stopped

LEMMA UpdateRows ==
  ASSUME DbTypeOK, NEW id, NEW pid, update_agent_pid(id, pid)
  PROVE  SameRows(DOMAIN agents \ {id})
<1>1. \A a \in DOMAIN agents : agents[a] \in AgentRow
  BY DEF DbTypeOK
<1>2. DOMAIN agents' = DOMAIN agents
  BY DEF update_agent_pid
<1>3. \A a \in DOMAIN agents : a # id => agents'[a] = agents[a]
  BY DEF update_agent_pid
<1>4. id \in DOMAIN agents => agents'[id] = [agents[id] EXCEPT !.pid = pid]
  BY DEF update_agent_pid
<1>5. id \in DOMAIN agents => /\ agents'[id].kind = agents[id].kind
                              /\ agents'[id].spawned_by = agents[id].spawned_by
                              /\ agents'[id].started_at = agents[id].started_at
                              /\ agents'[id].status = agents[id].status
  BY <1>1, <1>4 DEF AgentRow
<1>6. QED
  BY <1>2, <1>3, <1>5 DEF SameRows

------------------------------------------------------------------------------
(* Every step disturbs nothing, inserts a target, writes its pid or records *)
(* the handoff.                                                             *)

TargetStep(x) == InsertTarget(x) \/ UpdatePid(x) \/ RecordHandoff(x)

LEMMA OthersKeep ==
  ASSUME TypeOK, NEW x \in Exec, NEW y \in Exec, x # y,
         UNCHANGED <<pc[y], task[y]>>
  PROVE  Keeps(y)
  BY DEF Keeps, Holding, ExecutorOnly, PC

LEMMA ExecuteKinds ==
  \A x \in Exec : TypeOK /\ (Execute(x) \/ CancelManual(x)) =>
                    Undisturbed \/ TargetStep(x)
<1> SUFFICES ASSUME NEW x \in Exec, TypeOK, Execute(x) \/ CancelManual(x),
                    ~TargetStep(x)
             PROVE  Undisturbed
  OBVIOUS
<1>1. pc \in [Exec -> PC] /\ task \in [Exec -> Task \cup {NoTask}]
  BY DEF TypeOK, TaskTypeOK
<1>2. pc[x] \in ExecutorOnly /\ UNCHANGED <<agents, handoffs>>
  BY DEF Execute, Proceed, TargetStep, TakeSnapshot, Summarize, CancelManual,
         WriteSnapshot, SpawnStarts, SpawnSkipped, SpawnFails, ExecutorOnly, PC,
         dbVars
<1>3. task[x] \in Task
  BY <1>2 DEF TypeOK, TaskTypeOK
<1>4. \/ Leave(x)
      \/ /\ \E l \in ExecutorOnly : /\ Goto(x, l)
                                    /\ l \in {"spawn", "update_pid"} => pc[x] = "spawn"
         /\ UNCHANGED task \/ \E p : task' = [task EXCEPT ![x].new_pid = p]
  BY DEF Execute, Proceed, TargetStep, TakeSnapshot, Summarize, CancelManual,
         WriteSnapshot, SpawnStarts, SpawnSkipped, SpawnFails, ExecutorOnly, PC,
         Fails
<1>5. \A y \in Exec \ {x} : pc'[y] = pc[y] /\ task'[y] = task[y]
  BY <1>1, <1>4 DEF Leave, Goto
<1>6. ASSUME Leave(x)
      PROVE  Keeps(x)
  BY <1>1, <1>6 DEF Leave, Keeps, Holding, ExecutorOnly
<1>7. ASSUME NEW l \in ExecutorOnly, Goto(x, l),
             l \in {"spawn", "update_pid"} => pc[x] = "spawn",
             task'[x].new_agent_id = task[x].new_agent_id,
             task'[x].to_kind = task[x].to_kind
      PROVE  Keeps(x)
  BY <1>1, <1>2, <1>7 DEF Goto, Keeps, Holding
<1>8. ASSUME NEW p, task' = [task EXCEPT ![x].new_pid = p]
      PROVE  /\ task'[x].new_agent_id = task[x].new_agent_id
             /\ task'[x].to_kind = task[x].to_kind
  BY <1>1, <1>3, <1>8 DEF Task
<1>9. Keeps(x)
  BY <1>4, <1>6, <1>7, <1>8
<1>10. \A y \in Exec : Keeps(y)
  BY <1>5, <1>9, OthersKeep
<1>11. QED
  BY <1>2, <1>10 DEF Undisturbed, SameRows

LEMMA StepKindsOfRows ==
  TypeOK /\ [Next]_vars => Undisturbed \/ \E x \in Exec : TargetStep(x)
<1> SUFFICES ASSUME TypeOK, [Next]_vars, \A x \in Exec : ~TargetStep(x)
             PROVE  Undisturbed
  OBVIOUS
<1>1. /\ pc \in [Exec -> PC] /\ task \in [Exec -> Task \cup {NoTask}]
      /\ Engine \in Exec /\ Manual \subseteq Exec
  BY DEF TypeOK, TaskTypeOK, Exec
<1>2. CASE \E x \in Exec : Execute(x) \/ CancelManual(x)
  BY <1>2, ExecuteKinds
\* What follows touches one task and no row ...
<1>3. ASSUME NEW x \in Exec, UNCHANGED <<agents, handoffs>>, x \notin Holding',
             \A y \in Exec \ {x} : pc'[y] = pc[y] /\ task'[y] = task[y]
      PROVE  Undisturbed
  BY <1>3, OthersKeep DEF Undisturbed, Keeps, SameRows
\* ... or no task.
<1>4. ASSUME UNCHANGED <<handoffs, pc, task>>, SameRows(DOMAIN agents)
      PROVE  Undisturbed
  BY <1>4 DEF Undisturbed, Keeps, Holding
<1>5. CASE Receive \/ ReadSample \/ Decline
  <2>1. UNCHANGED <<agents, handoffs>>
    BY <1>5 DEF Receive, ReadSample, Decline, dbVars
  <2>2. Engine \notin Holding'
    BY <1>1, <1>5 DEF Receive, ReadSample, Decline, AllSampled, Holding, ExecutorOnly
  <2>3. \A y \in Exec \ {Engine} : pc'[y] = pc[y] /\ task'[y] = task[y]
    BY <1>1, <1>5 DEF Receive, ReadSample, Decline
  <2>4. QED
    BY <1>1, <1>3, <2>1, <2>2, <2>3
<1>6. CASE Fire
  <2>1. UNCHANGED <<agents, handoffs>>
    BY <1>6 DEF Fire, dbVars
  <2>2. task'[Engine].new_agent_id = NoRow
    BY <1>1, <1>6 DEF Fire
  <2>3. \A y \in Exec \ {Engine} : pc'[y] = pc[y] /\ task'[y] = task[y]
    BY <1>1, <1>6 DEF Fire
  <2>4. QED
    BY <1>1, <1>3, <2>1, <2>2, <2>3 DEF Holding
<1>7. ASSUME NEW x \in Manual, NEW from, NEW k, NEW spawn,
             StartManual(x, from, k, spawn)
      PROVE  Undisturbed
  <2>1. UNCHANGED <<agents, handoffs>>
    BY <1>7 DEF StartManual, dbVars
  <2>2. task'[x].new_agent_id = NoRow
    BY <1>1, <1>7 DEF StartManual
  <2>3. \A y \in Exec \ {x} : task'[y] = task[y]
    BY <1>1, <1>7 DEF StartManual
  <2>4. \A y \in Exec \ {x} : pc'[y] = pc[y]
    BY <1>1, <1>7 DEF StartManual
  <2>5. QED
    BY <1>1, <1>3, <2>1, <2>2, <2>3, <2>4 DEF Holding
<1>8. CASE Environment
  <2>1. DbTypeOK
    BY DEF TypeOK
  <2>2. UNCHANGED agents => SameRows(DOMAIN agents)
    BY DEF SameRows
  <2>3. ASSUME NEW e, Offer(e) PROVE Undisturbed
    BY <1>4, <2>2, <2>3 DEF Offer, dbVars
  <2>4. ASSUME NEW k, Register(k, NoPid, "user") PROVE Undisturbed
    BY <1>4, <2>1, <2>4, InsertRows DEF Register, memVars
  <2>5. ASSUME NEW a, StopAgent(a, "stopped") PROVE Undisturbed
    BY <1>4, <2>1, <2>5, StopRows DEF StopAgent, memVars
  <2>6. ASSUME NEW a, NEW t, StoreSample(a, t) PROVE Undisturbed
    BY <1>4, <2>2, <2>6 DEF StoreSample, memVars
  <2>7. ASSUME NEW p, EditConfig(p) \/ ProcessExits(p) PROVE Undisturbed
    BY <1>4, <2>2, <2>7 DEF EditConfig, ProcessExits, dbVars, memVars
  <2>8. CASE TimePasses
    BY <1>4, <2>2, <2>8 DEF TimePasses, Tick, memVars
  <2>9. CASE Restart
    BY <2>2, <2>9 DEF Restart, dbVars, Undisturbed, Keeps, Holding, ExecutorOnly
  <2>10. QED
    BY <1>8, <2>3, <2>4, <2>5, <2>6, <2>7, <2>8, <2>9 DEF Environment
<1>9. CASE UNCHANGED vars
  BY <1>4, <1>9 DEF vars, dbVars, memVars, SameRows
<1>10. ASSUME NEW x \in Exec, Unwind(x)
       PROVE  Undisturbed
  <2>1. UNCHANGED <<agents, handoffs>>
    BY <1>10 DEF Unwind, dbVars
  <2>2. x \notin Holding'
    BY <1>1, <1>10 DEF Unwind, Holding, ExecutorOnly
  <2>3. \A y \in Exec \ {x} : pc'[y] = pc[y] /\ task'[y] = task[y]
    BY <1>1, <1>10 DEF Unwind
  <2>4. QED
    BY <1>3, <2>1, <2>2, <2>3
<1>11. QED
  BY <1>1, <1>2, <1>5, <1>6, <1>7, <1>8, <1>9, <1>10 DEF Next, EngineStep, Handle, ManualStep

------------------------------------------------------------------------------
(* The three steps that matter *)

LEMMA InsertTargetStep ==
  \A x \in Exec : TypeOK /\ TargetInv /\ InsertTarget(x) =>
                    TargetInv' /\ SameRows(DOMAIN agents)
<1> SUFFICES ASSUME NEW x \in Exec, TypeOK, TargetInv, InsertTarget(x)
             PROVE  TargetInv' /\ SameRows(DOMAIN agents)
  OBVIOUS
<1>1. /\ pc \in [Exec -> PC] /\ task \in [Exec -> Task \cup {NoTask}]
      /\ pc[x] \in ExecutorOnly /\ UNCHANGED handoffs
  BY DEF TypeOK, TaskTypeOK, InsertTarget, ExecutorOnly, PC
<1>2. CASE Fails(x) /\ UNCHANGED agents
  <2>1. \A y \in Exec \ {x} : pc'[y] = pc[y] /\ task'[y] = task[y]
    BY <1>1, <1>2 DEF Fails, Leave
  <2>2. x \notin Holding'
    BY <1>1, <1>2 DEF Fails, Leave, Holding, ExecutorOnly
  <2>3. Undisturbed
    BY <1>1, <1>2, <2>1, <2>2, OthersKeep DEF Undisturbed, Keeps, SameRows
  <2>4. QED
    BY <2>3, UndisturbedStep DEF Undisturbed
<1>3. CASE /\ insert_agent(task[x].to_kind, NoPid, "handoff")
           /\ task' = [task EXCEPT ![x].new_agent_id = next_agent_id]
           /\ Goto(x, "spawn")
  <2> PICK n : n = next_agent_id
    OBVIOUS
  <2>1. /\ SameRows(DOMAIN agents)
        /\ n \notin DOMAIN agents /\ n \in DOMAIN agents' /\ n # NoRow
        /\ agents'[n].kind = task[x].to_kind
        /\ agents'[n].spawned_by = "handoff"
        /\ agents'[n].pid = NoPid
    BY <1>3, InsertRows DEF TypeOK
  <2>2. task[x] \in Task
    BY <1>1 DEF TypeOK, TaskTypeOK
  <2>3. /\ task'[x].new_agent_id = n
        /\ task'[x].to_kind = task[x].to_kind
        /\ pc'[x] = "spawn"
        /\ \A y \in Exec \ {x} : pc'[y] = pc[y] /\ task'[y] = task[y]
    BY <1>1, <1>3, <2>2 DEF Goto, Task
  <2>4. \A y \in Holding' : y = x \/ y \in Holding
    BY <2>3 DEF Holding
  <2>5. \A y \in Holding : y \in Exec /\ task[y].new_agent_id \in DOMAIN agents
    BY DEF TargetInv, HeldRows, Holding
  <2>6. HeldRows'
    BY <2>1, <2>3, <2>4, <2>5 DEF HeldRows, TargetInv, SameRows
  <2>7. TargetsUnique'
    BY <1>1, <2>1, <2>3, <2>4, <2>5 DEF TargetsUnique, TargetInv, SameRows
  <2>8. QED
    BY <2>1, <2>6, <2>7 DEF TargetInv
<1>4. QED
  BY <1>2, <1>3 DEF InsertTarget

LEMMA UpdatePidStep ==
  \A x \in Exec : TypeOK /\ TargetInv /\ UpdatePid(x) =>
    /\ TargetInv'
    /\ SameRows({a \in DOMAIN agents : agents[a].pid # NoPid})
<1> SUFFICES ASSUME NEW x \in Exec, TypeOK, TargetInv, UpdatePid(x)
             PROVE  /\ TargetInv'
                    /\ SameRows({a \in DOMAIN agents : agents[a].pid # NoPid})
  OBVIOUS
<1>1. /\ pc \in [Exec -> PC] /\ task \in [Exec -> Task \cup {NoTask}]
      /\ pc[x] = "update_pid" /\ pc[x] \in ExecutorOnly /\ UNCHANGED handoffs
  BY DEF TypeOK, TaskTypeOK, UpdatePid, ExecutorOnly, PC
<1>2. CASE Fails(x) /\ UNCHANGED agents
  <2>1. \A y \in Exec \ {x} : pc'[y] = pc[y] /\ task'[y] = task[y]
    BY <1>1, <1>2 DEF Fails, Leave
  <2>2. x \notin Holding'
    BY <1>1, <1>2 DEF Fails, Leave, Holding, ExecutorOnly
  <2>3. Undisturbed
    BY <1>1, <1>2, <2>1, <2>2, OthersKeep DEF Undisturbed, Keeps, SameRows
  <2>4. QED
    BY <2>3, UndisturbedStep DEF Undisturbed, SameRows
<1>3. CASE /\ update_agent_pid(task[x].new_agent_id, task[x].new_pid)
           /\ Goto(x, "insert_handoff")
           /\ UNCHANGED task
  <2> PICK t : t = task[x].new_agent_id
    OBVIOUS
  <2>1. SameRows(DOMAIN agents \ {t})
    BY <1>3, UpdateRows DEF TypeOK
  <2>2. t \in DOMAIN agents => x \in Holding /\ agents[t].pid = NoPid
    <3>1. NoRow \notin DOMAIN agents
      BY DEF TypeOK, DbTypeOK, NoRow
    <3>2. t \in DOMAIN agents => x \in Holding
      BY <1>1, <3>1 DEF Holding
    <3>3. QED
      BY <1>1, <3>2 DEF TargetInv, HeldRows
  <2>3. pc'[x] = "insert_handoff" /\ \A y \in Exec \ {x} : pc'[y] = pc[y]
    BY <1>1, <1>3 DEF Goto
  <2>4. Holding' = Holding
    BY <1>1, <1>3, <2>3 DEF Holding, ExecutorOnly, PC
  <2>5. \A y \in Holding : y \in Exec /\ (y # x => task[y].new_agent_id # t)
    <3>1. \A y \in Holding : y \in Exec /\ task[y].new_agent_id \in DOMAIN agents
      BY DEF TargetInv, HeldRows, Holding
    <3>2. QED
      BY <2>2, <3>1 DEF TargetInv, TargetsUnique
  <2>6. HeldRows'
    BY <1>3, <2>1, <2>3, <2>4, <2>5 DEF HeldRows, TargetInv, SameRows
  <2>7. TargetsUnique'
    BY <1>1, <1>3, <2>1, <2>4 DEF TargetsUnique, TargetInv, SameRows
  <2>8. QED
    BY <2>1, <2>2, <2>6, <2>7 DEF TargetInv, SameRows
<1>4. QED
  BY <1>2, <1>3 DEF UpdatePid

LEMMA RecordStep ==
  \A x \in Exec : TypeOK /\ TargetInv /\ RecordHandoff(x) =>
                    TargetInv' /\ SameRows(DOMAIN agents)
<1> SUFFICES ASSUME NEW x \in Exec, TypeOK, TargetInv, RecordHandoff(x)
             PROVE  TargetInv' /\ SameRows(DOMAIN agents)
  OBVIOUS
<1> DEFINE row == [from_agent_id |-> task[x].from_agent_id,
                   to_agent_id   |-> task[x].new_agent_id,
                   to_kind       |-> task[x].to_kind,
                   exec          |-> x,
                   life          |-> life]
<1>1. /\ pc \in [Exec -> PC] /\ task \in [Exec -> Task \cup {NoTask}]
      /\ pc[x] \in ExecutorOnly /\ UNCHANGED agents
  BY DEF TypeOK, TaskTypeOK, RecordHandoff, ExecutorOnly, PC
<1>2. SameRows(DOMAIN agents)
  BY <1>1 DEF SameRows
<1>3. \A y \in Exec \ {x} : pc'[y] = pc[y] /\ task'[y] = task[y]
  BY <1>1 DEF RecordHandoff, Leave
<1>4. x \notin Holding'
  BY <1>1 DEF RecordHandoff, Leave, Holding, ExecutorOnly
<1>5. CASE UNCHANGED handoffs
  <2>1. Undisturbed
    BY <1>1, <1>2, <1>3, <1>4, <1>5, OthersKeep DEF Undisturbed, Keeps
  <2>2. QED
    BY <1>2, <2>1, UndisturbedStep
<1>6. CASE handoffs' = Append(handoffs, row)
  <2> PICK n : n = Len(handoffs) + 1
    OBVIOUS
  <2>1. /\ DOMAIN handoffs' = DOMAIN handoffs \cup {n}
        /\ n \notin DOMAIN handoffs
        /\ handoffs'[n] = row
        /\ \A i \in DOMAIN handoffs : handoffs'[i] = handoffs[i]
    BY <1>6 DEF TypeOK, DbTypeOK
  <2>2. \A y \in Holding' : y \in Holding /\ y # x /\ task'[y] = task[y] /\ pc'[y] = pc[y]
    BY <1>3, <1>4 DEF Holding
  <2>3. HeldRows'
    BY <1>1, <2>2 DEF HeldRows, TargetInv
  <2> DEFINE t == task[x].new_agent_id
  <2>4. t # NoRow =>
          /\ x \in Holding
          /\ t \in DOMAIN agents
          /\ agents[t].kind = task[x].to_kind
          /\ agents[t].spawned_by = "handoff"
          /\ \A i \in DOMAIN handoffs : handoffs[i].to_agent_id # t
          /\ \A y \in Holding : task[y].new_agent_id = t => y = x
    BY <1>1 DEF Holding, TargetInv, TargetsUnique, HeldRows
  <2>5. handoffs'[n].to_agent_id = t /\ handoffs'[n].to_kind = task[x].to_kind
    BY <2>1
  <2> HIDE DEF row, t
  <2>6. ASSUME NEW i \in DOMAIN handoffs', handoffs'[i].to_agent_id # NoRow
        PROVE  LET u == handoffs'[i].to_agent_id IN
               /\ u \in DOMAIN agents
               /\ agents[u].kind = handoffs'[i].to_kind
               /\ agents[u].spawned_by = "handoff"
               /\ \A j \in DOMAIN handoffs' \ {i} : handoffs'[j].to_agent_id # u
               /\ \A y \in Holding' : task'[y].new_agent_id # u
    <3>1. CASE i = n
      BY <2>1, <2>2, <2>4, <2>5, <2>6, <3>1 DEF t
    <3>2. CASE i \in DOMAIN handoffs
      <4>1. handoffs'[i] = handoffs[i]
        BY <2>1, <3>2
      <4>2. handoffs[i].to_agent_id # t
        BY <2>4, <2>6, <3>2, <4>1
      <4>3. QED
        BY <2>1, <2>2, <2>5, <2>6, <3>2, <4>1, <4>2 DEF TargetInv, TargetsUnique
    <3>3. QED
      BY <2>1, <3>1, <3>2
  <2>7. TargetsUnique'
    BY <1>1, <2>2, <2>6 DEF TargetsUnique, TargetInv
  <2>8. QED
    BY <1>2, <2>3, <2>7 DEF TargetInv
<1>7. QED
  BY <1>5, <1>6 DEF RecordHandoff, insert_handoff

------------------------------------------------------------------------------
(* The theorems *)

LEMMA NextTarget ==
  TypeOK /\ TargetInv /\ [Next]_vars =>
    /\ TargetInv'
    /\ SameRows({a \in DOMAIN agents : agents[a].pid # NoPid})
<1> SUFFICES ASSUME TypeOK, TargetInv, [Next]_vars
             PROVE  /\ TargetInv'
                    /\ SameRows({a \in DOMAIN agents : agents[a].pid # NoPid})
  OBVIOUS
<1>1. SameRows(DOMAIN agents) => SameRows({a \in DOMAIN agents : agents[a].pid # NoPid})
  BY DEF SameRows
<1>2. CASE Undisturbed
  BY <1>1, <1>2, UndisturbedStep DEF Undisturbed
<1>3. CASE \E x \in Exec : TargetStep(x)
  BY <1>1, <1>3, InsertTargetStep, UpdatePidStep, RecordStep DEF TargetStep
<1>4. QED
  BY <1>2, <1>3, StepKindsOfRows

\* For any number of concurrent manual handoffs and pids: no two handoffs
\* record or work on the same new agent row, and the row is of the kind asked
\* for.
THEOREM UniqueTargets == Spec => []TargetsUnique
<1>1. Spec => [](TypeOK /\ TargetInv)
  BY InitTarget, NextTarget, InitType, NextType, PTL DEF Spec
<1>2. TargetInv => TargetsUnique
  BY DEF TargetInv
<1>3. QED
  BY <1>1, <1>2, PTL

\* No step gives an agent row another identity or another pid, or revives it.
THEOREM IdentityKept == Spec => RowsKeepIdentity
<1>1. Spec => [](TypeOK /\ TargetInv)
  BY InitTarget, NextTarget, InitType, NextType, PTL DEF Spec
<1>2. TypeOK /\ TargetInv /\ [Next]_vars =>
        [/\ DOMAIN agents \subseteq DOMAIN agents'
         /\ \A a \in DOMAIN agents :
              /\ agents'[a].kind = agents[a].kind
              /\ agents'[a].spawned_by = agents[a].spawned_by
              /\ agents'[a].started_at = agents[a].started_at
              /\ agents[a].pid # NoPid => agents'[a].pid = agents[a].pid
              /\ agents[a].status # "running" => agents'[a].status # "running"]_agents
  BY NextTarget DEF SameRows
<1>3. QED
  BY <1>1, <1>2, PTL DEF Spec, RowsKeepIdentity

------------------------------------------------------------------------------
(* The callers of module Daemon *)

\* What a handler works on: the agent it has found or inserted is that of the
\* pid it was sent.
OneRequest(h) ==
  /\ IF hpc[h] = "idle" THEN req[h] = NoRequest ELSE req[h] \in Request
  /\ hpc[h] \in {"insert", "store"} => req[h].payload.pid # NoPid
  /\ InFlight(h) => /\ req[h].agent \in DOMAIN agents
                    /\ agents[req[h].agent].pid = req[h].payload.pid

HandlerInv ==
  /\ hpc \in [Handlers -> {"idle", "find", "insert", "store", "send"}]
  /\ req = [h \in Handlers |-> req[h]]
  /\ \A h \in Handlers : OneRequest(h)

CliInv ==
  /\ program \in [Pids -> Programs]
  /\ starting \subseteq live
  /\ \A p \in starting : program[p] \in Kinds
  /\ spawned \in [Pids -> {NoRow} \cup DOMAIN agents]
  /\ stopping \subseteq DOMAIN agents
  /\ DOMAIN counts \subseteq DOMAIN agents

LEMMA NoEventType == NoEvent \in RateEvent /\ NoValue \in OptNat
BY DEF NoEvent, RateEvent, OptNat, NoRow

LEMMA CallerSame ==
  ASSUME TypeOK,
         UNCHANGED <<handoffs, fired, initial_tokens, decision, pc, task, policy, manuals, life>>,
         now' \in Nat, agents' \in Seq(AgentRow),
         latest' \in [Kinds -> [ts : Nat, tokens : SUBSET OptNat]],
         queue' \in Seq(RateEvent), Len(queue') <= ChannelCap,
         live' \subseteq Pids, sent' \in 0 .. MaxEvents
  PROVE  TypeOK'
<1>1. DbTypeOK'
  BY DEF TypeOK, DbTypeOK
<1>2. EngineTypeOK'
  BY DEF TypeOK, EngineTypeOK, MapTypeOK
<1>3. TaskTypeOK'
  BY DEF TypeOK, TaskTypeOK
<1>4. EnvTypeOK'
  BY DEF TypeOK, EnvTypeOK
<1> QED BY <1>1, <1>2, <1>3, <1>4 DEF TypeOK

\* What the engine and the executors have of a row.
heldVars == <<handoffs, pc, task>>

\* Statements of a caller.
LEMMA CallerInserts ==
  ASSUME TypeOK, NEW kind \in Kinds, NEW pid \in Pids \cup {NoPid},
         NEW by \in {"user", "handoff"}, insert_agent(kind, pid, by),
         UNCHANGED <<now, latest, handoffs, memVars, envVars>>
  PROVE  TypeOK' /\ SameRows(DOMAIN agents) /\ UNCHANGED heldVars
<1>1. agents' \in Seq(AgentRow)
  BY InsertAgentType DEF TypeOK
<1>2. SameRows(DOMAIN agents)
  BY InsertRows DEF TypeOK
<1>3. TypeOK'
  BY <1>1, CallerSame DEF TypeOK, DbTypeOK, EngineTypeOK, EnvTypeOK, memVars, envVars
<1> QED BY <1>2, <1>3 DEF memVars, heldVars

LEMMA CallerStops ==
  ASSUME TypeOK, NEW id, NEW s \in {"stopped", "failed"}, mark_agent_stopped(id, s),
         UNCHANGED <<now, latest, handoffs, memVars, envVars>>
  PROVE  TypeOK' /\ SameRows(DOMAIN agents) /\ UNCHANGED heldVars
<1>1. agents' \in Seq(AgentRow)
  BY StopType DEF TypeOK, AgentStatus
<1>2. SameRows(DOMAIN agents)
  BY StopRows DEF TypeOK
<1>3. TypeOK'
  BY <1>1, CallerSame DEF TypeOK, DbTypeOK, EngineTypeOK, EnvTypeOK, memVars, envVars
<1> QED BY <1>2, <1>3 DEF memVars, heldVars

LEMMA CallerStores ==
  ASSUME TypeOK, NEW a \in DOMAIN agents, NEW t \in OptNat,
         insert_rate_sample(a, t) \/ UNCHANGED latest,
         UNCHANGED <<now, agents, handoffs, memVars, envVars>>
  PROVE  TypeOK' /\ SameRows(DOMAIN agents) /\ UNCHANGED heldVars
<1>1. latest' \in [Kinds -> [ts : Nat, tokens : SUBSET OptNat]]
  BY StoreType DEF TypeOK, DbTypeOK
<1>2. TypeOK'
  BY <1>1, CallerSame DEF TypeOK, DbTypeOK, EngineTypeOK, EnvTypeOK, memVars, envVars
<1> QED BY <1>2 DEF memVars, heldVars, SameRows

LEMMA CallerOffers ==
  ASSUME TypeOK, NEW e \in RateEvent, Offer(e)
  PROVE  TypeOK' /\ SameRows(DOMAIN agents) /\ UNCHANGED heldVars
<1>1. queue \in Seq(RateEvent) /\ Len(queue) \in Nat /\ ChannelCap \in Nat
  BY FailoverAssumption DEF TypeOK, EngineTypeOK
<1>2. queue' \in Seq(RateEvent) /\ Len(queue') <= ChannelCap
  BY <1>1, AppendInSeq DEF Offer, has_room
<1>3. sent' \in 0 .. MaxEvents
  BY FailoverAssumption DEF Offer, TypeOK, EnvTypeOK
<1>4. TypeOK'
  BY <1>2, <1>3, CallerSame DEF Offer, TypeOK, DbTypeOK, EnvTypeOK, dbVars
<1> QED BY <1>4 DEF Offer, dbVars, heldVars, SameRows

LEMMA CallerStarts ==
  ASSUME TypeOK, live' \subseteq Pids,
         UNCHANGED <<dbVars, memVars, policy, sent, manuals, life>>
  PROVE  TypeOK' /\ SameRows(DOMAIN agents) /\ UNCHANGED heldVars
<1>1. TypeOK'
  BY CallerSame DEF TypeOK, DbTypeOK, EngineTypeOK, EnvTypeOK, dbVars, memVars
<1> QED BY <1>1 DEF dbVars, memVars, heldVars, SameRows

\* What a caller does to the rows and the engine.
HandlerActs(h) == InsertUser(h) \/ Store(h) \/ SendEvent(h)
ProcessActs(p) ==
  \/ \E g \in Launchable : Launch(p, g)
  \/ \E g \in Spawnable : CliSpawn(p, g)
  \/ CliRegister(p) \/ Exit(p) \/ Attach(p)

LEMMA HandlerRows ==
  ASSUME TypeOK, HandlerInv, NEW h \in Handlers, HandlerActs(h)
  PROVE  TypeOK' /\ SameRows(DOMAIN agents) /\ UNCHANGED heldVars
<1>1. OneRequest(h)
  BY DEF HandlerInv
<1>2. UNCHANGED vars => TypeOK' /\ SameRows(DOMAIN agents) /\ UNCHANGED heldVars
  BY CallerStarts DEF vars, dbVars, memVars, envVars, TypeOK, EnvTypeOK
<1>3. CASE InsertUser(h)
  <2>1. req[h].payload.kind \in Kinds /\ req[h].payload.pid \in Pids \cup {NoPid}
    BY <1>1, <1>3 DEF OneRequest, InsertUser, Request, IngestPayload
  <2>2. UNCHANGED <<now, latest, handoffs, memVars, envVars>>
    BY <1>3 DEF InsertUser
  <2>3. CASE insert_agent(req[h].payload.kind, req[h].payload.pid, "user")
    <3>1. PICK k \in Kinds, p \in Pids \cup {NoPid} :
            k = req[h].payload.kind /\ p = req[h].payload.pid
      BY <2>1
    <3> QED BY <2>2, <2>3, <3>1, CallerInserts
  <2>4. CASE UNCHANGED agents
    BY <1>2, <2>2, <2>4 DEF vars, dbVars
  <2> QED BY <1>3, <2>3, <2>4 DEF InsertUser
<1>4. CASE Store(h)
  <2>1. /\ req[h].agent \in DOMAIN agents /\ req[h].payload.tokens \in OptNat
    BY <1>1, <1>4 DEF OneRequest, InFlight, Store, Request, IngestPayload
  <2>2. PICK a \in DOMAIN agents, t \in OptNat :
          a = req[h].agent /\ t = req[h].payload.tokens
    BY <2>1
  <2>3. UNCHANGED <<now, agents, handoffs, memVars, envVars>>
    BY <1>4 DEF Store
  <2>4. insert_rate_sample(a, t) \/ UNCHANGED latest
    BY <1>4, <2>2 DEF Store
  <2> QED BY <2>3, <2>4, CallerStores
<1>5. CASE SendEvent(h)
  <2>1. req[h].event \in RateEvent
    BY <1>1, <1>5 DEF OneRequest, SendEvent, Request
  <2>2. PICK e \in RateEvent : e = req[h].event
    BY <2>1
  <2>3. Offer(e) \/ UNCHANGED vars
    BY <1>5, <2>2 DEF SendEvent
  <2> QED BY <1>2, <2>3, CallerOffers
<1> QED BY <1>3, <1>4, <1>5 DEF HandlerActs

LEMMA ProcessRows ==
  ASSUME TypeOK, CliInv, NEW p \in Pids, ProcessActs(p)
  PROVE  TypeOK' /\ SameRows(DOMAIN agents) /\ UNCHANGED heldVars
<1>1. live \subseteq Pids
  BY DEF TypeOK, EnvTypeOK
<1>2. ASSUME NEW g, Launch(p, g) \/ CliSpawn(p, g)
      PROVE  TypeOK' /\ SameRows(DOMAIN agents) /\ UNCHANGED heldVars
  <2>1. live' \subseteq Pids
    BY <1>1, <1>2 DEF Launch, CliSpawn, Start
  <2> QED BY <1>2, <2>1, CallerStarts DEF Launch, CliSpawn
<1>3. CASE Exit(p)
  <2>1. live' \subseteq Pids
    BY <1>1, <1>3 DEF Exit
  <2> QED BY <1>3, <2>1, CallerStarts DEF Exit
<1>4. ASSUME NEW by \in {"user", "handoff"}, insert_agent(program[p], p, by),
             program[p] \in Kinds, UNCHANGED <<now, latest, handoffs, memVars, envVars>>
      PROVE  TypeOK' /\ SameRows(DOMAIN agents) /\ UNCHANGED heldVars
  <2>1. PICK k \in Kinds : k = program[p]
    BY <1>4
  <2> QED BY <1>4, <2>1, CallerInserts
<1>5. CASE CliRegister(p)
  <2>1. program[p] \in Kinds /\ UNCHANGED <<now, latest, handoffs, memVars, envVars>>
    BY <1>5 DEF CliRegister, CliInv
  <2>2. CASE insert_agent(program[p], p, "handoff")
    BY <1>4, <2>1, <2>2
  <2>3. CASE UNCHANGED agents
    BY <2>1, <2>3, CallerStarts DEF dbVars, envVars, TypeOK, EnvTypeOK
  <2> QED BY <1>5, <2>2, <2>3 DEF CliRegister
<1>6. CASE Attach(p)
  <2>1. program[p] \in Kinds /\ UNCHANGED <<now, latest, handoffs, memVars, envVars>>
    BY <1>6, DaemonAssumption DEF Attach
  <2> QED BY <1>4, <1>6, <2>1 DEF Attach
<1> QED BY <1>2, <1>3, <1>5, <1>6 DEF ProcessActs

LEMMA StopRow ==
  ASSUME TypeOK, NEW a, CliStop(a)
  PROVE  TypeOK' /\ SameRows(DOMAIN agents) /\ UNCHANGED heldVars
<1>1. UNCHANGED <<now, latest, handoffs, memVars, envVars>>
  BY DEF CliStop
<1>2. CASE \E s \in {"stopped", "failed"} : mark_agent_stopped(a, s)
  BY <1>1, <1>2, CallerStops
<1>3. CASE UNCHANGED agents
  BY <1>1, <1>3, CallerStarts DEF dbVars, envVars, TypeOK, EnvTypeOK
<1> QED BY <1>2, <1>3 DEF CliStop

\* What a caller leaves alone of the engine and the executors.
LEMMA CallersApart ==
  ASSUME \/ \E h \in Handlers : HandlerActs(h)
         \/ \E p \in Pids : ProcessActs(p)
         \/ \E a \in stopping : CliStop(a)
  PROVE  /\ UNCHANGED <<handoffs, fired, initial_tokens, decision, pc, task, life>>
         /\ UNCHANGED queue \/ \E e : queue' = Append(queue, e)
<1>1. ASSUME NEW h \in Handlers, InsertUser(h) \/ Store(h)
      PROVE  UNCHANGED <<handoffs, memVars, envVars>>
  BY <1>1 DEF InsertUser, Store
<1>2. ASSUME NEW h \in Handlers, SendEvent(h)
      PROVE  /\ UNCHANGED <<handoffs, fired, initial_tokens, decision, pc, task, life>>
             /\ UNCHANGED queue \/ \E e : queue' = Append(queue, e)
  BY <1>2 DEF SendEvent, Offer, vars, dbVars, memVars, envVars
<1>3. ASSUME NEW p \in Pids, ProcessActs(p)
      PROVE  UNCHANGED <<handoffs, memVars, life>>
  BY <1>3 DEF ProcessActs, Launch, CliSpawn, CliRegister, Exit, Attach, dbVars, envVars
<1>4. ASSUME NEW a, CliStop(a)
      PROVE  UNCHANGED <<handoffs, memVars, envVars>>
  BY <1>4 DEF CliStop
<1> QED BY <1>1, <1>2, <1>3, <1>4 DEF HandlerActs, memVars, envVars

\* Everything else is a step of module Failover, or leaves its state alone.
LEMMA DaemonKinds ==
  ASSUME [DaemonNext]_allVars
  PROVE  \/ [Next]_vars
         \/ \E h \in Handlers : HandlerActs(h)
         \/ \E p \in Pids : ProcessActs(p)
         \/ \E a \in stopping : CliStop(a)
<1>1. ASSUME NEW x \in Exec, ExecutorStep(x) \/ Unwind(x)
      PROVE  Next
  BY <1>1 DEF ExecutorStep, Exec, Next, EngineStep, ManualStep, Execute
<1>2. DaemonEngine => Next
  BY <1>1 DEF DaemonEngine, Exec, Next, EngineStep
<1>3. ASSUME NEW x \in Manual, DaemonManual(x)
      PROVE  Next
  <2>1. CASE CancelManual(x)
    BY <2>1 DEF Next, ManualStep
  <2>2. CASE \E from \in {NoRow, Len(agents) + 1} \cup DOMAIN agents,
               k \in Kinds, spawn \in BOOLEAN : StartManual(x, from, k, spawn)
    BY <2>2 DEF Next, ManualStep
  <2> QED BY <1>1, <1>3, <2>1, <2>2 DEF DaemonManual, Exec
<1>4. DaemonRestart => Next
  BY DEF DaemonRestart, Next, Environment
<1>5. Surroundings => \/ Next \/ \E p \in Pids : ProcessActs(p)
                      \/ \E a \in stopping : CliStop(a)
  BY DEF Surroundings, Next, Environment, ProcessActs
<1>6. Requests => UNCHANGED vars \/ \E h \in Handlers : HandlerActs(h)
  BY DEF Requests, PostIngest, PostSimulate, FindAgent, HangUp, HandlerStep, HandlerActs
<1>7. Rest \/ UNCHANGED allVars => UNCHANGED vars
  BY DEF Rest, allVars
<1> QED BY <1>2, <1>3, <1>4, <1>5, <1>6, <1>7 DEF DaemonNext

LEMMA DaemonRows ==
  ASSUME TypeOK, TargetInv, HandlerInv, CliInv, [DaemonNext]_allVars
  PROVE  /\ TypeOK' /\ TargetInv'
         /\ SameRows({a \in DOMAIN agents : agents[a].pid # NoPid})
<1>1. CASE [Next]_vars
  BY <1>1, NextType, NextTarget
<1>2. ASSUME TypeOK', SameRows(DOMAIN agents), UNCHANGED heldVars
      PROVE  /\ TypeOK' /\ TargetInv'
             /\ SameRows({a \in DOMAIN agents : agents[a].pid # NoPid})
  <2>1. Undisturbed
    BY <1>2 DEF Undisturbed, Keeps, Holding, heldVars
  <2> QED BY <1>2, <2>1, UndisturbedStep DEF SameRows
<1> QED BY <1>1, <1>2, DaemonKinds, HandlerRows, ProcessRows, StopRow

------------------------------------------------------------------------------
(* What the handlers and the commands know stays true *)

LEMMA DaemonInitInv == DaemonInit => TypeOK /\ TargetInv /\ HandlerInv /\ CliInv
<1> SUFFICES ASSUME DaemonInit PROVE TypeOK /\ TargetInv /\ HandlerInv /\ CliInv
  OBVIOUS
<1>1. TypeOK /\ TargetInv
  BY InitType, InitTarget DEF DaemonInit
<1>2. HandlerInv
  BY DEF DaemonInit, HandlerInv, OneRequest, InFlight
<1>3. (CHOOSE g \in Programs : TRUE) \in Programs
  BY DaemonAssumption
<1>4. CliInv
  BY <1>3 DEF DaemonInit, CliInv
<1> QED BY <1>1, <1>2, <1>4

LEMMA RequestsApart ==
  ASSUME NEW h \in Handlers, OneRequest(h),
         SameRows({a \in DOMAIN agents : agents[a].pid # NoPid}),
         hpc'[h] = hpc[h], req'[h] = req[h]
  PROVE  OneRequest(h)'
BY DEF OneRequest, InFlight, SameRows

\* A step of one handler.
LEMMA HandlerAlone ==
  ASSUME HandlerInv, SameRows({a \in DOMAIN agents : agents[a].pid # NoPid}),
         NEW h \in Handlers, NEW l \in {"idle", "find", "insert", "store", "send"}, NEW q,
         hpc' = [hpc EXCEPT ![h] = l], req' = [req EXCEPT ![h] = q],
         OneRequest(h)'
  PROVE  HandlerInv'
<1>1. ASSUME NEW g \in Handlers PROVE OneRequest(g)'
  <2>1. CASE g # h
    <3>1. hpc'[g] = hpc[g] /\ req'[g] = req[g]
      BY <2>1 DEF HandlerInv
    <3> QED BY <3>1, RequestsApart DEF HandlerInv
  <2> QED BY <2>1
<1> QED BY <1>1 DEF HandlerInv

LEMMA HandlerMoves ==
  ASSUME TypeOK, HandlerInv, CliInv,
         SameRows({a \in DOMAIN agents : agents[a].pid # NoPid}), NEW h \in Handlers,
         \/ \E p \in Pids : PostIngest(h, p)
         \/ PostSimulate(h) \/ HandlerStep(h) \/ HangUp(h)
  PROVE  HandlerInv'
<1>1. /\ OneRequest(h) /\ h \in DOMAIN hpc /\ h \in DOMAIN req
  BY DEF HandlerInv
<1>2. CASE Respond(h)
  <2>1. OneRequest(h)'
    BY <1>1, <1>2 DEF Respond, OneRequest, InFlight
  <2> QED BY <1>2, <2>1, HandlerAlone DEF Respond
<1>3. ASSUME NEW q \in Request, req' = [req EXCEPT ![h] = q],
             NEW l \in {"find", "insert", "store", "send"}, hpc' = [hpc EXCEPT ![h] = l],
             l \in {"insert", "store"} => q.payload.pid # NoPid,
             l \in {"store", "send"} /\ q.payload.pid # NoPid =>
               q.agent \in DOMAIN agents' /\ agents'[q.agent].pid = q.payload.pid
      PROVE  HandlerInv'
  <2>1. OneRequest(h)'
    BY <1>1, <1>3 DEF OneRequest, InFlight
  <2> QED BY <1>3, <2>1, HandlerAlone
<1>4. ASSUME NEW p \in Pids, PostIngest(h, p) PROVE HandlerInv'
  <2>1. PICK k \in Reported[program[p]], pid \in {p, NoPid}, limited \in BOOLEAN,
             sampled \in BOOLEAN, t \in TokenValues, r \in RequestValues :
          /\ req' = [req EXCEPT ![h] =
                       [payload |-> [pid |-> pid, kind |-> k, limited |-> limited,
                                     sampled  |-> sampled,
                                     tokens   |-> IF sampled THEN t ELSE NoValue,
                                     requests |-> IF sampled THEN r ELSE NoValue],
                        agent   |-> NoRow,
                        event   |-> NoEvent]]
          /\ hpc' = [hpc EXCEPT ![h] = "find"]
    BY <1>4, Zenon DEF PostIngest
  <2>2. k \in Kinds
    BY DaemonAssumption DEF CliInv
  <2>3. t \in OptNat /\ r \in OptNat
    BY FailoverAssumption
  <2>4. [payload |-> [pid |-> pid, kind |-> k, limited |-> limited,
                      sampled  |-> sampled,
                      tokens   |-> IF sampled THEN t ELSE NoValue,
                      requests |-> IF sampled THEN r ELSE NoValue],
         agent   |-> NoRow,
         event   |-> NoEvent] \in Request
    BY <2>2, <2>3, NoEventType DEF Request, IngestPayload, NoRow
  <2> QED BY <1>3, <2>1, <2>4
<1>5. CASE PostSimulate(h)
  <2>1. PICK a \in {Len(agents) + 1} \cup DOMAIN agents, t \in TokenValues, r \in RequestValues :
          req' = [req EXCEPT ![h] =
                    [payload |-> [pid |-> NoPid, kind |-> CHOOSE k \in Kinds : TRUE,
                                  limited |-> FALSE, sampled |-> FALSE,
                                  tokens |-> NoValue, requests |-> NoValue],
                     agent   |-> a,
                     event   |-> [agent_id |-> a, kind |-> Simulated,
                                  tokens_remaining |-> t, requests_remaining |-> r]]]
    BY <1>5 DEF PostSimulate
  <2> DEFINE q == [payload |-> [pid |-> NoPid, kind |-> CHOOSE k \in Kinds : TRUE,
                                limited |-> FALSE, sampled |-> FALSE,
                                tokens |-> NoValue, requests |-> NoValue],
                   agent   |-> a,
                   event   |-> [agent_id |-> a, kind |-> Simulated,
                                tokens_remaining |-> t, requests_remaining |-> r]]
  <2>2. a \in Nat /\ t \in OptNat /\ r \in OptNat /\ NoValue \in OptNat
    BY FailoverAssumption, NoEventType DEF TypeOK, DbTypeOK
  <2>3. (CHOOSE k \in Kinds : TRUE) \in Kinds
    BY DaemonAssumption
  <2>4. q.event \in RateEvent /\ q.payload \in IngestPayload
    BY <2>2, <2>3 DEF RateEvent, IngestPayload
  <2>5. q \in Request /\ q.payload.pid = NoPid
    BY <2>2, <2>4 DEF Request
  <2>6. hpc' = [hpc EXCEPT ![h] = "send"]
    BY <1>5 DEF PostSimulate
  <2> HIDE DEF q
  <2>7. req' = [req EXCEPT ![h] = q]
    BY <2>1 DEF q
  <2> QED BY <1>3, <2>5, <2>6, <2>7
<1>6. CASE FindAgent(h)
  <2> DEFINE p == req[h].payload.pid
  <2>1. req[h] \in Request /\ UNCHANGED agents
    BY <1>1, <1>6 DEF OneRequest, FindAgent, vars, dbVars
  <2>2. CASE p # NoPid /\ GoInsert(h)
    <3>1. /\ req' = [req EXCEPT ![h] = req[h]]
          /\ hpc' = [hpc EXCEPT ![h] = "insert"]
      BY <1>1, <2>2 DEF HandlerInv, GoInsert
    <3> QED BY <1>3, <2>1, <2>2, <3>1
  <2>3. ASSUME NEW a \in find_agent_by_pid(p), p # NoPid, req' = [req EXCEPT ![h].agent = a],
               hpc' = [hpc EXCEPT ![h] = "store"]
        PROVE  HandlerInv'
    <3>1. a \in DOMAIN agents /\ agents[a].pid = p /\ a \in Nat
      BY DEF find_agent_by_pid, Running, TypeOK, DbTypeOK
    <3> DEFINE q == [req[h] EXCEPT !.agent = a]
    <3>2. q \in Request /\ q.agent = a /\ q.payload = req[h].payload
      BY <2>1, <3>1 DEF Request
    <3>3. req' = [req EXCEPT ![h] = q]
      BY <2>3
    <3> HIDE DEF q
    <3> QED BY <1>3, <2>1, <2>3, <3>1, <3>2, <3>3
  <2> QED BY <1>2, <1>6, <2>2, <2>3 DEF FindAgent
<1>7. CASE InsertUser(h)
  <2>1. req[h] \in Request /\ req[h].payload.pid # NoPid
    BY <1>1, <1>7 DEF OneRequest, InsertUser
  <2>2. CASE /\ insert_agent(req[h].payload.kind, req[h].payload.pid, "user")
             /\ req' = [req EXCEPT ![h].agent = next_agent_id]
             /\ hpc' = [hpc EXCEPT ![h] = "store"]
    <3>1. PICK k, p, n : k = req[h].payload.kind /\ p = req[h].payload.pid /\ n = next_agent_id
      OBVIOUS
    <3>2. n \in DOMAIN agents' /\ agents'[n].pid = p /\ n \in Nat
      BY <2>2, <3>1, InsertRows DEF TypeOK, DbTypeOK, next_agent_id
    <3> DEFINE q == [req[h] EXCEPT !.agent = n]
    <3>3. q \in Request /\ q.agent = n /\ q.payload = req[h].payload
      BY <2>1, <3>2 DEF Request
    <3>4. req' = [req EXCEPT ![h] = q]
      BY <2>2, <3>1
    <3> HIDE DEF q
    <3> QED BY <1>3, <2>1, <2>2, <3>1, <3>2, <3>3, <3>4
  <2> QED BY <1>2, <1>7, <2>2 DEF InsertUser
<1>8. CASE Store(h)
  <2>1. /\ req[h] \in Request /\ req[h].payload.pid # NoPid /\ UNCHANGED agents
        /\ req[h].agent \in DOMAIN agents /\ agents[req[h].agent].pid = req[h].payload.pid
    BY <1>1, <1>8 DEF OneRequest, InFlight, Store
  <2> DEFINE p == req[h].payload
             e == [agent_id |-> req[h].agent, kind |-> p.kind,
                   tokens_remaining   |-> IF p.sampled THEN p.tokens ELSE 0,
                   requests_remaining |-> IF p.sampled THEN p.requests ELSE 0]
             q == [req[h] EXCEPT !.event = e]
  <2>2. CASE req' = [req EXCEPT ![h].event = e] /\ hpc' = [hpc EXCEPT ![h] = "send"]
    <3>1. p \in IngestPayload /\ req[h].agent \in Nat
      BY <2>1 DEF Request
    <3>2. e \in RateEvent
      BY <3>1 DEF IngestPayload, RateEvent, OptNat
    <3> HIDE DEF e
    <3>3. q \in Request /\ q.agent = req[h].agent /\ q.payload = req[h].payload
      BY <2>1, <3>2 DEF Request
    <3>4. req' = [req EXCEPT ![h] = q]
      BY <2>2
    <3> HIDE DEF q, p
    <3> QED BY <1>3, <2>1, <2>2, <3>3, <3>4
  <2> QED BY <1>2, <1>8, <2>2 DEF Store
<1> QED BY <1>2, <1>4, <1>5, <1>6, <1>7, <1>8 DEF HandlerStep, SendEvent, HangUp

LEMMA HandlerKept ==
  ASSUME TypeOK, TargetInv, HandlerInv, CliInv, [DaemonNext]_allVars
  PROVE  HandlerInv'
<1>1. SameRows({a \in DOMAIN agents : agents[a].pid # NoPid})
  BY DaemonRows
<1>2. CASE UNCHANGED <<hpc, req>>
  <2>1. \A h \in Handlers : OneRequest(h)'
    BY <1>1, <1>2, RequestsApart DEF HandlerInv
  <2> QED BY <1>2, <2>1 DEF HandlerInv
<1>3. CASE Requests
  BY <1>1, <1>3, HandlerMoves DEF Requests
<1>4. CASE DaemonRestart
  BY <1>4 DEF DaemonRestart, HandlerInv, OneRequest, InFlight
<1>5. DaemonEngine \/ (\E x \in Manual : DaemonManual(x)) => UNCHANGED <<hpc, req>>
  BY DEF DaemonEngine, DaemonManual, ExecutorStep, httpVars
<1>6. Surroundings => UNCHANGED <<hpc, req>>
  BY DEF Surroundings, Launch, CliSpawn, CliRegister, CliStop, Exit, Attach, httpVars
<1>7. Rest \/ UNCHANGED allVars => UNCHANGED <<hpc, req>>
  BY DEF Rest, allVars, httpVars
<1> QED BY <1>2, <1>3, <1>4, <1>5, <1>6, <1>7 DEF DaemonNext

\* Steps that leave the commands alone.
LEMMA CommandsApart ==
  ASSUME CliInv, UNCHANGED cliVars, live \subseteq live', DOMAIN agents \subseteq DOMAIN agents',
         DOMAIN counts' \subseteq DOMAIN agents'
  PROVE  CliInv'
BY DEF CliInv, cliVars

LEMMA CliKept ==
  ASSUME TypeOK, TargetInv, HandlerInv, CliInv, [DaemonNext]_allVars
  PROVE  CliInv'
<1>1. DOMAIN agents \subseteq DOMAIN agents'
  BY DaemonRows DEF SameRows
<1>2. ASSUME UNCHANGED cliVars, live \subseteq live', UNCHANGED counts
      PROVE  CliInv'
  BY <1>1, <1>2, CommandsApart DEF CliInv
<1>3. ASSUME NEW x \in Exec, ExecutorStep(x) PROVE CliInv'
  <2>1. CASE Proceed(x) /\ UNCHANGED <<cliVars, httpVars>>
    <3>1. live' = live
      BY <2>1 DEF Proceed, TakeSnapshot, Summarize, WriteSnapshot, InsertTarget, SpawnSkipped,
        SpawnFails, UpdatePid, RecordHandoff
    <3> QED BY <1>2, <2>1, <3>1 DEF httpVars
  <2>2. CASE /\ SpawnStarts(x)
             /\ program' = [program EXCEPT ![task'[x].new_pid] = task[x].to_kind]
             /\ UNCHANGED <<starting, spawned, stopping, httpVars>>
    <3>1. pc[x] \in ExecutorOnly /\ task \in [Exec -> Task \cup {NoTask}]
      BY <2>2 DEF SpawnStarts, ExecutorOnly, PC, TypeOK, TaskTypeOK
    <3>2. task[x] \in Task
      BY <3>1 DEF TypeOK, TaskTypeOK
    <3>3. task[x].to_kind \in Programs
      BY <3>2, DaemonAssumption DEF Task
    <3>4. PICK p \in Pids \ live : /\ live' = live \cup {p}
                                   /\ task' = [task EXCEPT ![x].new_pid = p]
      BY <2>2 DEF SpawnStarts
    <3>5. task'[x].new_pid = p
      BY <3>1, <3>2, <3>4 DEF Task
    <3>6. \A q \in starting : program'[q] = program[q]
      BY <2>2, <3>4, <3>5 DEF CliInv
    <3>7. UNCHANGED counts /\ program' \in [Pids -> Programs]
      BY <2>2, <3>3, <3>5 DEF CliInv, httpVars
    <3> QED BY <1>1, <2>2, <3>4, <3>6, <3>7 DEF CliInv
  <2> QED BY <1>3, <2>1, <2>2 DEF ExecutorStep
<1>4. CASE DaemonEngine
  <2>1. Handle \/ Unwind(Engine) => live' = live
    BY DEF Handle, Receive, ReadSample, Decline, Fire, Unwind, envVars
  <2> QED BY <1>2, <1>3, <1>4, <2>1 DEF DaemonEngine, Exec, httpVars
<1>5. ASSUME NEW x \in Manual, DaemonManual(x) PROVE CliInv'
  <2>1. ASSUME NEW from, NEW k, NEW spawn, StartManual(x, from, k, spawn) PROVE live' = live
    BY <2>1 DEF StartManual
  <2>2. CancelManual(x) \/ Unwind(x) => live' = live
    BY DEF CancelManual, Unwind, envVars
  <2> QED BY <1>2, <1>3, <1>5, <2>1, <2>2 DEF DaemonManual, Exec, httpVars
<1>6. CASE Requests
  <2>1. UNCHANGED <<cliVars, live>>
    BY <1>6 DEF Requests, PostIngest, PostSimulate, HandlerStep, FindAgent, InsertUser, Store,
      SendEvent, HangUp, Offer, vars, envVars
  <2>2. UNCHANGED counts \/ \E h \in Handlers : Store(h)
    BY <1>6 DEF Requests, PostIngest, PostSimulate, HandlerStep, FindAgent, InsertUser,
      SendEvent, HangUp
  <2>3. ASSUME NEW h \in Handlers, Store(h)
        PROVE  DOMAIN counts' \subseteq DOMAIN agents'
    <3>1. req[h].agent \in DOMAIN agents
      BY <2>3 DEF Store, HandlerInv, OneRequest, InFlight
    <3>2. DOMAIN counts' \subseteq DOMAIN counts \cup {req[h].agent}
      BY <2>3 DEF Store, bumped
    <3> QED BY <1>1, <3>1, <3>2 DEF CliInv
  <2> QED BY <1>1, <1>2, <2>1, <2>2, <2>3, CommandsApart
<1>7. CASE DaemonRestart
  BY <1>2, <1>7 DEF DaemonRestart, Restart
<1>8. ASSUME NEW p \in Pids, NEW g \in Programs, Start(p, g),
             starting' = starting \/ (starting' = starting \cup {p} /\ g \in Kinds),
             UNCHANGED <<spawned, stopping, counts>>
      PROVE  CliInv'
  BY <1>1, <1>8 DEF Start, CliInv
<1>9. CASE Surroundings
  <2>1. ASSUME NEW p \in Pids, NEW g \in Launchable, Launch(p, g) PROVE CliInv'
    BY <1>8, <2>1, DaemonAssumption DEF Launch, httpVars
  <2>2. ASSUME NEW p \in Pids, NEW g \in Spawnable, CliSpawn(p, g) PROVE CliInv'
    BY <1>8, <2>2, DaemonAssumption DEF CliSpawn, httpVars
  <2>3. ASSUME NEW p \in Pids, CliRegister(p) PROVE CliInv'
    <3>1. UNCHANGED <<program, live, stopping, counts>> /\ starting' = starting \ {p}
      BY <2>3 DEF CliRegister, envVars, httpVars
    <3>2. CASE UNCHANGED spawned
      BY <1>1, <3>1, <3>2 DEF CliInv
    <3>3. CASE /\ insert_agent(program[p], p, "handoff")
               /\ spawned' = [spawned EXCEPT ![p] = next_agent_id]
      <4>1. PICK k, n : k = program[p] /\ n = next_agent_id
        OBVIOUS
      <4>2. n \in DOMAIN agents'
        BY <3>3, <4>1, InsertRows DEF TypeOK
      <4> QED BY <1>1, <3>1, <3>3, <4>1, <4>2 DEF CliInv
    <3> QED BY <2>3, <3>2, <3>3 DEF CliRegister
  <2>4. ASSUME NEW p \in Pids, Exit(p) PROVE CliInv'
    <3>1. UNCHANGED <<program, starting, counts>> /\ live' = live \ {p} /\ p \notin starting
          /\ stopping' = stopping \cup ({spawned[p]} \ {NoRow})
          /\ spawned' = [spawned EXCEPT ![p] = NoRow]
      BY <2>4 DEF Exit, httpVars
    <3>2. spawned[p] \in {NoRow} \cup DOMAIN agents
      BY DEF CliInv
    <3> QED BY <1>1, <3>1, <3>2 DEF CliInv
  <2>5. ASSUME NEW p \in Pids, Attach(p) PROVE CliInv'
    BY <1>2, <2>5 DEF Attach, envVars, httpVars
  <2>6. ASSUME NEW a \in stopping, CliStop(a) PROVE CliInv'
    BY <1>1, <2>6 DEF CliStop, CliInv, envVars, httpVars
  <2>7. ASSUME NEW p \in Policies, EditConfig(p) /\ UNCHANGED <<cliVars, httpVars>> PROVE CliInv'
    BY <1>2, <2>7 DEF EditConfig, httpVars
  <2>8. CASE TimePasses /\ UNCHANGED <<cliVars, httpVars>>
    BY <1>2, <2>8 DEF TimePasses, envVars, httpVars
  <2> QED BY <1>9, <2>1, <2>2, <2>3, <2>4, <2>5, <2>6, <2>7, <2>8 DEF Surroundings
<1>10. CASE Rest \/ UNCHANGED allVars
  BY <1>2, <1>10 DEF Rest, allVars, vars, envVars, httpVars
<1> QED BY <1>4, <1>5, <1>6, <1>7, <1>9, <1>10 DEF DaemonNext

LEMMA DaemonInvariant ==
  DaemonSpec => [](TypeOK /\ TargetInv /\ HandlerInv /\ CliInv)
<1>1. TypeOK /\ TargetInv /\ HandlerInv /\ CliInv /\ [DaemonNext]_allVars =>
        (TypeOK /\ TargetInv /\ HandlerInv /\ CliInv)'
  BY DaemonRows, HandlerKept, CliKept
<1> QED BY <1>1, DaemonInitInv, PTL DEF DaemonSpec

------------------------------------------------------------------------------
(* What the handlers have seen before they gave a process a row *)

\* Of the rows that carry a pid and are running, one is the newest.
LEMMA NewestRow ==
  ASSUME TypeOK, NEW p, find_agent_by_pid(p) = {}
  PROVE  Running(p) = {}
<1> DEFINE Since(i) == agents[i].started_at
           Upto == {k \in Nat : \A U \in SUBSET (1 .. k) :
                      U # {} /\ U \subseteq DOMAIN agents =>
                        \E i \in U : \A j \in U : Since(j) <= Since(i)}
<1>1. \A i \in DOMAIN agents : Since(i) \in Nat
  <2>1. \A i \in DOMAIN agents : agents[i] \in AgentRow
    BY DEF TypeOK, DbTypeOK
  <2> QED BY <2>1 DEF AgentRow
<1> HIDE DEF Since
<1>2. 0 \in Upto
  <2>1. 1 .. 0 = {}
    OBVIOUS
  <2> QED BY <2>1
<1>3. ASSUME NEW k \in Nat, k \in Upto
      PROVE  k + 1 \in Upto
  <2>1. ASSUME NEW U \in SUBSET (1 .. k + 1), U # {}, U \subseteq DOMAIN agents
        PROVE  \E i \in U : \A j \in U : Since(j) <= Since(i)
    <3> DEFINE V == U \ {k + 1}
    <3>1. V \in SUBSET (1 .. k) /\ V \subseteq DOMAIN agents
      BY <2>1
    <3>2. CASE V = {}
      <4>1. U = {k + 1} /\ Since(k + 1) <= Since(k + 1)
        BY <1>1, <2>1, <3>2
      <4> QED BY <4>1
    <3>3. CASE V # {}
      <4>1. PICK i \in V : \A j \in V : Since(j) <= Since(i)
        BY <1>3, <3>1, <3>3
      <4>2. CASE k + 1 \in U /\ Since(i) <= Since(k + 1)
        <5>1. \A j \in U : Since(j) <= Since(k + 1)
          BY <1>1, <2>1, <4>1, <4>2
        <5> QED BY <4>2, <5>1
      <4>3. CASE ~(k + 1 \in U /\ Since(i) <= Since(k + 1))
        <5>1. \A j \in U : Since(j) <= Since(i)
          BY <1>1, <2>1, <4>1, <4>3
        <5> QED BY <4>1, <5>1
      <4> QED BY <4>2, <4>3
    <3> QED BY <3>2, <3>3
  <2> QED BY <2>1
<1>4. Len(agents) \in Upto
  <2>1. Len(agents) \in Nat
    BY DEF TypeOK, DbTypeOK
  <2> HIDE DEF Upto
  <2> QED BY <1>2, <1>3, <2>1, SetInduction
<1>5. Running(p) \subseteq DOMAIN agents /\ DOMAIN agents = 1 .. Len(agents)
  BY DEF Running, TypeOK, DbTypeOK
<1>6. ASSUME Running(p) # {} PROVE FALSE
  <2>1. PICK i \in Running(p) : \A j \in Running(p) : Since(j) <= Since(i)
    BY <1>4, <1>5, <1>6
  <2>2. i \in find_agent_by_pid(p)
    BY <2>1 DEF find_agent_by_pid, Since
  <2> QED BY <2>2
<1> QED BY <1>6

\* Rows whose process is known to be gone.
Gone == {a \in DOMAIN agents : agents[a].status # "running"}

\* A handler that goes on to insert a row has seen such rows of the pid only.
LookInv ==
  /\ seen = [h \in Handlers |-> seen[h]]
  /\ \A h \in Handlers : seen[h] \subseteq Gone
  /\ DOMAIN looked \subseteq DOMAIN agents
  /\ \A a \in DOMAIN looked : looked[a] \subseteq Gone

LEMMA StaysGone ==
  ASSUME NEW R, SameRows(R)
  PROVE  Gone \subseteq Gone'
BY DEF SameRows, Gone

LEMMA LookupSteps ==
  ASSUME [DaemonNext]_allVars
  PROVE  \/ UNCHANGED lookups
         \/ DaemonRestart
         \/ \E h \in Handlers :
              \/ /\ GoInsert(h) /\ UNCHANGED <<agents, looked>>
                 /\ find_agent_by_pid(req[h].payload.pid) = {}
              \/ InsertUser(h)
<1>1. CASE Requests
  <2>1. ASSUME NEW h \in Handlers, FindAgent(h)
        PROVE  \/ UNCHANGED lookups
               \/ /\ GoInsert(h) /\ UNCHANGED <<agents, looked>>
                  /\ find_agent_by_pid(req[h].payload.pid) = {}
    BY <2>1 DEF FindAgent, lookups, vars, dbVars
  <2> QED BY <1>1, <2>1 DEF Requests, PostIngest, PostSimulate, HandlerStep, Store, SendEvent,
        HangUp
<1>2. DaemonEngine \/ (\E x \in Manual : DaemonManual(x)) => UNCHANGED lookups
  BY DEF DaemonEngine, DaemonManual, ExecutorStep, httpVars
<1>3. Surroundings => UNCHANGED lookups
  BY DEF Surroundings, Launch, CliSpawn, CliRegister, CliStop, Exit, Attach, httpVars
<1>4. Rest \/ UNCHANGED allVars => UNCHANGED lookups
  BY DEF Rest, allVars, httpVars
<1> QED BY <1>1, <1>2, <1>3, <1>4 DEF DaemonNext

LEMMA LookKept ==
  ASSUME TypeOK, TargetInv, HandlerInv, CliInv, LookInv, [DaemonNext]_allVars
  PROVE  LookInv'
<1>1. PICK R : SameRows(R)
  BY DaemonRows
<1>2. Gone \subseteq Gone'
  BY <1>1, StaysGone
<1>3. DOMAIN agents \subseteq DOMAIN agents'
  BY <1>1 DEF SameRows
<1>4. CASE UNCHANGED lookups
  BY <1>2, <1>3, <1>4 DEF LookInv, lookups
<1>5. CASE DaemonRestart
  <2>1. looked' = looked /\ seen' = [h \in Handlers |-> {}]
    BY <1>5 DEF DaemonRestart
  <2> QED BY <1>2, <1>3, <2>1 DEF LookInv
<1>6. ASSUME NEW h \in Handlers, GoInsert(h), UNCHANGED <<agents, looked>>,
             find_agent_by_pid(req[h].payload.pid) = {}
      PROVE  LookInv'
  <2>1. PICK p : p = req[h].payload.pid
    OBVIOUS
  <2> DEFINE S == {a \in DOMAIN agents : agents[a].pid = p}
  <2>2. S \subseteq Gone
    BY <1>6, <2>1, NewestRow DEF Gone, Running
  <2>3. seen' = [seen EXCEPT ![h] = S]
    BY <1>6, <2>1 DEF GoInsert
  <2> HIDE DEF S
  <2>4. \A g \in Handlers : seen'[g] = S \/ seen'[g] = seen[g]
    BY <2>3 DEF LookInv
  <2>5. \A g \in Handlers : seen'[g] \subseteq Gone
    BY <2>2, <2>4 DEF LookInv
  <2>6. seen' = [g \in Handlers |-> seen'[g]]
    BY <2>3 DEF LookInv
  <2> QED BY <1>2, <1>3, <1>6, <2>5, <2>6 DEF LookInv
<1>7. ASSUME NEW h \in Handlers, InsertUser(h)
      PROVE  LookInv'
  <2>1. /\ seen' = [g \in Handlers |-> seen'[g]]
        /\ \A g \in Handlers : seen'[g] = {} \/ seen'[g] = seen[g]
    BY <1>7 DEF InsertUser, LookInv
  <2>2. \A g \in Handlers : seen'[g] \subseteq Gone'
    BY <1>2, <2>1 DEF LookInv
  <2>3. /\ DOMAIN looked' \subseteq DOMAIN agents'
        /\ \A a \in DOMAIN looked' :
             \/ looked'[a] = seen[h]
             \/ a \in DOMAIN looked /\ looked'[a] = looked[a]
    <3>1. CASE UNCHANGED looked
      BY <1>3, <3>1 DEF LookInv
    <3>2. PICK k, p, n : k = req[h].payload.kind /\ p = req[h].payload.pid /\ n = next_agent_id
      OBVIOUS
    <3>3. CASE /\ insert_agent(k, p, "user")
               /\ looked' = [a \in DOMAIN looked \cup {n} |->
                                IF a = n THEN seen[h] ELSE looked[a]]
      <4>1. n \in DOMAIN agents'
        BY <3>2, <3>3, InsertRows DEF TypeOK
      <4> QED BY <1>3, <3>3, <4>1 DEF LookInv
    <3> QED BY <1>7, <3>1, <3>2, <3>3 DEF InsertUser
  <2> QED BY <1>2, <2>1, <2>2, <2>3 DEF LookInv
<1> QED BY <1>4, <1>5, <1>6, <1>7, LookupSteps

LEMMA LookInvariant == DaemonSpec => []LookInv
<1>1. DaemonInit => LookInv
  BY DEF DaemonInit, LookInv
<1>2. TypeOK /\ TargetInv /\ HandlerInv /\ CliInv /\ LookInv /\ [DaemonNext]_allVars => LookInv'
  BY LookKept
<1> QED BY <1>1, <1>2, DaemonInvariant, PTL DEF DaemonSpec

\* A request that has given a process a row had seen no running row of its pid:
\* every other one has got the pid since, whoever inserted it, and whatever
\* exits, fails, hangs up or restarts in between (resolve_agent_id).
THEOREM SecondRows == DaemonSpec => []SecondRowsAreRaced
<1>1. LookInv => SecondRowsAreRaced
  BY DEF LookInv, Gone, SecondRowsAreRaced, Running
<1> QED BY <1>1, LookInvariant, PTL

\* The types of module Daemon, for any number of handlers, programs and pids.
THEOREM DaemonTypeCorrect == DaemonSpec => []DaemonTypeOK
<1>1. TypeOK /\ HandlerInv /\ CliInv /\ LookInv => DaemonTypeOK
  <2> SUFFICES ASSUME TypeOK, HandlerInv, CliInv, LookInv PROVE DaemonTypeOK
    OBVIOUS
  <2>1. DOMAIN agents \subseteq Nat /\ NoRow \in Nat
    BY DEF TypeOK, DbTypeOK, NoRow
  <2>2. spawned \in [Pids -> Nat]
    BY <2>1 DEF CliInv
  <2>3. seen \in [Handlers -> SUBSET DOMAIN agents] /\ DOMAIN looked \subseteq DOMAIN agents
    BY DEF LookInv, Gone
  <2> QED BY <2>2, <2>3 DEF HandlerInv, OneRequest, CliInv, DaemonTypeOK
<1> QED BY <1>1, DaemonInvariant, LookInvariant, PTL

\* Whatever else is inserted, stopped or given a pid meanwhile, a response is
\* charged to a row of the process it came from (resolve_agent_id, ingest).
THEOREM ChargedRight == DaemonSpec => []ChargedToItsPid
<1>1. HandlerInv => ChargedToItsPid
  BY DEF HandlerInv, OneRequest, ChargedToItsPid
<1> QED BY <1>1, DaemonInvariant, PTL

\* Beside the real callers too, nobody else records or works on the agent row
\* of a handoff (execute_inner).
THEOREM UniqueBesideCallers == DaemonSpec => []TargetsUnique
<1>1. TargetInv => TargetsUnique
  BY DEF TargetInv
<1> QED BY <1>1, DaemonInvariant, PTL

\* Beside the real callers too, no row gets another identity or another pid, or is
\* revived.
THEOREM IdentityBesideCallers == DaemonSpec => RowsKeepIdentity
<1>1. TypeOK /\ TargetInv /\ HandlerInv /\ CliInv /\ [DaemonNext]_allVars =>
        [/\ DOMAIN agents \subseteq DOMAIN agents'
         /\ \A a \in DOMAIN agents :
              /\ agents'[a].kind = agents[a].kind
              /\ agents'[a].spawned_by = agents[a].spawned_by
              /\ agents'[a].started_at = agents[a].started_at
              /\ agents[a].pid # NoPid => agents'[a].pid = agents[a].pid
              /\ agents[a].status # "running" => agents'[a].status # "running"]_agents
  BY DaemonRows DEF SameRows
<1> QED BY <1>1, DaemonInvariant, PTL DEF DaemonSpec, RowsKeepIdentity

=============================================================================
