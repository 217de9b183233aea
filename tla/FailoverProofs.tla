--------------------------- MODULE FailoverProofs ---------------------------
(***************************************************************************)
(* Theorems about module Failover, for every value of its constants.       *)
(***************************************************************************)
EXTENDS Failover, SequenceTheorems, TLAPS

USE FailoverAssumption, PidAssumption

------------------------------------------------------------------------------
(* Sequences and the tables *)

LEMMA AppendInSeq ==
  ASSUME NEW S, NEW s \in Seq(S), NEW e \in S
  PROVE  /\ Append(s, e) \in Seq(S)
         /\ Len(Append(s, e)) = Len(s) + 1
         /\ \A i \in 1 .. Len(s) : Append(s, e)[i] = s[i]
         /\ Append(s, e)[Len(s) + 1] = e
  OBVIOUS

\* Replacing an element by one of the same type, wherever it is.
LEMMA ExceptInSeq ==
  ASSUME NEW S, NEW s \in Seq(S), NEW i, NEW e,
         i \in DOMAIN s => e \in S
  PROVE  /\ [s EXCEPT ![i] = e] \in Seq(S)
         /\ Len([s EXCEPT ![i] = e]) = Len(s)
         /\ DOMAIN [s EXCEPT ![i] = e] = DOMAIN s
<1>1. [s EXCEPT ![i] = e] = [j \in 1 .. Len(s) |-> IF j = i THEN e ELSE s[j]]
  OBVIOUS
<1>2. ASSUME NEW j \in 1 .. Len(s)
      PROVE  (IF j = i THEN e ELSE s[j]) \in S
  OBVIOUS
<1>3. [s EXCEPT ![i] = e] \in [1 .. Len(s) -> S]
  BY <1>1, <1>2
<1>4. QED
  BY <1>3

LEMMA TailInSeq ==
  ASSUME NEW S, NEW s \in Seq(S), s # <<>>
  PROVE  /\ Tail(s) \in Seq(S)
         /\ Head(s) \in S
         /\ Len(Tail(s)) = Len(s) - 1
  OBVIOUS

\* A row of agents stays a row, whichever statement changes it.
LEMMA InsertAgentType ==
  ASSUME NEW kind \in Kinds, NEW pid \in Pids \cup {NoPid},
         NEW by \in {"user", "handoff"},
         DbTypeOK, insert_agent(kind, pid, by)
  PROVE  agents' \in Seq(AgentRow)
  BY AppendInSeq DEF DbTypeOK, insert_agent, AgentRow, AgentStatus

LEMMA UpdatePidType ==
  ASSUME NEW id \in Nat, NEW pid \in Pids \cup {NoPid},
         DbTypeOK, update_agent_pid(id, pid)
  PROVE  agents' \in Seq(AgentRow)
<1>1. agents' = [agents EXCEPT ![id] = [agents[id] EXCEPT !.pid = pid]]
  BY DEF update_agent_pid
<1>2. id \in DOMAIN agents => agents[id] \in AgentRow
  BY DEF DbTypeOK
<1>3. id \in DOMAIN agents => [agents[id] EXCEPT !.pid = pid] \in AgentRow
  BY <1>2 DEF AgentRow
<1>4. QED
  BY <1>1, <1>3, ExceptInSeq DEF DbTypeOK

LEMMA StopType ==
  ASSUME NEW id, NEW status \in AgentStatus,
         DbTypeOK, mark_agent_stopped(id, status)
  PROVE  agents' \in Seq(AgentRow)
<1>1. CASE id \in DOMAIN agents
  <2>1. agents' = [agents EXCEPT ![id] = [agents[id] EXCEPT !.status = status]]
    BY <1>1 DEF mark_agent_stopped
  <2>2. agents[id] \in AgentRow
    BY <1>1 DEF DbTypeOK
  <2>3. [agents[id] EXCEPT !.status = status] \in AgentRow
    BY <2>2 DEF AgentRow
  <2>4. QED
    BY <2>1, <2>3, ExceptInSeq DEF DbTypeOK
<1>2. CASE id \notin DOMAIN agents
  BY <1>2 DEF mark_agent_stopped, DbTypeOK
<1>3. QED
  BY <1>1, <1>2

LEMMA StoreType ==
  ASSUME NEW a \in DOMAIN agents, NEW t \in OptNat,
         DbTypeOK, insert_rate_sample(a, t)
  PROVE  latest' \in [Kinds -> [ts : Nat, tokens : SUBSET OptNat]]
<1> DEFINE k == agents[a].kind
           old == IF latest[k].ts = now THEN latest[k].tokens ELSE {}
<1>1. k \in Kinds
  <2>1. agents[a] \in AgentRow
    BY DEF DbTypeOK
  <2>2. QED
    BY <2>1 DEF AgentRow
<1>2. latest[k] \in [ts : Nat, tokens : SUBSET OptNat]
  BY <1>1 DEF DbTypeOK
<1>3. old \in SUBSET OptNat
  BY <1>2
<1>4. [ts |-> now, tokens |-> {t} \cup old] \in [ts : Nat, tokens : SUBSET OptNat]
  BY <1>3 DEF DbTypeOK
<1>5. latest' = [latest EXCEPT ![k] = [ts |-> now, tokens |-> {t} \cup old]]
  BY DEF insert_rate_sample
<1> HIDE DEF k, old
<1>6. QED
  BY <1>1, <1>4, <1>5 DEF DbTypeOK

------------------------------------------------------------------------------
(* What a step leaves alone keeps its type *)

LEMMA DbSame ==
  ASSUME DbTypeOK, UNCHANGED dbVars
  PROVE  DbTypeOK'
  BY DEF DbTypeOK, dbVars

LEMMA EngineSame ==
  ASSUME EngineTypeOK, UNCHANGED <<queue, fired, initial_tokens, decision>>,
         pc'[Engine] = "choose" => pc[Engine] = "choose"
  PROVE  EngineTypeOK'
  BY DEF EngineTypeOK, MapTypeOK

LEMMA TaskSame ==
  ASSUME TaskTypeOK, UNCHANGED <<pc, task>>
  PROVE  TaskTypeOK'
  BY DEF TaskTypeOK

LEMMA EnvSame ==
  ASSUME EnvTypeOK, UNCHANGED envVars
  PROVE  EnvTypeOK'
  BY DEF EnvTypeOK, envVars

------------------------------------------------------------------------------
(* The ways in which an executor moves *)

LEMMA TaskGoto ==
  ASSUME TaskTypeOK, NEW x \in Exec, NEW l \in PC, Goto(x, l), UNCHANGED task,
         pc[x] \in ExecutorOnly, l # "choose"
  PROVE  /\ TaskTypeOK'
         /\ pc'[Engine] = "choose" => pc[Engine] = "choose"
  BY DEF TaskTypeOK, Goto, ExecutorOnly, Exec

LEMMA TaskLeave ==
  ASSUME TaskTypeOK, NEW x \in Exec, Leave(x)
  PROVE  /\ TaskTypeOK'
         /\ pc'[Engine] = "choose" => pc[Engine] = "choose"
  BY DEF TaskTypeOK, Leave, ExecutorOnly, PC, Exec

LEMMA TaskSet ==
  ASSUME TaskTypeOK, NEW x \in Exec, NEW l \in ExecutorOnly, NEW t \in Task,
         Goto(x, l), task' = [task EXCEPT ![x] = t]
  PROVE  /\ TaskTypeOK'
         /\ pc'[Engine] = "choose" => pc[Engine] = "choose"
  BY DEF TaskTypeOK, Goto, ExecutorOnly, Exec

------------------------------------------------------------------------------
(* Type correctness *)

LEMMA InitType == Init => TypeOK
<1> SUFFICES ASSUME Init PROVE TypeOK
  OBVIOUS
<1>1. DbTypeOK
  BY DEF Init, StorageInit, DbTypeOK
<1>2. MapTypeOK
  BY DEF Init, MapTypeOK
<1>3. pc \in [Exec -> PC] /\ \A x \in Exec : pc[x] = "idle"
  BY DEF Init, PC
<1>4. EngineTypeOK
  BY <1>2, <1>3 DEF Init, EngineTypeOK, Exec
<1>5. TaskTypeOK
  BY <1>3 DEF Init, TaskTypeOK, ExecutorOnly
<1>6. EnvTypeOK
  BY DEF Init, EnvTypeOK
<1>7. QED
  BY <1>1, <1>4, <1>5, <1>6 DEF TypeOK

LEMMA RaisedType ==
  ASSUME MapTypeOK, NEW e \in RateEvent, initial_tokens' = raised(initial_tokens, e)
  PROVE  MapTypeOK'
<1>1. e.agent_id \in Nat /\ e.tokens_remaining \in OptNat
  BY DEF RateEvent
<1>2. CASE initial_tokens' = initial_tokens
  BY <1>2 DEF MapTypeOK
<1>3. CASE /\ e.tokens_remaining > 0
           /\ initial_tokens' = [a \in DOMAIN initial_tokens \cup {e.agent_id} |->
                                   IF a = e.agent_id THEN e.tokens_remaining
                                                     ELSE initial_tokens[a]]
  BY <1>1, <1>3 DEF MapTypeOK, OptNat, NoValue
<1>4. QED
  BY <1>1, <1>2, <1>3 DEF raised, MapTypeOK, OptNat, NoValue

LEMMA ReceiveType == TypeOK /\ Receive => TypeOK'
<1> SUFFICES ASSUME TypeOK, Receive PROVE TypeOK'
  OBVIOUS
<1> DEFINE e == Head(queue)
<1>1. DbTypeOK /\ EngineTypeOK /\ TaskTypeOK /\ EnvTypeOK
  BY DEF TypeOK
<1>2. e \in RateEvent /\ queue' \in Seq(RateEvent) /\ Len(queue') <= ChannelCap
  <2>1. queue # <<>> /\ queue' = Tail(queue)
    BY DEF Receive
  <2>2. e \in RateEvent /\ Tail(queue) \in Seq(RateEvent) /\ Len(Tail(queue)) = Len(queue) - 1
    BY <1>1, <2>1, TailInSeq DEF EngineTypeOK
  <2>3. QED
    BY <1>1, <2>1, <2>2 DEF EngineTypeOK
<1>3. MapTypeOK'
  BY <1>1, <1>2, RaisedType DEF Receive, EngineTypeOK
<1>4. [ev |-> e, policy |-> policy, samples |-> [k \in Kinds |-> NoValue],
       scanned |-> 0] \in Decision
  BY <1>1, <1>2 DEF Decision, EnvTypeOK, OptNat
<1>5. /\ decision' \in Decision \cup {NoDecision}
      /\ pc'[Engine] = "choose" => decision' \in Decision
  BY <1>1, <1>4 DEF Receive, EngineTypeOK, TaskTypeOK, Exec
<1>6. EngineTypeOK'
  BY <1>1, <1>2, <1>3, <1>5 DEF Receive, EngineTypeOK
<1>7. TaskTypeOK'
  BY <1>1 DEF Receive, TaskTypeOK, PC, Exec, ExecutorOnly
<1>8. DbTypeOK' /\ EnvTypeOK'
  BY <1>1, DbSame, EnvSame DEF Receive
<1>9. QED
  BY <1>6, <1>7, <1>8 DEF TypeOK

\* Handing over and the choice before it: the rest of handle.
LEMMA ChooseType == TypeOK /\ (ReadSample \/ Decline \/ Fire) => TypeOK'
<1> SUFFICES ASSUME TypeOK, ReadSample \/ Decline \/ Fire PROVE TypeOK'
  OBVIOUS
<1>1. DbTypeOK /\ EngineTypeOK /\ TaskTypeOK /\ EnvTypeOK
  BY DEF TypeOK
<1>2. pc[Engine] = "choose" /\ decision \in Decision /\ Engine \in Exec
  BY <1>1 DEF ReadSample, Decline, Fire, AllSampled, EngineTypeOK, Exec
<1>3. DbTypeOK' /\ EnvTypeOK'
  BY <1>1, DbSame, EnvSame DEF ReadSample, Decline, Fire
<1>4. CASE ReadSample
  <2>1. PICK k \in Kinds, s \in OptNat :
          decision' = [decision EXCEPT !.samples[k] = s, !.scanned = @ + 1]
    <3> DEFINE c == decision.policy.chain[decision.scanned + 1]
    <3>1. decision.policy \in FailoverPolicy /\ decision.scanned \in Nat
      BY <1>2 DEF Decision
    <3>2. decision.policy.chain \in Seq(Kinds)
      BY <3>1 DEF FailoverPolicy
    <3>3. c \in Kinds
      <4>1. decision.scanned < Len(decision.policy.chain)
        BY <1>4 DEF ReadSample
      <4>2. Len(decision.policy.chain) \in Nat
        BY <3>2
      <4>3. decision.scanned + 1 \in 1 .. Len(decision.policy.chain)
        BY <3>1, <4>1, <4>2
      <4>4. QED
        BY <3>2, <4>3
    <3>4. latest_rate_sample_for_kind(c) \subseteq OptNat
      <4>1. latest[c] \in [ts : Nat, tokens : SUBSET OptNat]
        BY <1>1, <3>3 DEF DbTypeOK
      <4>2. latest[c].tokens \subseteq OptNat
        BY <4>1
      <4>3. QED
        BY <4>2 DEF latest_rate_sample_for_kind, OptNat
    <3>5. PICK s \in latest_rate_sample_for_kind(c) \cup {NoValue} :
            decision' =
              [decision EXCEPT !.samples[c] = IF @ = NoValue THEN s ELSE @,
                               !.scanned = @ + 1]
      BY <1>4 DEF ReadSample
    <3> DEFINE kept == IF decision.samples[c] = NoValue THEN s
                                                        ELSE decision.samples[c]
    <3>6. decision.samples[c] \in OptNat
      BY <1>2, <3>3 DEF Decision
    <3>7. kept \in OptNat
      BY <3>4, <3>6 DEF OptNat
    <3>8. decision' = [decision EXCEPT !.samples[c] = kept, !.scanned = @ + 1]
      BY <3>5
    <3>9. QED
      BY <3>3, <3>7, <3>8
  <2>2. decision' \in Decision
    <3>1. [decision.samples EXCEPT ![k] = s] \in [Kinds -> OptNat]
      BY <1>2 DEF Decision
    <3>2. /\ decision.ev \in RateEvent
          /\ decision.policy \in FailoverPolicy
          /\ decision.scanned + 1 \in Nat
      BY <1>2 DEF Decision
    <3>3. decision' = [ev      |-> decision.ev,
                       policy  |-> decision.policy,
                       samples |-> [decision.samples EXCEPT ![k] = s],
                       scanned |-> decision.scanned + 1]
      BY <1>2, <2>1 DEF Decision
    <3>4. QED
      BY <3>1, <3>2, <3>3 DEF Decision
  <2>3. EngineTypeOK' /\ TaskTypeOK'
    BY <1>1, <1>4, <2>2 DEF ReadSample, EngineTypeOK, MapTypeOK, TaskTypeOK
  <2>4. QED
    BY <1>3, <2>3 DEF TypeOK
<1>5. CASE Decline
  <2>1. EngineTypeOK'
    BY <1>1, <1>2, <1>5 DEF Decline, EngineTypeOK, MapTypeOK, TaskTypeOK
  <2>2. TaskTypeOK'
    BY <1>1, <1>5 DEF Decline, TaskTypeOK, PC, ExecutorOnly
  <2>3. QED
    BY <1>3, <2>1, <2>2 DEF TypeOK
<1>6. CASE Fire
  <2>1. PICK k \in next_kind :
          /\ fired' = fired \cup {<<decision.ev.agent_id, k>>}
          /\ task' = [task EXCEPT ![Engine] =
                       [from_agent_id |-> decision.ev.agent_id,
                        to_kind       |-> k,
                        auto_spawn    |-> decision.policy.auto_spawn,
                        summarize     |-> decision.policy.summarize,
                        use_worktree  |-> decision.policy.use_worktree,
                        new_agent_id  |-> NoRow,
                        new_pid       |-> NoPid]]
    BY <1>6 DEF Fire
  <2>2. /\ decision.ev.agent_id \in Nat
        /\ decision.policy \in FailoverPolicy
    BY <1>2 DEF Decision, RateEvent
  <2>3. k \in Kinds
    BY <2>2 DEF next_kind, pick_next, candidates, FailoverPolicy
  <2>4. [from_agent_id |-> decision.ev.agent_id,
         to_kind       |-> k,
         auto_spawn    |-> decision.policy.auto_spawn,
         summarize     |-> decision.policy.summarize,
         use_worktree  |-> decision.policy.use_worktree,
         new_agent_id  |-> NoRow,
         new_pid       |-> NoPid] \in Task
    BY <2>2, <2>3 DEF Task, FailoverPolicy, NoRow
  <2>5. TaskTypeOK'
    BY <1>1, <1>2, <1>6, <2>1, <2>4, TaskSet DEF Fire, Goto, ExecutorOnly, PC
  <2>6. fired' \subseteq Nat \X Kinds
    BY <1>1, <2>1, <2>2, <2>3 DEF EngineTypeOK
  <2>7. EngineTypeOK'
    BY <1>1, <1>2, <1>6, <2>6 DEF Fire, EngineTypeOK, MapTypeOK, TaskTypeOK
  <2>8. QED
    BY <1>3, <2>5, <2>7 DEF TypeOK
<1>7. QED
  BY <1>4, <1>5, <1>6

\* The executor, by the engine or by a manual handoff.
LEMMA ExecuteType == \A x \in Exec : TypeOK /\ (Execute(x) \/ CancelManual(x)) => TypeOK'
<1> SUFFICES ASSUME NEW x \in Exec, TypeOK, Execute(x) \/ CancelManual(x)
             PROVE  TypeOK'
  OBVIOUS
<1>1. DbTypeOK /\ EngineTypeOK /\ TaskTypeOK /\ EnvTypeOK
  BY DEF TypeOK
<1>2. pc[x] \in ExecutorOnly
  BY DEF Execute, Proceed, TakeSnapshot, Summarize, CancelManual, WriteSnapshot,
         InsertTarget, SpawnStarts, SpawnSkipped, SpawnFails, UpdatePid,
         RecordHandoff, ExecutorOnly, PC
<1>3. /\ task[x] \in Task
      /\ task[x].to_kind \in Kinds
      /\ task[x].from_agent_id \in Nat
      /\ task[x].new_agent_id \in Nat
      /\ task[x].new_pid \in Pids \cup {NoPid}
  BY <1>1, <1>2 DEF TaskTypeOK, Task
<1>4. ASSUME TaskTypeOK', pc'[Engine] = "choose" => pc[Engine] = "choose",
             UNCHANGED onlyExec, DbTypeOK', live' \subseteq Pids
      PROVE  TypeOK'
  <2>1. EngineTypeOK'
    BY <1>1, <1>4, EngineSame DEF onlyExec
  <2>2. EnvTypeOK'
    BY <1>1, <1>4 DEF EnvTypeOK, onlyExec
  <2>3. QED
    BY <1>4, <2>1, <2>2 DEF TypeOK
\* The moves that touch neither a table nor the processes.
<1>5. ASSUME UNCHANGED <<dbVars, onlyExec, live>>,
             \/ Leave(x)
             \/ /\ UNCHANGED task
                /\ \E l \in PC \ {"choose"} : Goto(x, l)
      PROVE  TypeOK'
  <2>1. DbTypeOK' /\ live' \subseteq Pids /\ UNCHANGED onlyExec
    BY <1>1, <1>5, DbSame DEF EnvTypeOK
  <2>2. TaskTypeOK' /\ (pc'[Engine] = "choose" => pc[Engine] = "choose")
    BY <1>1, <1>2, <1>5, TaskGoto, TaskLeave
  <2>3. QED
    BY <1>4, <2>1, <2>2
<1>6. CASE TakeSnapshot(x) \/ Summarize(x) \/ WriteSnapshot(x)
           \/ SpawnSkipped(x) \/ SpawnFails(x) \/ CancelManual(x)
  BY <1>5, <1>6 DEF TakeSnapshot, Summarize, WriteSnapshot, SpawnSkipped,
                    SpawnFails, CancelManual, Fails, PC
<1>7. CASE InsertTarget(x)
  <2>1. live' \subseteq Pids /\ UNCHANGED onlyExec
    BY <1>1, <1>7 DEF InsertTarget, EnvTypeOK
  <2>2. CASE /\ insert_agent(task[x].to_kind, NoPid, "handoff")
             /\ task' = [task EXCEPT ![x].new_agent_id = next_agent_id]
             /\ Goto(x, "spawn")
    <3>1. agents' \in Seq(AgentRow)
      BY <1>1, <1>3, <2>2, InsertAgentType
    <3>2. DbTypeOK'
      BY <1>1, <1>7, <3>1 DEF InsertTarget, DbTypeOK
    <3>3. next_agent_id \in Nat
      BY <1>1 DEF next_agent_id, DbTypeOK
    <3>4. [task[x] EXCEPT !.new_agent_id = next_agent_id] \in Task
      BY <1>3, <3>3 DEF Task
    <3>5. task' = [task EXCEPT ![x] = [task[x] EXCEPT !.new_agent_id = next_agent_id]]
      BY <2>2
    <3>6. TaskTypeOK' /\ (pc'[Engine] = "choose" => pc[Engine] = "choose")
      BY <1>1, <2>2, <3>4, <3>5, TaskSet DEF ExecutorOnly, PC
    <3>7. QED
      BY <1>4, <2>1, <3>2, <3>6
  <2>3. CASE Fails(x) /\ UNCHANGED agents
    BY <1>5, <1>7, <2>1, <2>3 DEF InsertTarget, Fails, dbVars
  <2>4. QED
    BY <1>7, <2>2, <2>3 DEF InsertTarget
<1>8. CASE SpawnStarts(x)
  <2>1. PICK p \in Pids \ live :
          /\ live' = live \cup {p}
          /\ task' = [task EXCEPT ![x].new_pid = p]
    BY <1>8 DEF SpawnStarts
  <2>2. [task[x] EXCEPT !.new_pid = p] \in Task
    BY <1>3 DEF Task
  <2>3. task' = [task EXCEPT ![x] = [task[x] EXCEPT !.new_pid = p]]
    BY <2>1
  <2>4. TaskTypeOK' /\ (pc'[Engine] = "choose" => pc[Engine] = "choose")
    BY <1>1, <1>8, <2>2, <2>3, TaskSet DEF SpawnStarts, ExecutorOnly, PC
  <2>5. DbTypeOK' /\ live' \subseteq Pids /\ UNCHANGED onlyExec
    BY <1>1, <1>8, <2>1, DbSame DEF SpawnStarts, EnvTypeOK
  <2>6. QED
    BY <1>4, <2>4, <2>5
<1>9. CASE UpdatePid(x)
  <2>1. live' \subseteq Pids /\ UNCHANGED onlyExec
    BY <1>1, <1>9 DEF UpdatePid, EnvTypeOK
  <2>2. CASE /\ update_agent_pid(task[x].new_agent_id, task[x].new_pid)
             /\ Goto(x, "insert_handoff")
             /\ UNCHANGED task
    <3>1. agents' \in Seq(AgentRow)
      BY <1>1, <1>3, <2>2, UpdatePidType
    <3>2. DbTypeOK'
      BY <1>1, <1>9, <3>1 DEF UpdatePid, DbTypeOK
    <3>3. TaskTypeOK' /\ (pc'[Engine] = "choose" => pc[Engine] = "choose")
      BY <1>1, <1>2, <2>2, TaskGoto DEF PC
    <3>4. QED
      BY <1>4, <2>1, <3>2, <3>3
  <2>3. CASE Fails(x) /\ UNCHANGED agents
    BY <1>5, <1>9, <2>1, <2>3 DEF UpdatePid, Fails, dbVars
  <2>4. QED
    BY <1>9, <2>2, <2>3 DEF UpdatePid
<1>10. CASE RecordHandoff(x)
  <2>1. live' \subseteq Pids /\ UNCHANGED onlyExec
    BY <1>1, <1>10 DEF RecordHandoff, EnvTypeOK
  <2>2. [from_agent_id |-> task[x].from_agent_id,
         to_agent_id   |-> task[x].new_agent_id,
         to_kind       |-> task[x].to_kind,
         exec          |-> x,
         life          |-> life] \in HandoffRow
    BY <1>1, <1>3 DEF HandoffRow, EnvTypeOK
  <2>3. handoffs' \in Seq(HandoffRow)
    <3> DEFINE row == [from_agent_id |-> task[x].from_agent_id,
                       to_agent_id   |-> task[x].new_agent_id,
                       to_kind       |-> task[x].to_kind,
                       exec          |-> x,
                       life          |-> life]
    <3>1. handoffs' = Append(handoffs, row) \/ handoffs' = handoffs
      BY <1>10 DEF RecordHandoff, insert_handoff
    <3>2. row \in HandoffRow /\ handoffs \in Seq(HandoffRow)
      BY <1>1, <2>2 DEF DbTypeOK
    <3> HIDE DEF row
    <3>3. QED
      BY <3>1, <3>2
  <2>4. DbTypeOK'
    BY <1>1, <1>10, <2>3 DEF RecordHandoff, DbTypeOK
  <2>5. TaskTypeOK' /\ (pc'[Engine] = "choose" => pc[Engine] = "choose")
    BY <1>1, <1>10, TaskLeave DEF RecordHandoff
  <2>6. QED
    BY <1>4, <2>1, <2>4, <2>5
<1>11. QED
  BY <1>6, <1>7, <1>8, <1>9, <1>10 DEF Execute, Proceed

\* A task that unwinds is idle or dead, and needs no locals.
LEMMA UnwindType == \A x \in Exec : TypeOK /\ Unwind(x) => TypeOK'
<1> SUFFICES ASSUME NEW x \in Exec, TypeOK, Unwind(x) PROVE TypeOK'
  OBVIOUS
<1>1. DbTypeOK /\ EngineTypeOK /\ TaskTypeOK /\ EnvTypeOK
  BY DEF TypeOK
<1>2. DbTypeOK' /\ EnvTypeOK'
  BY <1>1, DbSame, EnvSame DEF Unwind
<1>3. TaskTypeOK'
  BY <1>1 DEF Unwind, TaskTypeOK, ExecutorOnly, PC
<1>4. pc'[Engine] = "choose" => pc[Engine] = "choose"
  BY <1>1 DEF Unwind, TaskTypeOK
<1>5. queue' \in Seq(RateEvent) /\ Len(queue') <= ChannelCap
  <2>1. Len(<<>>) <= ChannelCap
    BY FailoverAssumption
  <2>2. QED
    BY <1>1, <2>1 DEF Unwind, EngineTypeOK
<1>6. EngineTypeOK'
  BY <1>1, <1>4, <1>5 DEF Unwind, EngineTypeOK, MapTypeOK
<1>7. QED
  BY <1>2, <1>3, <1>6 DEF TypeOK

LEMMA ManualType == TypeOK /\ ManualStep => TypeOK'
<1> SUFFICES ASSUME TypeOK, NEW x \in Manual,
                    \/ \E from \in {NoRow, Len(agents) + 1} \cup DOMAIN agents,
                          k \in Kinds, spawn \in BOOLEAN : StartManual(x, from, k, spawn)
                    \/ Execute(x)
                    \/ CancelManual(x)
                    \/ Unwind(x)
             PROVE  TypeOK'
  BY DEF ManualStep
<1>1. x \in Exec
  BY DEF Exec
<1>2. CASE Execute(x) \/ CancelManual(x) \/ Unwind(x)
  BY <1>1, <1>2, ExecuteType, UnwindType
<1>3. ASSUME NEW from \in {NoRow, Len(agents) + 1} \cup DOMAIN agents,
             NEW k \in Kinds, NEW spawn \in BOOLEAN, StartManual(x, from, k, spawn)
      PROVE  TypeOK'
  <2>1. DbTypeOK /\ EngineTypeOK /\ TaskTypeOK /\ EnvTypeOK
    BY DEF TypeOK
  <2>2. from \in Nat
    BY <2>1 DEF NoRow, DbTypeOK
  <2>3. policy \in FailoverPolicy
    BY <2>1 DEF EnvTypeOK
  <2>4. [from_agent_id |-> from,
         to_kind       |-> k,
         auto_spawn    |-> spawn,
         summarize     |-> policy.summarize,
         use_worktree  |-> policy.use_worktree,
         new_agent_id  |-> NoRow,
         new_pid       |-> NoPid] \in Task
    BY <2>2, <2>3 DEF Task, FailoverPolicy, NoRow
  <2>5. TaskTypeOK' /\ (pc'[Engine] = "choose" => pc[Engine] = "choose")
    BY <1>1, <1>3, <2>1, <2>4, TaskSet DEF StartManual, Goto, ExecutorOnly, PC
  <2>6. EngineTypeOK'
    BY <1>3, <2>1, <2>5, EngineSame DEF StartManual
  <2>7. DbTypeOK' /\ EnvTypeOK'
    BY <1>3, <2>1, DbSame DEF StartManual, EnvTypeOK
  <2>8. QED
    BY <2>5, <2>6, <2>7 DEF TypeOK
<1>4. QED
  BY <1>2, <1>3

LEMMA EnvironmentType == TypeOK /\ Environment => TypeOK'
<1> SUFFICES ASSUME TypeOK, Environment PROVE TypeOK'
  OBVIOUS
<1>1. DbTypeOK /\ EngineTypeOK /\ TaskTypeOK /\ EnvTypeOK
  BY DEF TypeOK
<1>2. ASSUME NEW e \in Events, Offer(e)
      PROVE  TypeOK'
  <2>1. e \in RateEvent
    BY <1>1 DEF Events, RateEvent, DbTypeOK
  <2>2. queue' \in Seq(RateEvent) /\ Len(queue') <= ChannelCap
    BY <1>1, <1>2, <2>1, AppendInSeq DEF Offer, has_room, EngineTypeOK
  <2>3. EngineTypeOK'
    BY <1>1, <1>2, <2>2 DEF Offer, EngineTypeOK, MapTypeOK
  <2>4. DbTypeOK' /\ TaskTypeOK' /\ EnvTypeOK'
    BY <1>1, <1>2, DbSame, TaskSame DEF Offer, EnvTypeOK
  <2>5. QED
    BY <2>3, <2>4 DEF TypeOK
\* The steps that only change the tables.
<1>3. ASSUME UNCHANGED <<memVars, envVars>>, DbTypeOK'
      PROVE  TypeOK'
  BY <1>1, <1>3, EngineSame, TaskSame, EnvSame DEF TypeOK, memVars
<1>4. ASSUME NEW k \in Kinds, Register(k, NoPid, "user")
      PROVE  TypeOK'
  <2>1. agents' \in Seq(AgentRow)
    BY <1>1, <1>4, InsertAgentType DEF Register
  <2>2. QED
    BY <1>1, <1>3, <1>4, <2>1 DEF Register, DbTypeOK
<1>5. ASSUME NEW a \in DOMAIN agents, StopAgent(a, "stopped")
      PROVE  TypeOK'
  <2>1. agents' \in Seq(AgentRow)
    BY <1>1, <1>5, StopType DEF StopAgent, AgentStatus
  <2>2. QED
    BY <1>1, <1>3, <1>5, <2>1 DEF StopAgent, DbTypeOK
<1>6. ASSUME NEW a \in DOMAIN agents, NEW t \in TokenValues, StoreSample(a, t)
      PROVE  TypeOK'
  <2>1. latest' \in [Kinds -> [ts : Nat, tokens : SUBSET OptNat]]
    BY <1>1, <1>6, StoreType DEF StoreSample
  <2>2. QED
    BY <1>1, <1>3, <1>6, <2>1 DEF StoreSample, DbTypeOK
<1>7. ASSUME NEW p \in Policies, EditConfig(p)
      PROVE  TypeOK'
  BY <1>1, <1>7, DbSame, EngineSame, TaskSame DEF EditConfig, memVars, TypeOK, EnvTypeOK
<1>8. ASSUME NEW p \in Pids, ProcessExits(p)
      PROVE  TypeOK'
  BY <1>1, <1>8, DbSame, EngineSame, TaskSame DEF ProcessExits, memVars, TypeOK, EnvTypeOK
<1>9. CASE TimePasses
  BY <1>1, <1>3, <1>9 DEF TimePasses, Tick, DbTypeOK
<1>10. CASE Restart
  <2>1. EngineTypeOK'
    BY <1>10 DEF Restart, EngineTypeOK, MapTypeOK, Exec
  <2>2. TaskTypeOK'
    BY <1>10 DEF Restart, TaskTypeOK, ExecutorOnly, PC
  <2>3. DbTypeOK' /\ EnvTypeOK'
    BY <1>1, <1>10, DbSame DEF Restart, EnvTypeOK
  <2>4. QED
    BY <2>1, <2>2, <2>3 DEF TypeOK
<1>11. QED
  BY <1>2, <1>4, <1>5, <1>6, <1>7, <1>8, <1>9, <1>10 DEF Environment

LEMMA NextType == TypeOK /\ [Next]_vars => TypeOK'
<1> SUFFICES ASSUME TypeOK, [Next]_vars PROVE TypeOK'
  OBVIOUS
<1>1. CASE EngineStep
  BY <1>1, ReceiveType, ChooseType, ExecuteType, UnwindType DEF EngineStep, Handle, Exec
<1>2. CASE ManualStep
  BY <1>2, ManualType
<1>3. CASE Environment
  BY <1>3, EnvironmentType
<1>4. CASE UNCHANGED vars
  BY <1>4, DbSame, EngineSame, TaskSame, EnvSame DEF vars, memVars, TypeOK
<1>5. QED
  BY <1>1, <1>2, <1>3, <1>4 DEF Next

\* Every reachable state of the engine is well typed, the channel never holds
\* more than its capacity, and a task always has the locals its place in the
\* code needs.
THEOREM TypeCorrect == Spec => []TypeOK
  BY InitType, NextType, PTL DEF Spec
=============================================================================
