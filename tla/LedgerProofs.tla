---------------------------- MODULE LedgerProofs ----------------------------
(***************************************************************************)
(* Module Failover keeps the promises of HandoffLedger: at most one        *)
(* recorded automatic handoff per pair and life, and the refinement.  So   *)
(* does module Daemon, with the real callers of the engine.                *)
(***************************************************************************)
EXTENDS TargetProofs

LedgerInv == FiredCovers /\ AtMostOncePerLife

PairOf(x) == <<task[x].from_agent_id, task[x].to_kind>>

LEMMA InitLedger == Init => LedgerInv
  BY DEF Init, StorageInit, LedgerInv, FiredCovers, AtMostOncePerLife,
         EngineRows, ExecutorOnly, Exec

\* A step of neither kind that matters: the engine goes on with its pair, or
\* drops it, or has none.
Quiet ==
  /\ UNCHANGED <<handoffs, life, fired>>
  /\ \/ pc'[Engine] \notin ExecutorOnly
     \/ /\ pc[Engine] \in ExecutorOnly
        /\ pc'[Engine] \in ExecutorOnly
        /\ PairOf(Engine)' = PairOf(Engine)

LEMMA QuietStep ==
  ASSUME LedgerInv, Quiet
  PROVE  LedgerInv'
<1>1. \A l : EngineRows(l)' = EngineRows(l)
  BY DEF EngineRows, Quiet
<1>2. \A i : Key(i)' = Key(i)
  BY DEF Key, Quiet
<1>3. AtMostOncePerLife'
  BY <1>1, <1>2 DEF LedgerInv, AtMostOncePerLife, Quiet
<1>4. FiredCovers'
  BY <1>1, <1>2 DEF LedgerInv, FiredCovers, PairOf, Quiet
<1>5. QED
  BY <1>3, <1>4 DEF LedgerInv

LEMMA FireLedger == TypeOK /\ LedgerInv /\ Fire => LedgerInv'
<1> SUFFICES ASSUME TypeOK, LedgerInv, Fire PROVE LedgerInv'
  OBVIOUS
<1>1. PICK k \in next_kind :
        /\ <<decision.ev.agent_id, k>> \notin fired
        /\ fired' = fired \cup {<<decision.ev.agent_id, k>>}
        /\ task'[Engine].from_agent_id = decision.ev.agent_id
        /\ task'[Engine].to_kind = k
  BY DEF Fire, has_fired, TypeOK, TaskTypeOK, Exec
<1>2. UNCHANGED <<handoffs, life>>
  BY DEF Fire, dbVars, envVars
<1>3. \A l : EngineRows(l)' = EngineRows(l)
  BY <1>2 DEF EngineRows
<1>4. \A i : Key(i)' = Key(i)
  BY <1>2 DEF Key
<1>5. AtMostOncePerLife'
  BY <1>2, <1>3, <1>4 DEF LedgerInv, AtMostOncePerLife
<1>6. FiredCovers'
  BY <1>1, <1>2, <1>3, <1>4 DEF LedgerInv, FiredCovers
<1>7. QED
  BY <1>5, <1>6 DEF LedgerInv

\* The only step that writes a handoffs row; it may also fail.
LEMMA RecordLedger ==
  \A x \in Exec : TypeOK /\ LedgerInv /\ RecordHandoff(x) => LedgerInv'
<1> SUFFICES ASSUME NEW x \in Exec, TypeOK, LedgerInv, RecordHandoff(x)
             PROVE  LedgerInv'
  OBVIOUS
<1> DEFINE row == [from_agent_id |-> task[x].from_agent_id,
                   to_agent_id   |-> task[x].new_agent_id,
                   to_kind       |-> task[x].to_kind,
                   exec          |-> x,
                   life          |-> life]
<1>1. /\ UNCHANGED <<fired, life>>
      /\ pc'[x] = "idle"
      /\ x # Engine => UNCHANGED <<pc[Engine], task[Engine]>>
      /\ pc[x] \in ExecutorOnly
  BY DEF RecordHandoff, Leave, onlyExec, TypeOK, TaskTypeOK, Exec, ExecutorOnly, PC
<1>2. CASE handoffs' = handoffs
  <2>1. Quiet
    BY <1>1, <1>2 DEF Quiet, PairOf, ExecutorOnly
  <2>2. QED
    BY <2>1, QuietStep
<1>3. CASE handoffs' = Append(handoffs, row)
  <2> PICK n : n = Len(handoffs) + 1
    OBVIOUS
  <2>1. /\ DOMAIN handoffs = 1 .. Len(handoffs)
        /\ DOMAIN handoffs' = DOMAIN handoffs \cup {n}
        /\ n \notin DOMAIN handoffs
        /\ handoffs'[n] = row
        /\ \A i \in DOMAIN handoffs : handoffs'[i] = handoffs[i]
    BY <1>3 DEF TypeOK, DbTypeOK
  <2>2. \A i \in DOMAIN handoffs : Key(i)' = Key(i)
    BY <2>1 DEF Key
  <2>3. Key(n)' = PairOf(x)
    BY <2>1 DEF Key, PairOf
  <2>4. \A l : EngineRows(l) \subseteq DOMAIN handoffs
    BY DEF EngineRows
  <2>5. \A l : EngineRows(l)' =
                 EngineRows(l) \cup IF x = Engine /\ l = life THEN {n} ELSE {}
    BY <2>1 DEF EngineRows
  <2>6. \A i \in DOMAIN handoffs' : handoffs'[i].life <= life'
    <3>1. life \in Nat
      BY DEF TypeOK, EnvTypeOK
    <3>2. QED
      BY <1>1, <2>1, <3>1 DEF LedgerInv, FiredCovers
  <2> HIDE DEF row
  <2>7. CASE x = Engine
    <3>1. PairOf(Engine) \in fired /\ \A i \in EngineRows(life) : Key(i) # PairOf(Engine)
      BY <1>1, <2>7 DEF LedgerInv, FiredCovers, PairOf
    <3>2. pc'[Engine] \notin ExecutorOnly
      BY <1>1, <2>7 DEF ExecutorOnly
    <3>3. FiredCovers'
      BY <1>1, <2>2, <2>3, <2>4, <2>5, <2>6, <2>7, <3>1, <3>2
         DEF LedgerInv, FiredCovers
    <3>4. ASSUME NEW l \in 0 .. life, NEW i \in EngineRows(l)', NEW j \in EngineRows(l)',
                 Key(i)' = Key(j)'
          PROVE  i = j
      <4>1. CASE i \in EngineRows(l) /\ j \in EngineRows(l)
        BY <2>2, <2>4, <3>4, <4>1 DEF LedgerInv, AtMostOncePerLife
      <4>2. CASE i = n /\ j \in EngineRows(life) /\ l = life
        BY <2>2, <2>3, <2>4, <2>7, <3>1, <3>4, <4>2
      <4>3. CASE j = n /\ i \in EngineRows(life) /\ l = life
        BY <2>2, <2>3, <2>4, <2>7, <3>1, <3>4, <4>3
      <4>4. QED
        BY <2>5, <4>1, <4>2, <4>3
    <3>5. AtMostOncePerLife'
      BY <1>1, <3>4 DEF AtMostOncePerLife
    <3>6. QED
      BY <3>3, <3>5 DEF LedgerInv
  <2>8. CASE x # Engine
    <3>1. \A l : EngineRows(l)' = EngineRows(l)
      BY <2>5, <2>8
    <3>2. AtMostOncePerLife'
      BY <1>1, <2>2, <2>4, <3>1 DEF LedgerInv, AtMostOncePerLife
    <3>3. FiredCovers'
      BY <1>1, <2>2, <2>4, <2>6, <2>8, <3>1 DEF LedgerInv, FiredCovers
    <3>4. QED
      BY <3>2, <3>3 DEF LedgerInv
  <2>9. QED
    BY <2>7, <2>8
<1>4. QED
  BY <1>2, <1>3 DEF RecordHandoff, insert_handoff

\* A restart forgets `fired`; the rows written before it belong to older lives.
LEMMA RestartLedger == TypeOK /\ LedgerInv /\ Restart => LedgerInv'
<1> SUFFICES ASSUME TypeOK, LedgerInv, Restart PROVE LedgerInv'
  OBVIOUS
<1>1. life \in Nat /\ life' = life + 1 /\ handoffs' = handoffs
  BY DEF Restart, TypeOK, EnvTypeOK, dbVars
<1>2. \A i \in DOMAIN handoffs : handoffs[i].life \in Nat /\ handoffs[i].life <= life
  <2>1. \A i \in DOMAIN handoffs : handoffs[i] \in HandoffRow
    BY DEF TypeOK, DbTypeOK
  <2>2. QED
    BY <2>1 DEF HandoffRow, LedgerInv, FiredCovers
<1>3. \A l : EngineRows(l)' = EngineRows(l)
  BY <1>1 DEF EngineRows
<1>4. EngineRows(life') = {}
  BY <1>1, <1>2 DEF EngineRows
<1>5. \A i : Key(i)' = Key(i)
  BY <1>1 DEF Key
<1>6. pc'[Engine] \notin ExecutorOnly
  BY DEF Restart, ExecutorOnly, Exec
<1>7. FiredCovers'
  BY <1>1, <1>2, <1>3, <1>4, <1>6 DEF FiredCovers
<1>8. AtMostOncePerLife'
  <2>1. \A l \in 0 .. life' : l \in 0 .. life \/ l = life'
    BY <1>1
  <2>2. QED
    BY <1>1, <1>3, <1>4, <1>5, <2>1 DEF LedgerInv, AtMostOncePerLife
<1>9. QED
  BY <1>7, <1>8 DEF LedgerInv

------------------------------------------------------------------------------
(* Every step is quiet, fires, records or restarts *)

LEMMA ExecuteQuiet ==
  \A x \in Exec : TypeOK /\ (Execute(x) \/ CancelManual(x)) => Quiet \/ RecordHandoff(x)
<1> SUFFICES ASSUME NEW x \in Exec, TypeOK, Execute(x) \/ CancelManual(x),
                    ~RecordHandoff(x)
             PROVE  Quiet
  BY DEF Execute
<1>1. pc \in [Exec -> PC] /\ task \in [Exec -> Task \cup {NoTask}] /\ Engine \in Exec
  BY DEF TypeOK, TaskTypeOK, Exec
<1>2. pc[x] \in ExecutorOnly /\ UNCHANGED <<handoffs, life, fired>>
  BY DEF Execute, Proceed, TakeSnapshot, Summarize, CancelManual, WriteSnapshot,
         InsertTarget, SpawnStarts, SpawnSkipped, SpawnFails, UpdatePid,
         ExecutorOnly, PC, onlyExec, dbVars
<1>3. task[x] \in Task
  BY <1>2 DEF TypeOK, TaskTypeOK
<1>4. \/ Leave(x)
      \/ /\ \E l \in ExecutorOnly : Goto(x, l)
         /\ \/ UNCHANGED task
            \/ \E a : task' = [task EXCEPT ![x].new_agent_id = a]
            \/ \E p : task' = [task EXCEPT ![x].new_pid = p]
  BY DEF Execute, Proceed, TakeSnapshot, Summarize, CancelManual, WriteSnapshot,
         InsertTarget, SpawnStarts, SpawnSkipped, SpawnFails, UpdatePid,
         ExecutorOnly, PC, Fails
<1>5. CASE Leave(x)
  BY <1>1, <1>2, <1>5 DEF Leave, Quiet, PairOf, ExecutorOnly
<1>6. CASE /\ \E l \in ExecutorOnly : Goto(x, l)
           /\ task'[x].from_agent_id = task[x].from_agent_id
           /\ task'[x].to_kind = task[x].to_kind
           /\ \A y \in Exec \ {x} : task'[y] = task[y]
  BY <1>1, <1>2, <1>6 DEF Goto, Quiet, PairOf
<1>7. CASE UNCHANGED task /\ \E l \in ExecutorOnly : Goto(x, l)
  BY <1>1, <1>6, <1>7
<1>8. ASSUME NEW a, task' = [task EXCEPT ![x].new_agent_id = a],
             \E l \in ExecutorOnly : Goto(x, l)
      PROVE  Quiet
  BY <1>1, <1>3, <1>6, <1>8 DEF Task
<1>9. ASSUME NEW p, task' = [task EXCEPT ![x].new_pid = p],
             \E l \in ExecutorOnly : Goto(x, l)
      PROVE  Quiet
  BY <1>1, <1>3, <1>6, <1>9 DEF Task
<1>10. QED
  BY <1>4, <1>5, <1>7, <1>8, <1>9

LEMMA StepKinds ==
  TypeOK /\ [Next]_vars =>
    Quiet \/ Fire \/ Restart \/ \E x \in Exec : RecordHandoff(x)
<1> SUFFICES ASSUME TypeOK, [Next]_vars,
                    ~Fire, ~Restart, \A x \in Exec : ~RecordHandoff(x)
             PROVE  Quiet
  OBVIOUS
<1>1. /\ pc \in [Exec -> PC] /\ task \in [Exec -> Task \cup {NoTask}]
      /\ Engine \in Exec /\ Manual \subseteq Exec
  BY DEF TypeOK, TaskTypeOK, Exec
<1>2. CASE Receive \/ ReadSample \/ Decline
  BY <1>1, <1>2 DEF Receive, ReadSample, Decline, AllSampled, Quiet, ExecutorOnly,
                    dbVars, envVars
<1>3. CASE \E x \in Exec : Execute(x) \/ CancelManual(x)
  BY <1>3, ExecuteQuiet
<1>4. ASSUME UNCHANGED <<handoffs, life, fired, pc, task>>
      PROVE  Quiet
  BY <1>4 DEF Quiet, PairOf
<1>5. CASE Environment
  <2>1. ASSUME NEW e, Offer(e) PROVE Quiet
    BY <1>4, <2>1 DEF Offer, dbVars
  <2>2. ASSUME NEW k, Register(k, NoPid, "user") PROVE Quiet
    BY <1>4, <2>2 DEF Register, memVars, envVars
  <2>3. ASSUME NEW a, StopAgent(a, "stopped") PROVE Quiet
    BY <1>4, <2>3 DEF StopAgent, memVars, envVars
  <2>4. ASSUME NEW a, NEW t, StoreSample(a, t) PROVE Quiet
    BY <1>4, <2>4 DEF StoreSample, memVars, envVars
  <2>5. ASSUME NEW p, EditConfig(p) \/ ProcessExits(p) PROVE Quiet
    BY <1>4, <2>5 DEF EditConfig, ProcessExits, dbVars, memVars
  <2>6. CASE TimePasses
    BY <1>4, <2>6 DEF TimePasses, Tick, memVars, envVars
  <2>7. QED
    BY <1>5, <2>1, <2>2, <2>3, <2>4, <2>5, <2>6 DEF Environment
<1>6. ASSUME NEW x \in Manual, NEW from, NEW k, NEW spawn,
             StartManual(x, from, k, spawn)
      PROVE  Quiet
  <2>1. x # Engine /\ UNCHANGED <<handoffs, life, fired>>
    BY <1>6, FailoverAssumption DEF StartManual, dbVars
  <2>2. \E t : task' = [task EXCEPT ![x] = t]
    BY <1>6 DEF StartManual
  <2>3. pc' = [pc EXCEPT ![x] = "snapshot"]
    BY <1>6 DEF StartManual
  <2>4. UNCHANGED <<pc[Engine], task[Engine]>>
    BY <1>1, <2>1, <2>2, <2>3
  <2>5. QED
    BY <2>1, <2>4 DEF Quiet, PairOf
<1>7. CASE UNCHANGED vars
  BY <1>4, <1>7 DEF vars, dbVars, memVars, envVars
<1>8. ASSUME NEW x \in Exec, Unwind(x)
      PROVE  Quiet
  BY <1>1, <1>8 DEF Unwind, Quiet, PairOf, ExecutorOnly, dbVars, envVars
<1>9. QED
  BY <1>1, <1>2, <1>3, <1>5, <1>6, <1>7, <1>8 DEF Next, EngineStep, Handle, ManualStep

LEMMA NextLedger == TypeOK /\ LedgerInv /\ [Next]_vars => LedgerInv'
  BY StepKinds, QuietStep, FireLedger, RecordLedger, RestartLedger

\* Between two restarts the engine records at most one handoff of an agent to
\* a kind, for any number of agents, events, manual handoffs and failures.
THEOREM AtMostOnce == Spec => []AtMostOncePerLife
<1>1. Spec => [](TypeOK /\ LedgerInv)
  BY InitLedger, NextLedger, InitType, NextType, PTL DEF Spec
<1>2. LedgerInv => AtMostOncePerLife
  BY DEF LedgerInv
<1>3. QED
  BY <1>1, <1>2, PTL

\* `fired` covers what the engine has recorded in this life and what it is
\* working on, which is new.
THEOREM FiredCoversAll == Spec => []FiredCovers
<1>1. Spec => [](TypeOK /\ LedgerInv)
  BY InitLedger, NextLedger, InitType, NextType, PTL DEF Spec
<1>2. LedgerInv => FiredCovers
  BY DEF LedgerInv
<1>3. QED
  BY <1>1, <1>2, PTL

------------------------------------------------------------------------------
(* The refinement *)

\* While no row is written, the recorded pairs stay.
LEMMA RowsSame ==
  ASSUME UNCHANGED <<handoffs, life>>
  PROVE  UNCHANGED RecordedPairs
  BY DEF RecordedPairs, EngineRows, Key

LEMMA QuietMaps == Quiet => Ledger!Abandon \/ UNCHANGED Ledger!ledger
<1> SUFFICES ASSUME Quiet PROVE Ledger!Abandon \/ UNCHANGED Ledger!ledger
  OBVIOUS
<1>1. UNCHANGED <<fired, life, RecordedPairs>>
  BY RowsSame DEF Quiet
<1>2. EnginePending' = EnginePending \/ EnginePending' = {}
  BY DEF Quiet, EnginePending, PairOf
<1>3. QED
  BY <1>1, <1>2 DEF Ledger!Abandon, Ledger!ledger

LEMMA FireMaps == TypeOK /\ Fire => Ledger!Commit
<1> SUFFICES ASSUME TypeOK, Fire PROVE Ledger!Commit
  OBVIOUS
<1>1. PICK k \in next_kind :
        /\ <<decision.ev.agent_id, k>> \notin fired
        /\ fired' = fired \cup {<<decision.ev.agent_id, k>>}
        /\ task'[Engine].from_agent_id = decision.ev.agent_id
        /\ task'[Engine].to_kind = k
  BY DEF Fire, has_fired, TypeOK, TaskTypeOK, Exec
<1>2. EnginePending = {}
  BY DEF Fire, AllSampled, EnginePending, ExecutorOnly
<1>3. pc'[Engine] \in ExecutorOnly
  BY DEF Fire, TypeOK, TaskTypeOK, Exec, ExecutorOnly, PC
<1>4. EnginePending' = {<<decision.ev.agent_id, k>>}
  BY <1>1, <1>3 DEF EnginePending
<1>5. UNCHANGED <<RecordedPairs, life>>
  BY RowsSame DEF Fire, dbVars, envVars
<1>6. QED
  BY <1>1, <1>2, <1>4, <1>5 DEF Ledger!Commit

LEMMA RecordMaps ==
  \A x \in Exec : TypeOK /\ LedgerInv /\ RecordHandoff(x) =>
    Ledger!Record \/ Ledger!Abandon \/ UNCHANGED Ledger!ledger
<1> SUFFICES ASSUME NEW x \in Exec, TypeOK, LedgerInv, RecordHandoff(x)
             PROVE  Ledger!Record \/ Ledger!Abandon \/ UNCHANGED Ledger!ledger
  OBVIOUS
<1> DEFINE row == [from_agent_id |-> task[x].from_agent_id,
                   to_agent_id   |-> task[x].new_agent_id,
                   to_kind       |-> task[x].to_kind,
                   exec          |-> x,
                   life          |-> life]
<1>1. /\ UNCHANGED <<fired, life>>
      /\ pc'[x] = "idle"
      /\ x # Engine => UNCHANGED <<pc[Engine], task[Engine]>>
      /\ pc[x] \in ExecutorOnly
  BY DEF RecordHandoff, Leave, onlyExec, TypeOK, TaskTypeOK, Exec, ExecutorOnly, PC
<1>2. IF x = Engine THEN EnginePending = {PairOf(Engine)} /\ EnginePending' = {}
                    ELSE EnginePending' = EnginePending
  BY <1>1 DEF EnginePending, PairOf, ExecutorOnly
<1>3. CASE handoffs' = handoffs
  <2>1. UNCHANGED RecordedPairs
    BY <1>1, <1>3, RowsSame
  <2>2. QED
    BY <1>1, <1>2, <2>1 DEF Ledger!Abandon, Ledger!ledger
<1>4. CASE handoffs' = Append(handoffs, row)
  <2> PICK n : n = Len(handoffs) + 1
    OBVIOUS
  <2>1. /\ DOMAIN handoffs = 1 .. Len(handoffs)
        /\ DOMAIN handoffs' = DOMAIN handoffs \cup {n}
        /\ n \notin DOMAIN handoffs
        /\ handoffs'[n] = row
        /\ \A i \in DOMAIN handoffs : handoffs'[i] = handoffs[i]
    BY <1>4 DEF TypeOK, DbTypeOK
  <2>2. \A i \in DOMAIN handoffs : Key(i)' = Key(i)
    BY <2>1 DEF Key
  <2>3. Key(n)' = PairOf(x)
    BY <2>1 DEF Key, PairOf
  <2>4. EngineRows(life)' = EngineRows(life) \cup IF x = Engine THEN {n} ELSE {}
    BY <1>1, <2>1 DEF EngineRows
  <2>5. EngineRows(life) \subseteq DOMAIN handoffs
    BY DEF EngineRows
  <2> HIDE DEF row
  <2>6. RecordedPairs' = RecordedPairs \cup IF x = Engine THEN {PairOf(x)} ELSE {}
    BY <2>2, <2>3, <2>4, <2>5 DEF RecordedPairs
  <2>7. x = Engine => PairOf(Engine) \notin RecordedPairs
    BY <1>1 DEF LedgerInv, FiredCovers, RecordedPairs, PairOf
  <2>8. QED
    BY <1>1, <1>2, <2>6, <2>7 DEF Ledger!Record, Ledger!ledger
<1>5. QED
  BY <1>3, <1>4 DEF RecordHandoff, insert_handoff

LEMMA RestartMaps == TypeOK /\ LedgerInv /\ Restart => Ledger!NewLife
<1> SUFFICES ASSUME TypeOK, LedgerInv, Restart PROVE Ledger!NewLife
  OBVIOUS
<1>1. life \in Nat /\ life' = life + 1 /\ handoffs' = handoffs
  BY DEF Restart, TypeOK, EnvTypeOK, dbVars
<1>2. \A i \in DOMAIN handoffs : handoffs[i].life \in Nat /\ handoffs[i].life <= life
  <2>1. \A i \in DOMAIN handoffs : handoffs[i] \in HandoffRow
    BY DEF TypeOK, DbTypeOK
  <2>2. QED
    BY <2>1 DEF HandoffRow, LedgerInv, FiredCovers
<1>3. EngineRows(life)' = {}
  BY <1>1, <1>2 DEF EngineRows
<1>4. RecordedPairs' = {}
  BY <1>3 DEF RecordedPairs
<1>5. EnginePending' = {}
  BY DEF Restart, EnginePending, ExecutorOnly, Exec
<1>6. QED
  BY <1>1, <1>4, <1>5 DEF Ledger!NewLife, Restart

\* The engine, with its channel, its database statements, concurrent manual
\* handoffs, failures and restarts, implements the ledger.
THEOREM Refinement == Spec => ImplementsLedger
<1>1. Init => Ledger!Init
  BY DEF Init, StorageInit, Ledger!Init, EnginePending, RecordedPairs, EngineRows,
         ExecutorOnly, Exec
<1>2. TypeOK /\ LedgerInv /\ [Next]_vars => [Ledger!Next]_(Ledger!ledger)
  BY StepKinds, QuietMaps, FireMaps, RecordMaps, RestartMaps DEF Ledger!Next
<1>3. Spec => [](TypeOK /\ LedgerInv)
  BY InitLedger, NextLedger, InitType, NextType, PTL DEF Spec
<1>4. QED
  BY <1>1, <1>2, <1>3, PTL DEF Spec, ImplementsLedger, Ledger!Spec

------------------------------------------------------------------------------
(* The baseline of an agent's budget *)

\* What BaselineOnlyRises asks of a step.
Rises ==
  life' = life =>
    /\ DOMAIN initial_tokens \subseteq DOMAIN initial_tokens'
    /\ \A a \in DOMAIN initial_tokens : initial_tokens[a] <= initial_tokens'[a]
    /\ Len(queue') < Len(queue) /\ pc'[Engine] # "dead" =>
         \/ Head(queue).tokens_remaining <= 0
         \/ Head(queue).tokens_remaining <= lookup(initial_tokens', Head(queue).agent_id)

LEMMA ReceiveRises ==
  ASSUME TypeOK, Receive
  PROVE  Rises
<1> DEFINE e == Head(queue)
<1>1. e \in RateEvent
  BY TailInSeq DEF Receive, TypeOK, EngineTypeOK
<1>2. e.agent_id \in Nat /\ e.tokens_remaining \in Int
  BY <1>1 DEF RateEvent, OptNat, NoValue
<1>3. initial_tokens' = raised(initial_tokens, e)
  BY DEF Receive
<1>4. \A a \in DOMAIN initial_tokens : initial_tokens[a] \in Nat
  BY DEF TypeOK, EngineTypeOK, MapTypeOK
<1>5. /\ DOMAIN initial_tokens \subseteq DOMAIN initial_tokens'
      /\ \A a \in DOMAIN initial_tokens : initial_tokens[a] <= initial_tokens'[a]
  BY <1>2, <1>3, <1>4 DEF raised
<1>6. e.tokens_remaining <= 0 \/ e.tokens_remaining <= lookup(initial_tokens', e.agent_id)
  BY <1>2, <1>3, <1>4 DEF raised, lookup
<1> QED BY <1>5, <1>6 DEF Rises

\* Every other step leaves the baselines alone, and takes nothing from the
\* channel unless it is closed.
KeepsBaseline ==
  /\ UNCHANGED initial_tokens
  /\ \/ UNCHANGED queue
     \/ \E e : queue' = Append(queue, e)
     \/ pc'[Engine] = "dead"

LEMMA KeepsRises ==
  ASSUME TypeOK, KeepsBaseline
  PROVE  Rises
<1>1. queue \in Seq(RateEvent) /\ \A a \in DOMAIN initial_tokens : initial_tokens[a] \in Nat
  BY DEF TypeOK, EngineTypeOK, MapTypeOK
<1>2. Len(queue') < Len(queue) => pc'[Engine] = "dead"
  BY <1>1 DEF KeepsBaseline
<1> QED BY <1>1, <1>2 DEF KeepsBaseline, Rises

LEMMA EnvironmentKeeps ==
  ASSUME Environment, ~Restart
  PROVE  KeepsBaseline
<1>1. ASSUME NEW e, Offer(e) PROVE KeepsBaseline
  BY <1>1 DEF Offer, KeepsBaseline
<1>2. ASSUME UNCHANGED memVars PROVE KeepsBaseline
  BY <1>2 DEF memVars, KeepsBaseline
<1> QED BY <1>1, <1>2 DEF Environment, Register, StopAgent, StoreSample, EditConfig,
          ProcessExits, TimePasses

LEMMA StepRises ==
  ASSUME TypeOK, [Next]_vars
  PROVE  Rises
<1>1. CASE Receive
  BY <1>1, ReceiveRises
<1>2. CASE Restart
  <2>1. life' # life
    BY <1>2 DEF Restart, TypeOK, EnvTypeOK
  <2> QED BY <2>1 DEF Rises
<1>3. CASE Environment /\ ~Restart
  BY <1>3, EnvironmentKeeps, KeepsRises
<1>4. CASE ReadSample \/ Decline \/ Fire
  BY <1>4, KeepsRises DEF ReadSample, Decline, Fire, KeepsBaseline
<1>5. ASSUME NEW x \in Exec, Execute(x) \/ CancelManual(x)
      PROVE  Rises
  <2>1. UNCHANGED <<queue, initial_tokens>>
    BY <1>5 DEF Execute, Proceed, TakeSnapshot, Summarize, CancelManual, WriteSnapshot,
      InsertTarget, SpawnStarts, SpawnSkipped, SpawnFails, UpdatePid, RecordHandoff, onlyExec
  <2> QED BY <2>1, KeepsRises DEF KeepsBaseline
<1>6. ASSUME NEW x \in Exec, Unwind(x)
      PROVE  Rises
  <2>1. pc \in [Exec -> PC] /\ Engine \in Exec
    BY DEF TypeOK, TaskTypeOK, Exec
  <2>2. KeepsBaseline
    BY <1>6, <2>1 DEF Unwind, KeepsBaseline
  <2> QED BY <2>2, KeepsRises
<1>7. ASSUME NEW x \in Manual, NEW from, NEW k, NEW spawn, StartManual(x, from, k, spawn)
      PROVE  Rises
  BY <1>7, KeepsRises DEF StartManual, KeepsBaseline
<1>8. CASE UNCHANGED vars
  BY <1>8, KeepsRises DEF vars, memVars, KeepsBaseline
<1>9. Engine \in Exec /\ Manual \subseteq Exec
  BY DEF Exec
<1> QED BY <1>1, <1>2, <1>3, <1>4, <1>5, <1>6, <1>7, <1>8, <1>9
     DEF Next, EngineStep, Handle, ManualStep

\* In one life of the daemon the baseline of an agent only rises, and every event
\* is judged against one that is at least its own number, in whatever order
\* events arrive (handle).
THEOREM BaselineRises == Spec => BaselineOnlyRises
<1>1. TypeOK /\ [Next]_vars => [Rises]_<<queue, initial_tokens, life>>
  BY StepRises
<1> QED BY <1>1, TypeCorrect, PTL DEF Spec, BaselineOnlyRises, Rises

------------------------------------------------------------------------------
(* The same with the callers of module Daemon *)

\* A caller's step changes nothing of the ledger.
LEMMA CallersQuiet ==
  ASSUME UNCHANGED <<handoffs, fired, pc, task, life>>
  PROVE  Quiet /\ UNCHANGED Ledger!ledger
<1>1. Quiet
  BY DEF Quiet, PairOf
<1>2. UNCHANGED <<EnginePending, RecordedPairs>>
  BY RowsSame DEF EnginePending
<1> QED BY <1>1, <1>2 DEF Ledger!ledger

LEMMA DaemonLedgerStep ==
  ASSUME TypeOK, LedgerInv, [DaemonNext]_allVars
  PROVE  LedgerInv' /\ [Ledger!Next]_(Ledger!ledger)
<1>1. CASE [Next]_vars
  BY <1>1, NextLedger, StepKinds, QuietMaps, FireMaps, RecordMaps, RestartMaps DEF Ledger!Next
<1>2. CASE UNCHANGED <<handoffs, fired, pc, task, life>>
  BY <1>2, CallersQuiet, QuietStep
<1> QED BY <1>1, <1>2, DaemonKinds, CallersApart

LEMMA DaemonLedger == DaemonSpec => [](TypeOK /\ LedgerInv)
<1>1. DaemonInit => LedgerInv
  BY InitLedger DEF DaemonInit
<1>2. TypeOK /\ LedgerInv /\ [DaemonNext]_allVars => LedgerInv'
  BY DaemonLedgerStep
<1> QED BY <1>1, <1>2, DaemonInvariant, PTL DEF DaemonSpec

\* Whatever requests, commands and processes do at the same time, the engine
\* records at most one handoff of an agent to a kind in one life.
THEOREM OnceBesideCallers == DaemonSpec => []AtMostOncePerLife
<1>1. LedgerInv => AtMostOncePerLife
  BY DEF LedgerInv
<1> QED BY <1>1, DaemonLedger, PTL

\* The daemon, with /ingest in its steps, clients that hang up, the commands of
\* the CLI and the processes they start, implements the ledger.
THEOREM DaemonRefinement == DaemonSpec => ImplementsLedger
<1>1. DaemonInit => Ledger!Init
  BY DEF DaemonInit, Init, StorageInit, Ledger!Init, EnginePending, RecordedPairs, EngineRows,
         ExecutorOnly, Exec
<1>2. TypeOK /\ LedgerInv /\ [DaemonNext]_allVars => [Ledger!Next]_(Ledger!ledger)
  BY DaemonLedgerStep
<1> QED BY <1>1, <1>2, DaemonLedger, PTL DEF DaemonSpec, ImplementsLedger, Ledger!Spec

LEMMA DaemonRises ==
  ASSUME TypeOK, [DaemonNext]_allVars
  PROVE  Rises
<1>1. CASE [Next]_vars
  BY <1>1, StepRises
<1>2. CASE UNCHANGED initial_tokens /\ (UNCHANGED queue \/ \E e : queue' = Append(queue, e))
  BY <1>2, KeepsRises DEF KeepsBaseline
<1> QED BY <1>1, <1>2, DaemonKinds, CallersApart

\* The baseline of an agent only rises in one life, in whatever order the
\* handlers enqueue what they were sent (ingest, handle).
THEOREM BaselineBesideCallers == DaemonSpec => BaselineOnlyRises
<1>1. TypeOK /\ [DaemonNext]_allVars => [Rises]_<<queue, initial_tokens, life>>
  BY DaemonRises
<1> QED BY <1>1, DaemonInvariant, PTL DEF DaemonSpec, BaselineOnlyRises, Rises
=============================================================================
