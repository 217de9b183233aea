------------------------------ MODULE Failover ------------------------------
(***************************************************************************)
(* The failover engine of crates/daemon (failover.rs) and the executor it  *)
(* shares with the manual `handoff` RPC.                                   *)
(*                                                                         *)
(* One task receives rate events from a bounded channel and handles them   *)
(* one at a time: it raises the agent's budget baseline, asks the policy   *)
(* whether to fire, chooses a target kind, marks the pair as fired and     *)
(* runs the executor.  Manual handoffs run the same executor in HTTP       *)
(* handlers, at the same time as the engine and as each other.  Each       *)
(* action below is the code between two points where another task can      *)
(* run: a database statement, an await, a channel operation.               *)
(*                                                                         *)
(* The rest of the system (HTTP handlers, agents, the user) is the         *)
(* environment: it registers and stops agents, stores samples, offers      *)
(* events, edits the configuration and restarts the daemon.  Module Daemon *)
(* replaces it with the handlers themselves.                               *)
(***************************************************************************)
EXTENDS Storage

CONSTANTS
  Engine,        \* the engine task
  Manual,        \* HTTP handler tasks that may run a manual handoff
  Headless,      \* the kinds whose adapter has a headless form
  Simulated,     \* the kind /simulate puts in its events
  Policies,      \* the configurations load returns as the user edits the
                 \* file; it returns the defaults for a broken one
  ChannelCap,    \* CHANNEL_CAP, 256 in the code
  TokenValues, RequestValues,   \* numbers a rate sample may carry
  Faults,        \* whether file and database operations may fail
  WideTexts,     \* whether a text over its limit may be cut inside a character
  MaxTime, MaxAgents, MaxEvents, MaxManual, MaxRestarts   \* bounds

ASSUME FailoverAssumption ==
  /\ Engine \notin Manual
  /\ Simulated \notin Kinds
  /\ Headless \subseteq Kinds
  /\ Policies \subseteq FailoverPolicy
  /\ Policies # {}
  /\ ChannelCap \in Nat \ {0}
  /\ TokenValues \subseteq OptNat
  /\ RequestValues \subseteq OptNat
  /\ Faults \in BOOLEAN
  /\ WideTexts \in BOOLEAN
  /\ {MaxTime, MaxAgents, MaxEvents, MaxManual, MaxRestarts} \subseteq Nat

VARIABLES
  policy,          \* the [failover] table now on disk
  queue,           \* the mpsc channel
  fired,           \* FailoverEngine.fired
  initial_tokens,  \* FailoverEngine.initial_tokens, a HashMap
  decision,        \* locals of handle between should_trigger and `fired`
  pc,              \* per executor task, where it is
  task,            \* per executor task, ExecuteRequest and its results
  live,            \* pids with a live process
  sent, manuals,   \* events enqueued and manual handoffs begun (bounded)
  life             \* daemon restarts so far

memVars == <<queue, fired, initial_tokens, decision, pc, task>>
envVars == <<policy, live, sent, manuals, life>>
vars == <<dbVars, memVars, envVars>>

Exec == {Engine} \cup Manual

RateEvent ==
  [agent_id           : Nat,
   kind               : Kinds \cup {Simulated},
   tokens_remaining   : OptNat,
   requests_remaining : OptNat]

\* ExecuteRequest, with the id and pid execute_inner finds on its way.
Task ==
  [from_agent_id : Nat,
   to_kind       : Kinds,
   auto_spawn    : BOOLEAN,
   summarize     : BOOLEAN,
   use_worktree  : BOOLEAN,
   new_agent_id  : Nat,
   new_pid       : Pids \cup {NoPid}]

NoTask == [idle |-> TRUE]

\* policy, samples and loop position of handle while it chooses a target
Decision ==
  [ev      : RateEvent,
   policy  : FailoverPolicy,
   samples : [Kinds -> OptNat],
   scanned : Nat]

NoDecision == [idle |-> TRUE]

\* The columns of a handoffs row, and three history fields for the
\* properties: the kind asked for, the task that ran it, and the daemon's life.
HandoffRow ==
  [from_agent_id : Nat, to_agent_id : Nat,
   to_kind : Kinds, exec : Exec, life : Nat]

PC == {"idle", "choose", "snapshot", "summarize", "write", "insert_agent",
       "spawn", "update_pid", "insert_handoff", "dead"}

Init ==
  /\ StorageInit
  /\ policy \in Policies
  /\ queue = <<>>
  /\ fired = {}
  /\ initial_tokens = [a \in {} |-> 0]
  /\ decision = NoDecision
  /\ pc = [x \in Exec |-> "idle"]
  /\ task = [x \in Exec |-> NoTask]
  /\ live = {}
  /\ sent = 0
  /\ manuals = 0
  /\ life = 0

------------------------------------------------------------------------------
(* handle: the engine's event loop, up to the call of execute_inner *)

lookup(map, a) == IF a \in DOMAIN map THEN map[a] ELSE NoValue

\* Seeded fault: the first number is kept, even if it is zero.
raised_first(map, e) ==
  IF e.agent_id \in DOMAIN map \/ e.tokens_remaining = NoValue
  THEN map
  ELSE [a \in DOMAIN map \cup {e.agent_id} |->
          IF a = e.agent_id THEN e.tokens_remaining ELSE map[a]]

raised(map, e) ==
  LET prev == IF e.agent_id \in DOMAIN map THEN map[e.agent_id] ELSE 0 IN
  IF e.tokens_remaining > prev
  THEN [a \in DOMAIN map \cup {e.agent_id} |->
          IF a = e.agent_id THEN e.tokens_remaining ELSE map[a]]
  ELSE map

\* recv() frees the channel slot at once.  An agent without a project, or
\* whose project cannot be read, is dropped after its tokens have been
\* remembered.
Receive ==
  /\ pc[Engine] = "idle"
  /\ queue # <<>>
  /\ queue' = Tail(queue)
  /\ LET e == Head(queue)
         budget == raised(initial_tokens, e)
         trigger == should_trigger(policy, e.tokens_remaining,
                                   e.requests_remaining,
                                   lookup(budget, e.agent_id))
     IN  /\ initial_tokens' = budget
         /\ \/ /\ e.agent_id \in DOMAIN agents
               /\ trigger
               /\ decision' = [ev      |-> e,
                               policy  |-> policy,
                               samples |-> [k \in Kinds |-> NoValue],
                               scanned |-> 0]
               /\ pc' = [pc EXCEPT ![Engine] = "choose"]
            \/ /\ e.agent_id \notin DOMAIN agents \/ Faults \/ ~trigger
               /\ UNCHANGED <<decision, pc>>
  /\ UNCHANGED <<dbVars, envVars, fired, task>>

\* One database statement per kind of the chain, in chain order.  A failed
\* one counts as no sample, and of a kind named twice the first sample counts.
ReadSample ==
  /\ pc[Engine] = "choose"
  /\ decision.scanned < Len(decision.policy.chain)
  /\ LET k == decision.policy.chain[decision.scanned + 1]
         failed == IF Faults THEN {NoValue} ELSE {}
     IN  \E s \in latest_rate_sample_for_kind(k) \cup failed :
           decision' =
             [decision EXCEPT !.samples[k] = IF @ = NoValue THEN s ELSE @,
                              !.scanned = @ + 1]
  /\ UNCHANGED <<dbVars, envVars, queue, fired, initial_tokens, pc, task>>

AllSampled ==
  /\ pc[Engine] = "choose"
  /\ decision.scanned >= Len(decision.policy.chain)

next_kind ==
  pick_next(decision.policy.chain, decision.ev.kind, decision.samples)

\* Seeded fault: the pair is not looked up.
has_fired_unseen(key) == FALSE

has_fired(key) == key \in fired

\* There is nobody to hand over to, or the pair has fired before.
Decline ==
  /\ AllSampled
  /\ \A k \in next_kind : has_fired(<<decision.ev.agent_id, k>>)
  /\ pc' = [pc EXCEPT ![Engine] = "idle"]
  /\ decision' = NoDecision
  /\ UNCHANGED <<dbVars, envVars, queue, fired, initial_tokens, task>>

\* The pair is marked before anything is executed, and never unmarked.
Fire ==
  /\ AllSampled
  /\ \E k \in next_kind :
       /\ ~has_fired(<<decision.ev.agent_id, k>>)
       /\ fired' = fired \cup {<<decision.ev.agent_id, k>>}
       /\ task' = [task EXCEPT ![Engine] =
                     [from_agent_id |-> decision.ev.agent_id,
                      to_kind       |-> k,
                      auto_spawn    |-> decision.policy.auto_spawn,
                      summarize     |-> decision.policy.summarize,
                      use_worktree  |-> decision.policy.use_worktree,
                      new_agent_id  |-> NoRow,
                      new_pid       |-> NoPid]]
  /\ pc' = [pc EXCEPT ![Engine] = "snapshot"]
  /\ decision' = NoDecision
  /\ UNCHANGED <<dbVars, envVars, queue, initial_tokens>>

------------------------------------------------------------------------------
(* execute: a manual handoff.  It neither consults nor updates `fired`. *)

StartManual(x, from, kind, spawn) ==
  /\ x \in Manual
  /\ pc[x] = "idle"
  /\ manuals < MaxManual
  /\ manuals' = manuals + 1
  /\ task' = [task EXCEPT ![x] =
                [from_agent_id |-> from,
                 to_kind       |-> kind,
                 auto_spawn    |-> spawn,
                 summarize     |-> policy.summarize,
                 use_worktree  |-> policy.use_worktree,
                 new_agent_id  |-> NoRow,
                 new_pid       |-> NoPid]]
  /\ pc' = [pc EXCEPT ![x] = "snapshot"]
  /\ UNCHANGED <<dbVars, queue, fired, initial_tokens, decision,
                 policy, live, sent, life>>

------------------------------------------------------------------------------
(* execute_inner, by the engine or by a manual handoff *)

Goto(x, l) == pc' = [pc EXCEPT ![x] = l]

\* Seeded fault: the event loop ends with its first handoff.
Leave_ending(x) ==
  /\ pc' = [pc EXCEPT ![x] = IF x = Engine THEN "ended" ELSE "idle"]
  /\ task' = [task EXCEPT ![x] = NoTask]

\* Return: the locals are gone.
Leave(x) ==
  /\ pc' = [pc EXCEPT ![x] = "idle"]
  /\ task' = [task EXCEPT ![x] = NoTask]

\* Seeded fault: an error ends the event loop.
Fails_ending(x) == Faults /\ Leave_ending(x)

\* The `?` operator: the engine logs the error and takes the next event, a
\* manual handoff answers with it.
Fails(x) == Faults /\ Leave(x)

onlyExec == <<queue, fired, initial_tokens, decision, policy, sent, manuals, life>>

TakeSnapshot(x) ==
  /\ pc[x] = "snapshot"
  /\ \/ /\ Goto(x, IF task[x].summarize THEN "summarize" ELSE "write")
        /\ UNCHANGED task
     \/ Fails(x)
  /\ UNCHANGED <<dbVars, onlyExec, live>>

\* The summarizer is an agent run to completion without a timeout.  Its
\* failure is logged, and the handoff goes on with the plain snapshot.
Summarize(x) ==
  /\ pc[x] = "summarize"
  /\ Goto(x, "write")
  /\ UNCHANGED <<dbVars, onlyExec, live, task>>

\* The client of a manual handoff hangs up (the CLI gives up after 5 s) and
\* the handler is dropped at the only await at which it can be waiting.
CancelManual(x) ==
  /\ x \in Manual
  /\ pc[x] = "summarize"
  /\ Leave(x)
  /\ UNCHANGED <<dbVars, onlyExec, live>>

WriteSnapshot(x) ==
  /\ pc[x] = "write"
  /\ \/ /\ Goto(x, IF task[x].auto_spawn THEN "insert_agent"
                                         ELSE "insert_handoff")
        /\ UNCHANGED task
     \/ Fails(x)
  /\ UNCHANGED <<dbVars, onlyExec, live>>

\* The row is inserted first, running and without a pid, for its id.
InsertTarget(x) ==
  /\ pc[x] = "insert_agent"
  /\ \/ /\ insert_agent(task[x].to_kind, NoPid, "handoff")
        /\ task' = [task EXCEPT ![x].new_agent_id = next_agent_id]
        /\ Goto(x, "spawn")
     \/ /\ Fails(x)
        /\ UNCHANGED agents
  /\ UNCHANGED <<now, latest, handoffs, onlyExec, live>>

\* headless_spawn returns Ok(Some(child)).
SpawnStarts(x) ==
  /\ pc[x] = "spawn"
  /\ task[x].to_kind \in Headless
  /\ \E p \in Pids \ live :
       /\ live' = live \cup {p}
       /\ task' = [task EXCEPT ![x].new_pid = p]
  /\ Goto(x, "update_pid")
  /\ UNCHANGED <<dbVars, onlyExec>>

\* It returns Ok(None): the kind has no headless form.
SpawnSkipped(x) ==
  /\ pc[x] = "spawn"
  /\ task[x].to_kind \notin Headless
  /\ Goto(x, "insert_handoff")
  /\ UNCHANGED <<dbVars, onlyExec, live, task>>

\* Seeded fault: the error is returned and the handoff not recorded.
SpawnFails_aborting(x) ==
  /\ pc[x] = "spawn"
  /\ task[x].use_worktree \/ task[x].to_kind \in Headless
  /\ Leave(x)
  /\ UNCHANGED <<dbVars, onlyExec, live>>

\* It returns Err: git cannot create the worktree, or the program is not on
\* PATH or does not start.  That is logged; the agent row stays running.
SpawnFails(x) ==
  /\ pc[x] = "spawn"
  /\ task[x].use_worktree \/ task[x].to_kind \in Headless
  /\ Goto(x, "insert_handoff")
  /\ UNCHANGED <<dbVars, onlyExec, live, task>>

UpdatePid(x) ==
  /\ pc[x] = "update_pid"
  /\ \/ /\ update_agent_pid(task[x].new_agent_id, task[x].new_pid)
        /\ Goto(x, "insert_handoff")
        /\ UNCHANGED task
     \/ /\ Fails(x)
        /\ UNCHANGED agents
  /\ UNCHANGED <<now, latest, handoffs, onlyExec, live>>

\* A manual handoff may name a from_agent_id that does not exist; the foreign
\* key then fails the insert, after the target has been started.
RecordHandoff(x) ==
  /\ pc[x] = "insert_handoff"
  /\ \/ /\ references_exist(task[x].from_agent_id)
        /\ insert_handoff([from_agent_id |-> task[x].from_agent_id,
                           to_agent_id   |-> task[x].new_agent_id,
                           to_kind       |-> task[x].to_kind,
                           exec          |-> x,
                           life          |-> life])
     \/ /\ Faults \/ ~references_exist(task[x].from_agent_id)
        /\ UNCHANGED handoffs
  /\ Leave(x)
  /\ UNCHANGED <<now, agents, latest, onlyExec, live>>

\* truncate cuts a long git diff, brain or scratch file at a byte offset and
\* panics inside a multi-byte character.  The connection of a manual handoff is
\* closed; the engine's task ends and takes the receiver with it, so that what
\* is queued is lost and nothing more can be enqueued.
Unwind(x) ==
  /\ WideTexts
  /\ pc[x] \in {"snapshot", "summarize"}
  /\ task' = [task EXCEPT ![x] = NoTask]
  /\ pc' = [pc EXCEPT ![x] = IF x = Engine THEN "dead" ELSE "idle"]
  /\ queue' = IF x = Engine THEN <<>> ELSE queue
  /\ UNCHANGED <<dbVars, fired, initial_tokens, decision, envVars>>

\* Every step but the one that starts a process.
Proceed(x) ==
  \/ TakeSnapshot(x) \/ Summarize(x) \/ WriteSnapshot(x)
  \/ InsertTarget(x) \/ SpawnSkipped(x) \/ SpawnFails(x)
  \/ UpdatePid(x) \/ RecordHandoff(x)

Execute(x) == Proceed(x) \/ SpawnStarts(x)

Handle == Receive \/ ReadSample \/ Decline \/ Fire

EngineStep == Handle \/ Execute(Engine) \/ Unwind(Engine)

------------------------------------------------------------------------------
(* The environment *)

\* Seeded fault: one place too many.
has_room_inclusive == Len(queue) <= ChannelCap

has_room == Len(queue) < ChannelCap

\* A sender completes Sender::send; with the channel full it stays blocked.
Offer(e) ==
  /\ pc[Engine] # "dead"
  /\ sent < MaxEvents
  /\ has_room
  /\ queue' = Append(queue, e)
  /\ sent' = sent + 1
  /\ UNCHANGED <<dbVars, fired, initial_tokens, decision, pc, task,
                 policy, live, manuals, life>>

Register(kind, pid, spawned_by) ==
  /\ Len(agents) < MaxAgents
  /\ insert_agent(kind, pid, spawned_by)
  /\ UNCHANGED <<now, latest, handoffs, memVars, envVars>>

StopAgent(a, status) ==
  /\ mark_agent_stopped(a, status)
  /\ UNCHANGED <<now, latest, handoffs, memVars, envVars>>

StoreSample(a, tokens) ==
  /\ insert_rate_sample(a, tokens)
  /\ UNCHANGED <<now, agents, handoffs, memVars, envVars>>

EditConfig(p) ==
  /\ policy' = p
  /\ UNCHANGED <<dbVars, memVars, live, sent, manuals, life>>

\* Nobody waits for an agent the engine has spawned: its row stays running.
ProcessExits(p) ==
  /\ p \in live
  /\ live' = live \ {p}
  /\ UNCHANGED <<dbVars, memVars, policy, sent, manuals, life>>

TimePasses == Tick(MaxTime) /\ UNCHANGED <<memVars, envVars>>

\* The daemon is killed or crashes, and is started again: what is not in the
\* database or on disk is lost.  Agent processes go on.
Restart ==
  /\ life < MaxRestarts
  /\ life' = life + 1
  /\ queue' = <<>>
  /\ fired' = {}
  /\ initial_tokens' = [a \in {} |-> 0]
  /\ decision' = NoDecision
  /\ pc' = [x \in Exec |-> "idle"]
  /\ task' = [x \in Exec |-> NoTask]
  /\ UNCHANGED <<dbVars, policy, live, sent, manuals>>

Events ==
  [agent_id           : DOMAIN agents \cup {Len(agents) + 1},
   kind               : Kinds \cup {Simulated},
   tokens_remaining   : TokenValues,
   requests_remaining : RequestValues]

Environment ==
  \/ \E e \in Events : Offer(e)
  \/ \E k \in Kinds : Register(k, NoPid, "user")
  \/ \E a \in DOMAIN agents : StopAgent(a, "stopped")
  \/ \E a \in DOMAIN agents, t \in TokenValues : StoreSample(a, t)
  \/ \E p \in Policies : EditConfig(p)
  \/ \E p \in Pids : ProcessExits(p)
  \/ TimePasses
  \/ Restart

ManualStep ==
  \E x \in Manual :
    \/ \E from \in {NoRow, Len(agents) + 1} \cup DOMAIN agents,
          k \in Kinds, spawn \in BOOLEAN : StartManual(x, from, k, spawn)
    \/ Execute(x)
    \/ CancelManual(x)
    \/ Unwind(x)

Next == EngineStep \/ ManualStep \/ Environment

Spec == Init /\ [][Next]_vars

------------------------------------------------------------------------------
(* Properties *)

ExecutorOnly == PC \ {"idle", "choose", "dead"}

DbTypeOK ==
  /\ now \in Nat
  /\ agents \in Seq(AgentRow)
  /\ latest \in [Kinds -> [ts : Nat, tokens : SUBSET OptNat]]
  /\ handoffs \in Seq(HandoffRow)

MapTypeOK ==
  /\ DOMAIN initial_tokens \subseteq Nat
  /\ initial_tokens = [a \in DOMAIN initial_tokens |-> initial_tokens[a]]
  /\ \A a \in DOMAIN initial_tokens : initial_tokens[a] \in Nat

EngineTypeOK ==
  /\ queue \in Seq(RateEvent)
  /\ Len(queue) <= ChannelCap
  /\ fired \subseteq Nat \X Kinds
  /\ MapTypeOK
  /\ decision \in Decision \cup {NoDecision}
  /\ pc[Engine] = "choose" => decision \in Decision

TaskTypeOK ==
  /\ pc \in [Exec -> PC]
  /\ task \in [Exec -> Task \cup {NoTask}]
  /\ \A x \in Exec : pc[x] \in ExecutorOnly => task[x] \in Task

EnvTypeOK ==
  /\ policy \in Policies
  /\ live \subseteq Pids
  /\ sent \in 0 .. MaxEvents
  /\ manuals \in 0 .. MaxManual
  /\ life \in 0 .. MaxRestarts

\* The types of the variables, the capacity of the channel, and which locals
\* a task has where it is.
TypeOK == DbTypeOK /\ EngineTypeOK /\ TaskTypeOK /\ EnvTypeOK

EngineRows(l) ==
  {i \in DOMAIN handoffs : handoffs[i].exec = Engine /\ handoffs[i].life = l}

Key(i) == <<handoffs[i].from_agent_id, handoffs[i].to_kind>>

\* Between two restarts the engine records at most one handoff of an agent to
\* a kind, however many low samples arrive while the first one is being
\* executed or after it has failed (the `fired` set of failover.rs).
AtMostOncePerLife ==
  \A l \in 0 .. life : \A i, j \in EngineRows(l) : Key(i) = Key(j) => i = j

\* Why that is so: rows carry the life they were written in, every pair the
\* engine has recorded in this life is in `fired`, and the one it is working
\* on was not when it was chosen (the inductive invariant of the proof).
FiredCovers ==
  /\ \A i \in DOMAIN handoffs : handoffs[i].life <= life
  /\ \A i \in EngineRows(life) : Key(i) \in fired
  /\ pc[Engine] \in ExecutorOnly =>
       LET k == <<task[Engine].from_agent_id, task[Engine].to_kind>> IN
       k \in fired /\ \A i \in EngineRows(life) : Key(i) # k

\* Executors that have inserted their target and not yet left.
Holding ==
  {x \in Exec : pc[x] \in ExecutorOnly /\ task[x].new_agent_id # NoRow}

\* A target row belongs to one handoff: the engine and concurrent manual
\* handoffs never record, or work on, the same new agent, and the recorded
\* row is of the kind that was asked for (execute_inner takes the id from
\* insert_agent, under the connection lock).
TargetsUnique ==
  /\ \A i \in DOMAIN handoffs :
       LET t == handoffs[i].to_agent_id IN
       t # NoRow =>
         /\ t \in DOMAIN agents
         /\ agents[t].kind = handoffs[i].to_kind
         /\ agents[t].spawned_by = "handoff"
         /\ \A j \in DOMAIN handoffs \ {i} : handoffs[j].to_agent_id # t
         /\ \A x \in Holding : task[x].new_agent_id # t
  /\ \A x, y \in Holding :
       task[x].new_agent_id = task[y].new_agent_id => x = y

\* No step changes the identity of an agent row or the pid it has got, and
\* none revives a stopped one: the pid an executor writes after its child
\* has started reaches the row that same executor inserted, whatever was
\* inserted in between (update_agent_pid, mark_agent_stopped).
RowsKeepIdentity ==
  [][/\ DOMAIN agents \subseteq DOMAIN agents'
     /\ \A a \in DOMAIN agents :
          /\ agents'[a].kind = agents[a].kind
          /\ agents'[a].spawned_by = agents[a].spawned_by
          /\ agents'[a].started_at = agents[a].started_at
          /\ agents[a].pid # NoPid => agents'[a].pid = agents[a].pid
          /\ agents[a].status # "running" => agents'[a].status # "running"]_agents

\* The budget baseline of an agent is never lowered while the daemon lives,
\* and no event is turned down or fired on against a smaller baseline than
\* the tokens that event itself reports (initial_tokens: "highest ever seen").
BaselineOnlyRises ==
  [][life' = life =>
       /\ DOMAIN initial_tokens \subseteq DOMAIN initial_tokens'
       /\ \A a \in DOMAIN initial_tokens : initial_tokens[a] <= initial_tokens'[a]
       /\ Len(queue') < Len(queue) /\ pc'[Engine] # "dead" =>
            \/ Head(queue).tokens_remaining <= 0
            \/ Head(queue).tokens_remaining
                 <= lookup(initial_tokens', Head(queue).agent_id)
    ]_<<queue, initial_tokens, life>>

------------------------------------------------------------------------------
(* The abstract specification that the engine implements *)

EnginePending ==
  IF pc[Engine] \in ExecutorOnly
  THEN {<<task[Engine].from_agent_id, task[Engine].to_kind>>}
  ELSE {}

RecordedPairs == {Key(i) : i \in EngineRows(life)}

Ledger == INSTANCE HandoffLedger WITH committed <- fired,
                                      pending   <- EnginePending,
                                      recorded  <- RecordedPairs

\* Automatic failover keeps the promises of HandoffLedger: it commits to a
\* pair once per life, works on one at a time, and a commitment whose
\* execution fails is dropped, never retried (handle and execute_inner).
ImplementsLedger == Ledger!Spec

------------------------------------------------------------------------------
(* Liveness *)

\* The runtime keeps polling a task that can go on.  Nothing makes an agent
\* program that was asked for a brief return.
EngineRuns ==
  \/ Handle
  \/ Execute(Engine) /\ pc[Engine] # "summarize"

FairSpec == Spec /\ WF_vars(EngineRuns)

AwaitingBrief == pc[Engine] = "summarize"

Queued(n) == sent - Len(queue) < n /\ n <= sent

\* Every event in the channel is received in the end, unless the engine is
\* left waiting for a summarizer that does not return: no error of an earlier
\* handoff stops the loop (FailoverEngine::spawn logs and goes on).  Panics are
\* the subject of another run.
EventsAreTaken ==
  \A n \in 1 .. MaxEvents : Queued(n) ~> (~Queued(n) \/ AwaitingBrief)
=============================================================================
