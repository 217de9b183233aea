------------------------------- MODULE Daemon -------------------------------
(***************************************************************************)
(* The daemon's HTTP surface (crates/daemon/src/lib.rs) composed with the  *)
(* failover engine, and the processes that call it: agents whose traffic   *)
(* the proxy or the editor extension reports, `handoff spawn`, `handoff    *)
(* attach`, `handoff handoff` and `handoff simulate-limit`.                *)
(*                                                                         *)
(* A POST /ingest is handled in steps, because another handler or the      *)
(* engine can run between its database statements: it resolves the pid to  *)
(* an agent row, or inserts one, stores what it was sent and enqueues an   *)
(* event.  The actions of Failover that stood for an arbitrary environment *)
(* are taken here only by these callers.                                   *)
(***************************************************************************)
EXTENDS Failover

CONSTANTS
  Handlers,      \* HTTP handler tasks that may run /ingest or /simulate
  Programs,      \* agent programs and editors; those of Kinds are agents
  Reported,      \* Reported[g]: the kinds the traffic of program g goes under
  Launchable,    \* the programs the user starts from a shell
  Spawnable,     \* the kinds the user starts with `handoff spawn`
  Attachable,    \* the kinds the user attaches
  HangUps,       \* whether clients time out while the channel is full
  MaxPosts       \* bound on requests to /ingest and /simulate

ASSUME DaemonAssumption ==
  /\ Kinds # {} /\ Kinds \subseteq Programs
  /\ Reported \in [Programs -> SUBSET Kinds]
  /\ Launchable \subseteq Programs
  /\ Spawnable \subseteq Kinds
  /\ Attachable \subseteq Kinds
  /\ HangUps \in BOOLEAN
  /\ MaxPosts \in Nat

VARIABLES
  program,     \* per pid, the program last started under it
  starting,    \* children of `handoff spawn` whose row is not yet registered
  spawned,     \* per pid, the row its `handoff spawn` has registered
  stopping,    \* rows `handoff spawn` is about to report as stopped
  hpc, req,    \* per handler, where it is and the request it serves
  counts,      \* table request_counts
  posts,       \* requests so far (bounded)
  seen,        \* history: per handler that has found no row for a pid, the
               \* rows that carried the pid when it looked
  looked       \* history: the same, per row that a handler has inserted since

cliVars == <<program, starting, spawned, stopping>>
lookups == <<seen, looked>>
httpVars == <<hpc, req, counts, posts, lookups>>
allVars == <<vars, cliVars, httpVars>>

IngestPayload ==
  [pid         : Pids \cup {NoPid},     \* NoPid: the proxy found no process
   kind        : Kinds,
   limited     : BOOLEAN,               \* status_code = 429
   sampled     : BOOLEAN,               \* sample is Some
   tokens      : OptNat,
   requests    : OptNat]

Request ==
  [payload : IngestPayload, agent : Nat, event : RateEvent]

NoRequest == [idle |-> TRUE]

NoEvent == [agent_id |-> NoRow, kind |-> Simulated,
            tokens_remaining |-> NoValue, requests_remaining |-> NoValue]

DaemonInit ==
  /\ Init
  /\ program = [p \in Pids |-> CHOOSE g \in Programs : TRUE]
  /\ starting = {}
  /\ spawned = [p \in Pids |-> NoRow]
  /\ stopping = {}
  /\ hpc = [h \in Handlers |-> "idle"]
  /\ req = [h \in Handlers |-> NoRequest]
  /\ counts = [a \in {} |-> 0]
  /\ posts = 0
  /\ seen = [h \in Handlers |-> {}]
  /\ looked = [a \in {} |-> {}]

------------------------------------------------------------------------------
(* POST /ingest and POST /simulate *)

\* The handler returns its response.
Respond(h) ==
  /\ hpc' = [hpc EXCEPT ![h] = "idle"]
  /\ req' = [req EXCEPT ![h] = NoRequest]

\* A response or heartbeat of a live process is reported.  What is sampled is
\* a response with rate-limit headers; an opaque provider has none.
PostIngest(h, p) ==
  /\ hpc[h] = "idle"
  /\ posts < MaxPosts
  /\ posts' = posts + 1
  /\ p \in live
  /\ \E k \in Reported[program[p]], pid \in {p, NoPid}, limited \in BOOLEAN,
        sampled \in BOOLEAN, t \in TokenValues, r \in RequestValues :
       /\ req' = [req EXCEPT ![h] =
                    [payload |-> [pid |-> pid, kind |-> k, limited |-> limited,
                                  sampled  |-> sampled,
                                  tokens   |-> IF sampled THEN t ELSE NoValue,
                                  requests |-> IF sampled THEN r ELSE NoValue],
                     agent   |-> NoRow,
                     event   |-> NoEvent]]
       /\ hpc' = [hpc EXCEPT ![h] = "find"]
  /\ UNCHANGED <<vars, cliVars, counts, lookups>>

\* It goes on to insert a row.
GoInsert(h) ==
  /\ hpc' = [hpc EXCEPT ![h] = "insert"]
  /\ seen' = [seen EXCEPT ![h] =
       {a \in DOMAIN agents : agents[a].pid = req[h].payload.pid}]
  /\ UNCHANGED req

\* Seeded fault: a query that fails is taken for "no row".
FindAgent_assuming_none(h) ==
  /\ hpc[h] = "find"
  /\ req[h].payload.pid # NoPid
  /\ Faults \/ find_agent_by_pid(req[h].payload.pid) = {}
  /\ GoInsert(h)
  /\ UNCHANGED <<vars, cliVars, counts, posts, looked>>

\* resolve_agent_id, first statement.  Without a pid, or when the query fails,
\* the response is not charged to anyone.
FindAgent(h) ==
  /\ hpc[h] = "find"
  /\ LET p == req[h].payload.pid
         found == find_agent_by_pid(p)
     IN  \/ /\ p = NoPid \/ Faults
            /\ Respond(h)
            /\ UNCHANGED seen
         \/ /\ p # NoPid
            /\ found = {}
            /\ GoInsert(h)
         \/ /\ p # NoPid
            /\ \E a \in found : req' = [req EXCEPT ![h].agent = a]
            /\ hpc' = [hpc EXCEPT ![h] = "store"]
            /\ UNCHANGED seen
  /\ UNCHANGED <<vars, cliVars, counts, posts, looked>>

\* resolve_agent_id, second statement: the process gets a row of its own.
InsertUser(h) ==
  /\ hpc[h] = "insert"
  /\ \/ /\ insert_agent(req[h].payload.kind, req[h].payload.pid, "user")
        /\ req' = [req EXCEPT ![h].agent = next_agent_id]
        /\ hpc' = [hpc EXCEPT ![h] = "store"]
        /\ looked' = [a \in DOMAIN looked \cup {next_agent_id} |->
                       IF a = next_agent_id THEN seen[h] ELSE looked[a]]
     \/ /\ Faults
        /\ Respond(h)
        /\ UNCHANGED <<agents, looked>>
  /\ seen' = [seen EXCEPT ![h] = {}]
  /\ UNCHANGED <<now, latest, handoffs, memVars, envVars, cliVars, counts, posts>>

\* bump_request_count: INSERT ... ON CONFLICT DO UPDATE.
bumped(a, limited) ==
  LET one == IF limited THEN 1 ELSE 0
      old == IF a \in DOMAIN counts THEN counts[a]
                                    ELSE [total |-> 0, rate_limited |-> 0]
  IN  [b \in DOMAIN counts \cup {a} |->
         IF b = a THEN [total        |-> old.total + 1,
                        rate_limited |-> old.rate_limited + one]
                  ELSE counts[b]]

\* The two statements after resolve_agent_id, on different tables that no
\* other step reads together.  Their errors are ignored, so an event may be
\* enqueued for a sample that was not stored.
Store(h) ==
  /\ hpc[h] = "store"
  /\ LET q == req[h].payload
         a == req[h].agent
     IN  /\ \/ counts' = bumped(a, q.limited)
            \/ Faults /\ UNCHANGED counts
         /\ \/ q.sampled /\ insert_rate_sample(a, q.tokens)
            \/ (~q.sampled \/ Faults) /\ UNCHANGED latest
         /\ IF q.sampled \/ q.limited
            THEN /\ req' = [req EXCEPT ![h].event =
                     [agent_id |-> a, kind |-> q.kind,
                      tokens_remaining   |-> IF q.sampled THEN q.tokens ELSE 0,
                      requests_remaining |-> IF q.sampled THEN q.requests ELSE 0]]
                 /\ hpc' = [hpc EXCEPT ![h] = "send"]
            ELSE Respond(h)
  /\ UNCHANGED <<now, agents, handoffs, memVars, envVars, cliVars, posts, lookups>>

\* handoff simulate-limit names any agent id.
PostSimulate(h) ==
  /\ hpc[h] = "idle"
  /\ posts < MaxPosts
  /\ posts' = posts + 1
  /\ \E a \in {Len(agents) + 1} \cup DOMAIN agents,
        t \in TokenValues, r \in RequestValues :
       req' = [req EXCEPT ![h] =
                 [payload |-> [pid |-> NoPid, kind |-> CHOOSE k \in Kinds : TRUE,
                               limited |-> FALSE, sampled |-> FALSE,
                               tokens |-> NoValue, requests |-> NoValue],
                  agent   |-> a,
                  event   |-> [agent_id |-> a, kind |-> Simulated,
                               tokens_remaining |-> t, requests_remaining |-> r]]]
  /\ hpc' = [hpc EXCEPT ![h] = "send"]
  /\ UNCHANGED <<vars, cliVars, counts, lookups>>

\* send_failover_event: blocks while the channel is full; without a receiver
\* it fails, which is logged.
SendEvent(h) ==
  /\ hpc[h] = "send"
  /\ \/ Offer(req[h].event)
     \/ pc[Engine] = "dead" /\ UNCHANGED vars
  /\ Respond(h)
  /\ UNCHANGED <<cliVars, counts, posts, lookups>>

\* The client gives up (the proxy after 2 s) and the handler is dropped where
\* it awaits a free slot: the sample is stored, the event is lost.
HangUp(h) ==
  /\ HangUps
  /\ hpc[h] = "send"
  /\ ~has_room
  /\ Respond(h)
  /\ UNCHANGED <<vars, cliVars, counts, posts, lookups>>

HandlerStep(h) ==
  FindAgent(h) \/ InsertUser(h) \/ Store(h) \/ SendEvent(h)

------------------------------------------------------------------------------
(* Processes, and the RPCs that are one database statement *)

Start(p, g) ==
  /\ p \notin live
  /\ Len(agents) < MaxAgents
  /\ live' = live \cup {p}
  /\ program' = [program EXCEPT ![p] = g]

\* The user starts a program; nothing is registered.
Launch(p, g) ==
  /\ Start(p, g)
  /\ UNCHANGED <<dbVars, memVars, policy, sent, manuals, life,
                 starting, spawned, stopping, httpVars>>

\* handoff spawn: the child runs before its row exists ...
CliSpawn(p, g) ==
  /\ Start(p, g)
  /\ starting' = starting \cup {p}
  /\ UNCHANGED <<dbVars, memVars, policy, sent, manuals, life,
                 spawned, stopping, httpVars>>

\* ... then register_agent inserts it, or the command fails and leaves the
\* child running ...
CliRegister(p) ==
  /\ p \in starting
  /\ starting' = starting \ {p}
  /\ \/ /\ insert_agent(program[p], p, "handoff")
        /\ spawned' = [spawned EXCEPT ![p] = next_agent_id]
     \/ /\ Faults
        /\ UNCHANGED <<agents, spawned>>
  /\ UNCHANGED <<now, latest, handoffs, memVars, envVars,
                 program, stopping, httpVars>>

\* ... and once the child has exited, stop_agent marks that row, if the
\* daemon can be reached.
CliStop(a) ==
  /\ a \in stopping
  /\ stopping' = stopping \ {a}
  /\ \/ \E s \in {"stopped", "failed"} : mark_agent_stopped(a, s)
     \/ Faults /\ UNCHANGED agents
  /\ UNCHANGED <<now, latest, handoffs, memVars, envVars,
                 program, starting, spawned, httpVars>>

\* The pid of a child of `handoff spawn` is released when the command waits
\* for it, after it has registered it.
Exit(p) ==
  /\ p \in live \ starting
  /\ live' = live \ {p}
  /\ stopping' = stopping \cup ({spawned[p]} \ {NoRow})
  /\ spawned' = [spawned EXCEPT ![p] = NoRow]
  /\ UNCHANGED <<dbVars, memVars, policy, sent, manuals, life,
                 program, starting, httpVars>>

\* handoff attach: a second row if the pid already has one.
Attach(p) ==
  /\ p \in live
  /\ program[p] \in Attachable
  /\ Len(agents) < MaxAgents
  /\ insert_agent(program[p], p, "user")
  /\ UNCHANGED <<now, latest, handoffs, memVars, envVars, cliVars, httpVars>>

------------------------------------------------------------------------------
(* Composition *)

ExecutorStep(x) ==
  \/ /\ Proceed(x)
     /\ UNCHANGED <<cliVars, httpVars>>
  \/ /\ SpawnStarts(x)
     /\ program' = [program EXCEPT ![task'[x].new_pid] = task[x].to_kind]
     /\ UNCHANGED <<starting, spawned, stopping, httpVars>>

DaemonEngine ==
  \/ Handle /\ UNCHANGED <<cliVars, httpVars>>
  \/ ExecutorStep(Engine)
  \/ Unwind(Engine) /\ UNCHANGED <<cliVars, httpVars>>

DaemonManual(x) ==
  \/ /\ \E from \in {NoRow, Len(agents) + 1} \cup DOMAIN agents,
           k \in Kinds, spawn \in BOOLEAN : StartManual(x, from, k, spawn)
     /\ UNCHANGED <<cliVars, httpVars>>
  \/ (CancelManual(x) \/ Unwind(x)) /\ UNCHANGED <<cliVars, httpVars>>
  \/ ExecutorStep(x)

DaemonRestart ==
  /\ Restart
  /\ hpc' = [h \in Handlers |-> "idle"]
  /\ req' = [h \in Handlers |-> NoRequest]
  /\ seen' = [h \in Handlers |-> {}]
  /\ UNCHANGED <<cliVars, counts, posts, looked>>

Surroundings ==
  \/ \E p \in Pids, g \in Launchable : Launch(p, g)
  \/ \E p \in Pids, g \in Spawnable : CliSpawn(p, g)
  \/ \E p \in Pids : CliRegister(p) \/ Exit(p) \/ Attach(p)
  \/ \E a \in stopping : CliStop(a)
  \/ \E p \in Policies : EditConfig(p) /\ UNCHANGED <<cliVars, httpVars>>
  \/ TimePasses /\ UNCHANGED <<cliVars, httpVars>>

Requests ==
  \E h \in Handlers :
    \/ \E p \in Pids : PostIngest(h, p)
    \/ PostSimulate(h)
    \/ HandlerStep(h)
    \/ HangUp(h)

\* Every task waits: the engine in recv, the server in accept.
AtRest ==
  /\ queue = <<>>
  /\ \A x \in Exec : pc[x] \in {"idle", "dead"}
  /\ hpc = [h \in Handlers |-> "idle"]

Rest == AtRest /\ UNCHANGED allVars

DaemonNext ==
  \/ DaemonEngine
  \/ \E x \in Manual : DaemonManual(x)
  \/ Requests
  \/ Surroundings
  \/ DaemonRestart
  \/ Rest

DaemonSpec == DaemonInit /\ [][DaemonNext]_allVars

------------------------------------------------------------------------------
(* Properties *)

\* The types of the daemon's variables, over those of Failover.
DaemonTypeOK ==
  /\ TypeOK
  /\ program \in [Pids -> Programs]
  /\ starting \subseteq live
  /\ spawned \in [Pids -> Nat]
  /\ stopping \subseteq DOMAIN agents
  /\ hpc \in [Handlers -> {"idle", "find", "insert", "store", "send"}]
  /\ \A h \in Handlers : IF hpc[h] = "idle" THEN req[h] = NoRequest
                                            ELSE req[h] \in Request
  /\ DOMAIN counts \subseteq DOMAIN agents
  /\ seen \in [Handlers -> SUBSET DOMAIN agents]
  /\ DOMAIN looked \subseteq DOMAIN agents

InFlight(h) == hpc[h] \in {"store", "send"} /\ req[h].payload.pid # NoPid

\* What a handler is about to store or enqueue belongs to a row that carries
\* the pid the response came from, whatever rows have been inserted, stopped
\* or given a pid since the row was looked up (resolve_agent_id, ingest).
ChargedToItsPid ==
  \A h \in Handlers : InFlight(h) =>
    /\ req[h].agent \in DOMAIN agents
    /\ agents[req[h].agent].pid = req[h].payload.pid

\* A process that has been given a row by a request has another running row
\* only if that one got its pid after the request had looked for it: two rows
\* of requests, only if both had looked before either inserted.  So beside any
\* handlers, executors and commands, across exits, reused pids, hang-ups,
\* failing queries and restarts (resolve_agent_id's two statements).
SecondRowsAreRaced ==
  \A p \in Pids : \A i, j \in Running(p) : j \in DOMAIN looked => i \notin looked[j]

\* The target of an automatic handoff is of another kind than the agent that
\* ran out ("Pick the next agent in the chain, skipping the current one").
SkipsCurrent ==
  pc[Engine] \in ExecutorOnly =>
    task[Engine].to_kind # agents[task[Engine].from_agent_id].kind

\* The engine and the handlers are polled while they can go on; a client that
\* has sent a request waits for its answer.
DaemonEngineRuns ==
  \/ Handle /\ UNCHANGED <<cliVars, httpVars>>
  \/ ExecutorStep(Engine) /\ pc[Engine] # "summarize"

FairDaemonSpec ==
  /\ DaemonSpec
  /\ WF_allVars(DaemonEngineRuns)
  /\ \A h \in Handlers : WF_allVars(HandlerStep(h))

\* Every request is answered although the channel fills up and the engine is
\* busy with handoffs, unless the engine is left waiting for a summarizer: the
\* engine takes events without needing a handler, so nobody waits in a circle.
RequestsAreAnswered ==
  \A h \in Handlers : hpc[h] # "idle" ~> (hpc[h] = "idle" \/ AwaitingBrief)

OutOfBudget(a) ==
  \E h \in Handlers :
    /\ hpc[h] = "send"
    /\ req[h].agent = a
    /\ a \in DOMAIN agents
    /\ req[h].event.requests_remaining = 0

\* A 429 without rate-limit headers, or a sample without requests left, leads
\* to a recorded handoff of that agent when operations succeed, whatever else
\* is queued, stored or running at that moment and even if the next program
\* does not start (ingest enqueues requests_remaining 0, handle fires below
\* the threshold, execute_inner goes on after a failed spawn).
ExhaustionIsHandedOver ==
  \A a \in 1 .. (MaxAgents + MaxPosts) :
    OutOfBudget(a) ~>
      \/ \E i \in DOMAIN handoffs :
           handoffs[i].from_agent_id = a /\ handoffs[i].exec = Engine
      \/ AwaitingBrief

\* The engine at least fires for that agent (README: "hands work to the next
\* agent before the active one stalls").
ExhaustionFires ==
  \A a \in 1 .. (MaxAgents + MaxPosts) :
    OutOfBudget(a) ~>
      ((\E k \in Kinds : <<a, k>> \in fired) \/ AwaitingBrief)
=============================================================================
