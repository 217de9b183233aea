------------------------------- MODULE Storage -------------------------------
(***************************************************************************)
(* The SQLite tables of crates/storage that the daemon reads and writes.   *)
(* Every statement runs under the one connection mutex, so an operator     *)
(* here is atomic; two of them in a row are not.  The tables survive a     *)
(* restart of the daemon.                                                  *)
(*                                                                         *)
(* A row id is its position: ids are handed out in order and no row is     *)
(* ever deleted.  NoRow stands for a NULL reference and NoPid for a NULL   *)
(* pid.  One project is modelled; every row belongs to it.                 *)
(***************************************************************************)
EXTENDS Policy

CONSTANTS Pids,     \* process ids the operating system hands out
          NoPid     \* NULL in the pid column

ASSUME PidAssumption == NoPid \notin Pids

VARIABLES
  now,        \* the clock, in seconds: every ts column has this resolution
  agents,     \* table agents
  latest,     \* of table rate_samples, per kind, the rows with the newest ts
  handoffs    \* table handoffs

dbVars == <<now, agents, latest, handoffs>>

NoRow == 0

AgentStatus == {"running", "stopped", "failed"}

AgentRow ==
  [kind       : Kinds,
   pid        : Pids \cup {NoPid},
   spawned_by : {"user", "handoff"},
   status     : AgentStatus,
   started_at : Nat]

StorageInit ==
  /\ now = 0
  /\ agents = <<>>
  /\ latest = [k \in Kinds |-> [ts |-> 0, tokens |-> {}]]
  /\ handoffs = <<>>

------------------------------------------------------------------------------
(* Table agents *)

insert_agent(kind, pid, spawned_by) ==
  agents' = Append(agents, [kind       |-> kind,
                            pid        |-> pid,
                            spawned_by |-> spawned_by,
                            status     |-> "running",
                            started_at |-> now])

\* Seeded fault: the id is read before the row is inserted.
next_agent_id_stale == Len(agents)

\* The id insert_agent returns (last_insert_rowid, read under the same lock).
next_agent_id == Len(agents) + 1

\* Seeded fault: the newest row is taken for the one inserted.
update_agent_pid_newest(id, pid) ==
  agents' = [agents EXCEPT ![Len(agents)].pid = pid]

update_agent_pid(id, pid) == agents' = [agents EXCEPT ![id].pid = pid]

\* UPDATE ... WHERE id = ?: an id without a row changes nothing.
mark_agent_stopped(id, status) ==
  agents' = IF id \in DOMAIN agents
            THEN [agents EXCEPT ![id].status = status]
            ELSE agents

Running(pid) ==
  {i \in DOMAIN agents : agents[i].pid = pid /\ agents[i].status = "running"}

\* ORDER BY started_at DESC LIMIT 1: SQL leaves the choice among rows of the
\* same second open.  The empty set is "no row".
find_agent_by_pid(pid) ==
  {i \in Running(pid) :
     \A j \in Running(pid) : agents[j].started_at <= agents[i].started_at}

------------------------------------------------------------------------------
(* Table rate_samples.  Only latest_rate_sample_for_kind reads it here, and *)
(* that query sees the rows of a kind's newest second.                      *)

insert_rate_sample(id, tokens) ==
  LET k == agents[id].kind IN
  latest' = [latest EXCEPT ![k] =
               [ts     |-> now,
                tokens |-> {tokens} \cup
                           IF latest[k].ts = now THEN latest[k].tokens ELSE {}]]

\* What the engine makes of the answer: NoValue for no row, 0 for a row whose
\* tokens_remaining is NULL (unwrap_or(0)), else the number.  ORDER BY ts DESC
\* LIMIT 1 leaves the choice among rows of the same second open.
latest_rate_sample_for_kind(k) ==
  IF latest[k].tokens = {}
  THEN {NoValue}
  ELSE {IF t = NoValue THEN 0 ELSE t : t \in latest[k].tokens}

------------------------------------------------------------------------------
(* Table handoffs.  foreign_keys is ON: a from_agent_id without a row is an *)
(* error.                                                                   *)

references_exist(from) == from = NoRow \/ from \in DOMAIN agents

insert_handoff(row) == handoffs' = Append(handoffs, row)

\* The clock moves on; nothing else changes.
Tick(limit) ==
  /\ now < limit
  /\ now' = now + 1
  /\ UNCHANGED <<agents, latest, handoffs>>
=============================================================================
