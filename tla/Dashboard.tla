----------------------------- MODULE Dashboard -----------------------------
(***************************************************************************)
(* The dashboard of crates/cli, and what it is made of: the rows of agents *)
(* the daemon lists, the processes the adapters find and the services'     *)
(* pidfiles.  A refresh reads the three one after the other, while         *)
(* processes start and end and their pids are used again.  Nothing is kept *)
(* from one refresh to the next, so one is modelled, from any state.       *)
(***************************************************************************)
EXTENDS Adapters, FiniteSets, FiniteSetsExt, SequencesExt

CONSTANTS
  ProcIds,       \* process ids
  Images,        \* what may run: records of name, exe, argv and mentions
  RowKinds,      \* the kinds rows are inserted with
  MaxRows,       \* bound on the rows there are at first
  MaxChanges     \* bound on what happens around the dashboard

\* Nothing runs.
Gone == [name |-> "", exe |-> NoExe, argv |-> <<>>, mentions |-> {}]

ASSUME DashboardAssumption ==
  /\ Gone \notin Images
  /\ RowKinds \subseteq Words(all_adapters)
  /\ {MaxRows, MaxChanges} \subseteq Nat

VARIABLES
  running,     \* per pid, what runs under it
  rows,        \* the running rows of table agents, newest first
  service,     \* the pids in the pidfiles
  changes,     \* so far (bounded)
  phase,       \* of a refresh
  listed, scanned, pidfiles,     \* what it has read
  shown, found,        \* and made of it: rows by index, and other processes
  steady       \* history: pids whose process has been there all along

world == <<running, rows, service, changes>>
readings == <<phase, listed, scanned, pidfiles, shown, found>>
dashboardVars == <<world, readings, steady>>

NoProcs == [p \in ProcIds |-> Gone]

\* last: the second of the newest sample, 0 for none; seen: total_requests.
AgentRowShown == [kind : RowKinds, pid : ProcIds, last : Nat, seen : Nat]

SomeRows == [kind : RowKinds, pid : ProcIds, last : {1}, seen : {1}]

\* Rows and pidfiles may be left over from processes that are gone.
DashboardInit ==
  /\ running \in [ProcIds -> Images \cup {Gone}]
  /\ rows \in BoundedSeq(SomeRows, MaxRows)
  /\ service \in {{}} \cup {{p} : p \in ProcIds}
  /\ changes = 0
  /\ phase = "idle"
  /\ listed = <<>>
  /\ scanned = NoProcs
  /\ pidfiles = {}
  /\ shown = {}
  /\ found = {}
  /\ steady = {}

------------------------------------------------------------------------------
(* Around the dashboard *)

\* What happens after a refresh is not looked at.
Change == phase # "ready" /\ changes < MaxChanges /\ changes' = changes + 1

Launch(p) ==
  /\ running[p] = Gone
  /\ Change
  /\ \E image \in Images : running' = [running EXCEPT ![p] = image]
  /\ UNCHANGED <<rows, service, readings, steady>>

Quit(p) ==
  /\ running[p] # Gone
  /\ Change
  /\ running' = [running EXCEPT ![p] = Gone]
  /\ steady' = steady \ {p}
  /\ UNCHANGED <<rows, service, readings>>

\* What the lower-cased command line contains of "handoff" and of " daemon "
\* or " proxy ".
is_internal_handoff_cmd(image) == {"handoff", "service"} \subseteq image.mentions

\* A service writes its pidfile, which stays when it crashes.
WritePidfile(p) ==
  /\ running[p].name = "handoff"
  /\ Change
  /\ service' = {p}
  /\ UNCHANGED <<running, rows, readings, steady>>

\* A row outlives its process unless somebody reports the end.
AddRow(kind, p) ==
  /\ running[p] # Gone
  /\ Change
  /\ rows' = <<[kind |-> kind, pid |-> p, last |-> 0, seen |-> 0]>> \o rows
  /\ UNCHANGED <<running, service, readings, steady>>

\* The row is not listed any more.
RetireRow(i) ==
  /\ Change
  /\ rows' = RemoveAt(rows, i)
  /\ UNCHANGED <<running, service, readings, steady>>

\* One more request of the row's process and the sample it has brought.
SampleRow(i) ==
  /\ Change
  /\ \E ts \in {rows[j].last : j \in DOMAIN rows} \cup {2} :
       /\ \A j \in DOMAIN rows : rows[j].last <= ts
       /\ ts > 0
       /\ rows' = [rows EXCEPT ![i].last = ts, ![i].seen = @ + 1]
  /\ UNCHANGED <<running, service, readings, steady>>

------------------------------------------------------------------------------
(* prepare_dashboard_data, of what a refresh has read *)

\* Seeded fault: an older sample replaces a newer one.
newer_reversed(a, b) == a # 0 /\ (b = 0 \/ a < b)

\* last is the second of a sample, 0 for none.
newer(a, b) == a # 0 /\ (b = 0 \/ a > b)

\* The entry of a kind, after one more row.
counted(kind, entry, row) ==
  IF row.kind # kind THEN entry
  ELSE [last |-> IF newer(row.last, entry.last) THEN row.last ELSE entry.last,
        seen |-> entry.seen + row.seen]

\* One pass over the rows, whatever becomes of them below.
latest_usage_by_kind(kind) ==
  FoldLeft(LAMBDA entry, row : counted(kind, entry, row), [last |-> 0, seen |-> 0], listed)

\* Neither a service, by its pid or by its command line, nor gone.
candidate(p) ==
  /\ scanned[p] # Gone
  /\ p \notin service
  /\ ~is_internal_handoff_cmd(scanned[p])

visible_rows == {i \in DOMAIN listed : candidate(listed[i].pid)}

Line(kind, p) == [pid |-> p, kind |-> kind, usage |-> latest_usage_by_kind(kind)]

Pids_of(lines) == {l.pid : l \in lines}

\* Seeded fault: the first adapter that finds something ends the search.
fresh_once(p, lines, taken) == p \notin taken /\ lines = {}

fresh(p, lines, taken) == p \notin taken \cup Pids_of(lines)

\* An adapter's processes besides those it is too late for: each pid once.
with_detected(taken, lines, kind) ==
  lines \cup {Line(kind, p) : p \in
    {q \in ProcIds : candidate(q) /\ detect(kind, scanned[q]) /\ fresh(q, lines, taken)}}

\* The adapters in turn, for the processes whose row is not shown.
discovered(taken) ==
  FoldLeft(LAMBDA lines, kind : with_detected(taken, lines, kind), {}, all_adapters)

------------------------------------------------------------------------------
(* fetch *)

\* The daemon's answer to list_agents ...
List ==
  /\ phase = "idle"
  /\ phase' = "listed"
  /\ listed' = rows
  /\ steady' = {p \in ProcIds : running[p] # Gone}
  /\ UNCHANGED <<world, scanned, pidfiles, shown, found>>

\* ... the processes ...
Scan ==
  /\ phase = "listed"
  /\ phase' = "scanned"
  /\ scanned' = running
  /\ UNCHANGED <<world, listed, pidfiles, shown, found, steady>>

\* ... and the pidfiles, of which the screen is made.
Prepare ==
  /\ phase = "scanned"
  /\ phase' = "ready"
  /\ pidfiles' = service
  /\ shown' = visible_rows
  /\ found' = discovered({listed[i].pid : i \in visible_rows})
  /\ UNCHANGED <<world, listed, scanned, steady>>

DashboardNext ==
  \/ \E p \in ProcIds :
       \/ Launch(p) \/ Quit(p) \/ WritePidfile(p)
       \/ \E kind \in RowKinds : AddRow(kind, p)
  \/ \E i \in DOMAIN rows : RetireRow(i) \/ SampleRow(i)
  \/ List \/ Scan \/ Prepare

DashboardSpec == DashboardInit /\ [][DashboardNext]_dashboardVars

------------------------------------------------------------------------------
(* Properties *)

DashboardTypeOK ==
  /\ running \in [ProcIds -> Images \cup {Gone}]
  /\ rows \in Seq(AgentRowShown)
  /\ listed \in Seq(AgentRowShown)
  /\ scanned \in [ProcIds -> Images \cup {Gone}]
  /\ shown \subseteq DOMAIN listed
  /\ Pids_of(found) \subseteq ProcIds
  /\ steady \subseteq {p \in ProcIds : running[p] # Gone}

Agent(image) == \E kind \in Words(all_adapters) : detect(kind, image)

\* A process that was an agent all through the refresh is on the screen,
\* whatever rows there are for its pid: those of an earlier process with the
\* same pid, one added or retired meanwhile, or none.  Only a pidfile that
\* names its pid, or its own command line, can hide it, and only two running
\* rows give it two lines, however many adapters know it
\* (prepare_dashboard_data, visible_pids).
AgentsAreShown ==
  /\ phase = "ready" =>
       \A p \in steady :
         /\ Agent(running[p])
         /\ p \notin pidfiles
         /\ ~is_internal_handoff_cmd(running[p])
         => p \in {listed[i].pid : i \in shown} \cup Pids_of(found)
  /\ \A l, m \in found : l.pid = m.pid => l = m
  /\ \A i \in shown : listed[i].pid \notin Pids_of(found)

\* A discovered agent stands with the newest sample and with all requests of its
\* kind, those of rows that are hidden included (latest_usage_by_kind).
UsageIsNewest ==
  \A l \in found :
    LET of_kind == {i \in DOMAIN listed : listed[i].kind = l.kind} IN
    /\ l.usage.last = Max({0} \cup {listed[i].last : i \in of_kind})
    /\ l.usage.seen = FoldSet(LAMBDA i, sum : sum + listed[i].seen, 0, of_kind)
=============================================================================
