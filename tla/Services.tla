------------------------------ MODULE Services ------------------------------
(***************************************************************************)
(* The lifecycle of a background service, daemon or proxy: `start` and     *)
(* `stop` of crates/cli, the pidfile they share and the process they mean. *)
(* The two services have the same code and files of their own, so one of   *)
(* them is modelled.                                                       *)
(*                                                                         *)
(* A command is a process of its own; another one may run between any two  *)
(* of its system calls.  A service that cannot bind its port exits.        *)
(***************************************************************************)
EXTENDS Integers, FiniteSets, Sequences

CONSTANTS
  Pids, NoPid,
  Operators,      \* shells that run start, stop and init
  MaxCommands, MaxDeaths    \* bounds on their commands, and on crashes and strangers

ASSUME ServicesAssumption ==
  /\ NoPid \notin Pids
  /\ {MaxCommands, MaxDeaths} \subseteq Nat

VARIABLES
  proc,        \* per pid, what runs under it
  port,        \* the process that listens on the service's address
  pidfile,     \* a pid, Empty while it is being written, or Missing
  doing,       \* per shell, where its command is
  target,      \* per shell, the pid it has read or started
  commands, deaths,    \* so far (bounded)
  excused      \* history: two commands have overlapped, or a pidfile
               \* could not be written

serviceVars ==
  <<proc, port, pidfile, doing, target, commands, deaths, excused>>

Missing == "missing"
Empty == "empty"

\* free: no process; dying: has got SIGTERM; zombie: dead, but its parent has
\* not waited for it; foreign: some other process of the user; protected: one
\* of another user, which the user may not signal.
ProcState == {"free", "running", "dying", "zombie", "foreign", "protected"}

\* dashboard: `handoff init` goes on as the dashboard, and does not wait for
\* the service it has started.
DoingState == {"idle", "spawn", "truncate", "write", "kill", "remove", "dashboard"}

\* Nothing runs, or a service that an earlier start has left.
ServicesInit ==
  /\ \/ pidfile = Missing /\ port = NoPid /\ proc = [p \in Pids |-> "free"]
     \/ \E p \in Pids :
          /\ pidfile = p
          /\ port = p
          /\ proc = [q \in Pids |-> IF q = p THEN "running" ELSE "free"]
  /\ doing = [o \in Operators |-> "idle"]
  /\ target = [o \in Operators |-> NoPid]
  /\ commands = 0
  /\ deaths = 0
  /\ excused = FALSE

------------------------------------------------------------------------------
(* Processes *)

\* kill succeeds, on a zombie too; it fails without a process (ESRCH) and on
\* one that the user may not signal (EPERM).
may_signal(p) == proc[p] \notin {"free", "protected"}

\* Seeded fault: the result of kill is read the wrong way round.
pid_alive_inverted(p) == p \in Pids /\ ~may_signal(p)

\* kill(pid, 0) == 0: a process of another user counts as dead.
pid_alive(p) == p \in Pids /\ may_signal(p)

\* Its parent, the command that has started it, is still there.
Unwaited(p) ==
  \E o \in Operators : target[o] = p /\ doing[o] \in {"truncate", "write", "dashboard"}

\* The process ends, and its port is free again.
Ended(p) ==
  /\ proc' = [proc EXCEPT ![p] = IF Unwaited(p) THEN "zombie" ELSE "free"]
  /\ port' = IF port = p THEN NoPid ELSE port
  /\ UNCHANGED <<pidfile, doing, target, commands, excused>>

\* TcpListener::bind.
Bind(p) ==
  /\ proc[p] = "running"
  /\ port = NoPid
  /\ port' = p
  /\ UNCHANGED <<proc, pidfile, doing, target, commands, deaths, excused>>

BindFails(p) ==
  /\ proc[p] = "running"
  /\ port \notin {p, NoPid}
  /\ Ended(p)
  /\ UNCHANGED deaths

Terminates(p) ==
  /\ proc[p] = "dying"
  /\ Ended(p)
  /\ UNCHANGED deaths

Crashes(p) ==
  /\ proc[p] = "running"
  /\ deaths < MaxDeaths
  /\ deaths' = deaths + 1
  /\ Ended(p)

\* A free pid is given to some other program, of the user or not ...
Reused(p) ==
  /\ proc[p] = "free"
  /\ deaths < MaxDeaths
  /\ deaths' = deaths + 1
  /\ \E stranger \in {"foreign", "protected"} : proc' = [proc EXCEPT ![p] = stranger]
  /\ UNCHANGED <<port, pidfile, doing, target, commands, excused>>

\* ... which ends some day.
StrangerEnds(p) ==
  /\ proc[p] \in {"foreign", "protected"}
  /\ proc' = [proc EXCEPT ![p] = "free"]
  /\ UNCHANGED <<port, pidfile, doing, target, commands, deaths, excused>>

------------------------------------------------------------------------------
(* cmd_daemon_start, cmd_proxy_start *)

Busy(o) == doing[o] \notin {"idle", "dashboard"}

Begin(o) ==
  /\ doing[o] = "idle"
  /\ commands < MaxCommands
  /\ commands' = commands + 1
  /\ excused' = (excused \/ \E x \in Operators : Busy(x))
  /\ UNCHANGED <<port, deaths>>

Continue(o, step) ==
  /\ doing' = [doing EXCEPT ![o] = step]
  /\ UNCHANGED <<port, commands, deaths>>

\* The command exits, and a dead child of its is reaped.
reaped(o) == [proc EXCEPT ![target[o]] = IF @ = "zombie" THEN "free" ELSE @]

\* Nothing is started if the pidfile names a live process.
Start(o) ==
  /\ Begin(o)
  /\ doing' = [doing EXCEPT ![o] = IF pid_alive(pidfile) THEN "idle" ELSE "spawn"]
  /\ UNCHANGED <<proc, pidfile, target>>

Spawn(o) ==
  /\ doing[o] = "spawn"
  /\ \E p \in Pids :
       /\ proc[p] = "free"
       /\ proc' = [proc EXCEPT ![p] = "running"]
       /\ target' = [target EXCEPT ![o] = p]
  /\ Continue(o, "truncate")
  /\ UNCHANGED <<pidfile, excused>>

\* fs::write opens the file, which empties it ...
Truncate(o) ==
  /\ doing[o] = "truncate"
  /\ pidfile' = Empty
  /\ Continue(o, "write")
  /\ UNCHANGED <<proc, target, excused>>

\* ... and then writes the pid.  init may go on as the dashboard.
WritePid(o) ==
  /\ doing[o] = "write"
  /\ pidfile' = target[o]
  /\ \/ Continue(o, "idle") /\ proc' = reaped(o)
     \/ Continue(o, "dashboard") /\ UNCHANGED proc
  /\ UNCHANGED <<target, excused>>

\* The file cannot be opened or written; the child is left as it is.
WriteFails(o) ==
  /\ doing[o] \in {"truncate", "write"}
  /\ excused' = TRUE
  /\ Continue(o, "idle")
  /\ proc' = reaped(o)
  /\ UNCHANGED <<pidfile, target>>

LeaveDashboard(o) ==
  /\ doing[o] = "dashboard"
  /\ proc' = reaped(o)
  /\ Continue(o, "idle")
  /\ UNCHANGED <<pidfile, target, excused>>

------------------------------------------------------------------------------
(* stop_pidfile *)

\* Without a pidfile nothing is stopped; one without a pid is removed.
Stop(o) ==
  /\ Begin(o)
  /\ IF pidfile \in Pids
     THEN /\ target' = [target EXCEPT ![o] = pidfile]
          /\ doing' = [doing EXCEPT ![o] = "kill"]
          /\ UNCHANGED pidfile
     ELSE /\ pidfile' = Missing
          /\ UNCHANGED <<doing, target>>
  /\ UNCHANGED proc

\* SIGTERM, to whatever has the pid now; that kill has failed is not looked at.
Kill(o) ==
  /\ doing[o] = "kill"
  /\ proc' = [proc EXCEPT ![target[o]] = IF may_signal(target[o]) /\ @ # "zombie"
                                         THEN "dying" ELSE @]
  /\ Continue(o, "remove")
  /\ UNCHANGED <<pidfile, target, excused>>

\* The file is removed without another look at it.
RemovePidfile(o) ==
  /\ doing[o] = "remove"
  /\ pidfile' = Missing
  /\ Continue(o, "idle")
  /\ UNCHANGED <<proc, target, excused>>

------------------------------------------------------------------------------

CommandStep(o) ==
  Spawn(o) \/ Truncate(o) \/ WritePid(o) \/ Kill(o) \/ RemovePidfile(o)

ServicesNext ==
  \/ \E o \in Operators :
       Start(o) \/ Stop(o) \/ CommandStep(o) \/ WriteFails(o) \/ LeaveDashboard(o)
  \/ \E p \in Pids :
       Bind(p) \/ BindFails(p) \/ Terminates(p) \/ Crashes(p) \/ Reused(p) \/ StrangerEnds(p)

ServicesSpec == ServicesInit /\ [][ServicesNext]_serviceVars

------------------------------------------------------------------------------
(* Properties *)

ServicesTypeOK ==
  /\ proc \in [Pids -> ProcState]
  /\ port \in Pids \cup {NoPid}
  /\ port # NoPid => proc[port] \in {"running", "dying"}
  /\ pidfile \in Pids \cup {Empty, Missing}
  /\ doing \in [Operators -> DoingState]
  /\ target \in [Operators -> Pids \cup {NoPid}]
  /\ \A o \in Operators :
       doing[o] \notin {"idle", "spawn"} => target[o] \in Pids

Settled == \A o \in Operators : ~Busy(o)

\* As long as commands do not overlap and every pidfile can be written, the
\* service that runs is the one the pidfile names, so that the next stop
\* reaches it: across crashes, reuse of its pid by a process that the user may
\* signal or may not, zombies of the dashboard, and starts while the old
\* service still holds the port (cmd_daemon_start, cmd_proxy_start, stop_pidfile).
RunningIsNamed ==
  ~excused /\ Settled =>
    \A p \in Pids : proc[p] = "running" /\ port \in {p, NoPid} => pidfile = p
=============================================================================
