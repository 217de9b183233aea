# Verification of handoff

TLA+ models of the `handoff` control plane, the TLC configurations that check
them on small instances, and theorems about them that TLAPS has checked for all
values of the constants. Source paths are relative to `src/rust/crates/` unless
they start with `src/`.

## 1. The system

`handoff` runs next to AI coding agents on a developer's machine. A **proxy**
reads rate-limit headers from the agents' HTTPS responses and posts them to a
**daemon**, which keeps a small SQLite **store** and a **failover engine**. When
an agent is about to run out of budget the engine takes a **snapshot** of the
project, may ask an agent for a brief (the **summarizer** of the critic crate),
and starts the next agent of a configured chain. A **CLI** drives all of it.

| Component | State it keeps | Operations | Talks to |
|---|---|---|---|
| Policy (`policy`) | none; `.handoff/config.toml` | `load`, `should_trigger`, `pick_next` | called by the engine |
| Store (`storage`) | tables `projects`, `agents`, `activities`, `rate_samples`, `handoffs`, `critic_runs`, `request_counts`; survives restarts | one method per statement, each under the connection mutex | daemon, dashboard |
| Failover engine (`daemon/failover.rs`) | the channel, `fired`, `initial_tokens`: all in memory | `handle`, `execute`, `execute_inner` | reads the policy and store, writes the store, starts processes |
| Daemon (`daemon/lib.rs`) | `AppState`, `brain_lock` | `/ingest`, `/simulate`, `/rpc` (seven methods), `/brain/*`, `/health` | sends events to the engine, writes the store |
| Spawn, worktree, tee (`daemon/spawn.rs`, `worktree.rs`, `common/tee.rs`) | worktrees and log files of agents | `headless_spawn`, `create`, `remove`, `rotate_if_needed` | git, agent programs |
| Proxy (`proxy`) | `last_host`, one for all connections | `handle_request`, `handle_response`, `lookup` of the pid | `POST /ingest` |
| Certificate authority (`proxy/ca.rs`, `cli/setup.rs`) | `~/.handoff/ca/`, a copy in the system's trust store | `load_or_create`, `run_setup`, `run_teardown` | proxy, agents |
| Adapters (`adapters`) | none | header parsing, host classification, detection of processes, headless argv | proxy, dashboard, spawn |
| Critic (`critic`) | feedback between rounds; the watcher's mtimes | `run`, `summarize_for_handoff`, `WatchLoop::tick` | agent programs |
| Context (`context`) | `.handoff/` files | `init_project`, `sync`, `snapshot`, `write_snapshot` | git, shell log, test logs |
| CLI (`cli`) | pidfiles, shell rc block, Claude settings | one per subcommand | RPC, the pidfiles, processes |
| Shell hook (`cli/hook.rs`) | saved variables and a flag in the user's shell | enable and restore the proxy's environment | the shell, agents |
| Dashboard (`cli/tui`) | none between refreshes | `fetch`, `prepare_dashboard_data` | RPC, pidfiles, processes |
| Companion (`src/extension`) | heartbeat timer | heartbeat, edit pulse, usage report | `POST /ingest` |

### What is hard

Five kinds of task run at once: HTTP handlers, the engine's task, the CLI
commands, the agents themselves and the user. The handlers and the engine share
the store, whose mutex makes single statements atomic but no two of them, and a
bounded channel. The engine's memory is lost on a restart, the store's is not.
Clients time out (the proxy after 2 s, the CLI after 5 s), and their handlers are
then dropped at an await. Any file, database or process operation of an executor
may fail, each with its own consequence. Ids of processes are reused; rows are
not closed when a process goes. `PROJECT.json` lists each of these hazards with
the line where it bites and the properties that cover it.

### What makes the components correct

* Engine: at most one handoff per agent, target kind and life of the daemon;
  what it commits to is recorded when nothing fails; no failure stops its loop;
  the baseline of an agent's budget only rises; concurrent executors keep apart.
* Daemon: every request is answered; what is stored or enqueued is charged to a
  row of the process it came from; a process gets a second running row only in a
  race; an agent that runs out is handed over.
* Critic: no edit is lost to the watcher, no run is for nothing, reports carry the
  verdict of their output and a recorded run is on disk.
* Services: what runs is what the pidfile names. Brain: what was reported as
  appended is there, whole, and once unless the daemon failed.
* Proxy: a response is charged to the program that asked for it, under the kind
  of its host. Certificates: key and certificate belong together, the running
  proxy uses the ones on disk, and the system trusts that certificate.
* Shell hook: the user's environment comes back, and only agents see the proxy's.
  Dashboard: whoever is an agent is on the screen, with the newest numbers.
* Snapshots: they name all uncommitted work, and a recorded path has its own.
  Worktrees: no uncommitted work is discarded; an agent starts in its own tree.
* Policy: falling below a threshold is stable while the numbers do not recover;
  the target is of another kind, unique, and monotone in the samples.

## 2. Modules

```
Policy ── Storage ── Failover ─┬─ HandoffLedger (implemented by Failover)
                               ├─ MCFailover
                               ├─ FailoverProofs ──┐
                               └─ Daemon ──────────┴─ TargetProofs ── LedgerProofs
                                    └── MCDaemon
Policy ── PolicyCheck ─┬─ MCCli
ShellHook, Review ─────┤
Services ──────────────┘
    └──── Brain ───────┬─ MCHome   (Brain implements SharedMemory)
Proxy, Dashboard ──────┤    (both over Adapters)
Snapshot, Worktree ────┤
CertAuthority ─────────┘

FoldProofs             folds over sequences and sets, for the other proofs
PolicyProofs           PolicyCheck, with FoldProofs
BrainProofs            Services and Brain
CliProofs              the other parts of MCCli, and its composition
HomeProofs             the other parts of MCHome, and its composition, with FoldProofs
```

**Policy** has `should_trigger` and `pick_next` as operators over the
`[failover]` table. The comparison in floating point is multiplied out. `None`
is `NoValue`. `max_by_key` returns the last of several maximal elements, so
`preferred` breaks ties in favour of the later position.

**Storage** is the tables the failover path reads and writes, one operator per
statement. Row ids are positions, as no row is ever deleted. Of `rate_samples`
only the rows of a kind's newest second are kept, all that
`latest_rate_sample_for_kind` can return; `ORDER BY ts DESC LIMIT 1` over rows of
one second is a choice. One project is modelled.

**Failover** is `failover.rs`. An action is the code between two points where
another task can run:

| `failover.rs` | action |
|---|---|
| `recv`, baseline, project, policy, `should_trigger` (74-114) | `Receive` |
| `latest_rate_sample_for_kind` per kind (115-130) | `ReadSample` |
| `pick_next`, `fired` (132-147) | `Decline`, `Fire` |
| `engine.snapshot` (199-202) | `TakeSnapshot`, `Unwind` |
| `summarize_for_handoff` (203-214) | `Summarize`, `CancelManual`, `Unwind` |
| `write_snapshot` (215) | `WriteSnapshot` |
| `insert_agent` (220-226) | `InsertTarget` |
| `headless_spawn` (228-249) | `SpawnStarts`, `SpawnSkipped`, `SpawnFails` |
| `update_agent_pid` (239-244) | `UpdatePid` |
| `insert_handoff` (252-261) | `RecordHandoff` |
| `execute` (162-185) | `StartManual`, then the executor's actions |

`?` in `execute_inner` is `Fails`. `Unwind` is the panic of `truncate`, which
cuts a text at a byte offset. The rest of the system is an environment that
offers any event, registers and stops agents, stores samples, edits
`config.toml`, lets processes exit and time pass, and restarts the daemon.
Ghost fields (`exec`, `life` and `to_kind` of a handoffs row) serve properties only.

**HandoffLedger** is what automatic failover promises, in four actions: commit
to a pair, record it, abandon it, begin a new life. Under the mapping
`committed <- fired`, `pending <-` the pair the engine executes, `recorded <-`
the pairs of its rows of this life, Failover implements it.

**Daemon** puts the real callers in place of that environment: `/ingest` in the
steps between its database statements (`FindAgent`, `InsertUser`, `Store`,
`SendEvent`), `/simulate`, the RPCs, programs the user launches, `handoff spawn`
(the child runs before its row exists), `handoff attach`, clients that hang up.
`seen` and `looked` are history: which rows of the pid a handler had in view when it
decided to insert one.

**PolicyCheck** poses questions to the policy functions and compares `pick_next`
with the iterator chain it is written as.

**Review** is `handoff critic watch` and `critic run`: the poll of
`WatchLoop::tick` (`BeginTick`, one `Stat` per file, then `Wait` or `StartRun`),
and the rounds of `CriticRunner::run` (`AskWorker`, `AskCritic`, `WriteReport`,
`WriteDiff`, `Record`), all in one task, so that nobody polls while an agent
works. Files change at any moment. Modification times are counted in edits, time
is what has passed since a reading of the clock.

**Services** is start and stop of a background service, by several shells and
between the system calls of each other: the pidfile is read, a child is started,
the file is emptied and filled. Processes crash, linger as zombies of the
dashboard that `init` goes on as, or lose the race for the port; their pids are
reused by other processes of the user, or by another user's. The latter may not be
signalled, so `kill` fails on them (`may_signal`): `start` takes such a pid for dead
and goes on, and `stop` removes the pidfile as if it had stopped something. The daemon and the proxy have the same code, so one of them is modelled.

**Brain** composes `brain append`, `brain edit`, `/brain/append` and
`/brain/edit` with Services: a step that takes the port from the daemon loses its
requests (`Lifecycle`). `writeln!` is three write calls. The file is the sequence
of calls whose data it holds; each is marked with its text and with the daemon
that made it. The direct write of the CLI takes no lock, as in the code.

**SharedMemory** is what that file promises to those who use it, in four actions: a text
gets in at a stroke (`Keep`), a command is told so (`Tell`), an editor loads and saves.
Under the mapping `kept <-` the texts all of whose calls are there, `loaded <-` those of
an editor's copy, `told <- reported`, `spoilt <- overwritten`, Brain implements it.

**Adapters** has the tables and pure functions: the hosts of each kind, the prefix
of the headers it reads, and `detect`, whether a process is an agent. A host
stands for a provider; of a word on a command line its directory and its file
name are told apart.

**Proxy** is one connection, request and response per exchange: `Connect`,
`HandleRequest`, which stores the host in `last_host`, `HandleResponse`, which
reads it, asks for the headers' numbers and for the pid that owns the client's
port, and `Posted`. Clients close while their response is under way, and two
programs' sockets may have one port (`SharePort`: other addresses). Module Daemon
takes over at `/ingest`. Histories (`overtaken`, `shared`) say when another
request or socket came in between.

**CertAuthority** is `load_or_create` by `setup` or a proxy in the steps of
`fs::write` (a file is emptied, then filled), the copy in the trust store, the
proxy that serves, and `teardown`, which takes the copy out and removes the
directory file by file. Any command may be interrupted anywhere (`Quits`).

**ShellHook** is the script `hook install` puts into the shell: `Enter` a line,
`RunCommand` for each of its commands, `InterruptLine`, `Prompt`. zsh asks the
hook once per line, bash before each command.

**Dashboard** is one refresh, in its three reads (`List` the rows, `Scan` the
processes, `Prepare` with the pidfiles), with processes, rows and pidfiles that
change between them. It starts from any state, as nothing is kept from one refresh
to the next.

**Snapshot** asks git its questions one after the other (`AskGit`) while the user
edits, adds, commits and reverts (`Touch`), then writes the JSON and the text
(`WriteFile`), asks for a brief, writes both again and records the path; its name
is the second it was begun in. Executors of handoffs and `handoff snapshot` run
at the same time.

**Worktree** is the tree of one agent id: `CheckTree`, `RemoveStale`, `AddTree`,
`StartAgent`, `Clean`; git commands fail, and others write in the directory.

**MC...** modules hold the small sets of the configurations. ***Proofs** modules
hold theorems only.

## 3. Runs

| Run | Question | States |
|---|---|---|
| `failover_engine` | Engine against every order of events, samples, stops, failures, panics and a restart: `TypeOK`, `AtMostOncePerLife`, `BaselineOnlyRises`, `ImplementsLedger` | 162 k |
| `failover_concurrent` | Engine beside a manual handoff: `TargetsUnique`, `RowsKeepIdentity` | 426 k |
| `failover_faults` | `EventsAreTaken`, with failing operations, an edited policy and time | 323 k |
| `daemon_concurrent` | Two handlers, engine, spawn, attach: `DaemonTypeOK` | 1057 k |
| `daemon_manual` | `ChargedToItsPid` with a manual handoff, two pids, time and a restart | 594 k |
| `daemon_live` | `RequestsAreAnswered`, `ExhaustionIsHandedOver` over a channel of one place, with programs that have no headless form; deadlock is checked | 88 k |
| `daemon_rows` | `SecondRowsAreRaced`: two handlers beside `spawn` and an engine that starts agents, with exits, pid reuse, hang-ups and faults | 1603 k |
| `cli_parts` | `CliTypeOK`. Watcher and critic: `EditsAreSeen`, `RunsAreEarned`, `RevisionsTakeUpNotes`, `ReportsAreJudged`, `RecordedIsOnDisk`, `EditsAreReviewed`. Start and stop: `RunningIsNamed`. Shell hook: `EnvironmentIsRestored`, `AgentsAloneAreProxied`. Policy: `PicksAsScanned`, `MoreTokensKeepTheTarget` over all chains and samples, `NoRecoveryNoRelease` over all sequences of responses | 511 k |
| `home_parts` | `HomeTypeOK`. Brain: `DaemonEntriesDoNotMix`, `WrittenOnce`, `AppendsEnd`, `ImplementsMemory`, which has `ReportedIsKept` as a consequence. Proxy: `KindOfItsHost`, `ChargedToTheClient`. Dashboard: `AgentsAreShown`, `UsageIsNewest`. Snapshots: `WorkIsNamed`, `RecordedIsItsOwn`. Certificates: `PairBelongsTogether`, `TrustedIsCurrent`. Worktree: `UncommittedIsKept`, `StartsInItsOwn` | 467 k |

`MCCli` has four parts, `MCHome` six. The parts of a run share no state, so a
behaviour of the instance is a behaviour of one of them (`scene`), while the
others stay as they began, and each property speaks of one part. Writers
and exchanges are alike, so the one that begins is fixed (`AnyWriter`, `AnyExchange`). The type
invariants are those of the parts. Parts that do interact are composed in one
module: Storage with Failover and Daemon, Brain with Services.

What the weaker properties leave open is said in their statements: commands that
overlap, or a pidfile that cannot be written, may leave a service that no pidfile
names (`RunningIsNamed` excuses both), a direct append may fall into the middle of one by the daemon
(`DaemonEntriesDoNotMix` speaks of the calls of one daemon), a text may be
written twice if the daemon failed with it (`WrittenOnce`), and an editor that
saves takes with it what has been appended since it opened the file
(`ReportedIsKept`). A response handled after another connection's request has
that one's kind (`KindOfItsHost` excuses it, `proxy_shared` shows it); two
programs with one port at different addresses are told apart by nothing
(`ChargedToTheClient`). Two commands that create certificates at once, a
key left over without its certificate, or a copy that teardown could not
remove, leave files that differ (`crossed`, `left_behind`). Two snapshots of one
second write the same files (`RecordedIsItsOwn`). What is written in a worktree
after its status was read, or if git could not read it, is lost
(`UncommittedIsKept`).

Runs that TLC finds violated, each a disagreement between the code and what the
repository says of it:

* `daemon_unwind` — **code bug**. `truncate` (`context/src/lib.rs:207`, also
  `critic/src/lib.rs:411`) slices at a byte offset. In a diff of more than
  12,000 bytes, or a brain of more than 4,000, that offset may lie inside a
  character; the panic ends the engine's task, and `ExhaustionFires` fails for
  the next agent.
* `daemon_simulate` — a simulated event has the kind `"simulated"`, so
  `pick_next` does not skip the agent's own kind (`SkipsCurrent`).
* `proxy_shared` — **the comment and the code diverge**. The proxy's module comment says
  that it classifies each response by its `Host:`; `last_host` is shared by all
  connections, so a response is classified by the host of the request handled
  last (`ClassifiedByItsHost`).

### Bounds

`MaxAgents`, `MaxEvents`, `MaxManual`, `MaxRestarts`, `MaxPosts` and `MaxTime`
bound what the environment starts, never what the code does with it: executors
insert rows and handoffs without a bound. A channel of one place is full as soon
as a second handler sends, which is the case the capacity of 256 makes rare. Two
kinds give a chain with a target and a kind to skip; `Headless` leaves one
without a headless form. Two events suffice for a second event to arrive while
the first is executed, three for one to be blocked as well; two pids for a pid
to be confused or reused. In `daemon_rows` one pid is enough, as only rows of the same
pid matter, and its two handlers are interchangeable (`HandlerSymmetry`). The theorems of section 4 hold without these bounds'
values.

In `cli_parts`, two files give a scan with an edit between them, two edits a
second one during the run the first has started, two rounds a revision; three
pids and two shells let an old service, a new one and a stranger meet, and three
commands are start, stop and start. Lines of up to three commands on the
hooked shell hold an agent before, between and after other commands; two
variables are one set and one unset. Chains of three kinds include ties and
repetitions. In `home_parts`, two texts are enough to
mix, and one failure (`MaxFailures`) to fall back; the daemon runs or does not
run at first and may crash, and is not started again. The shells that start and
stop it are left to `cli_parts`. Two exchanges overtake each other, and three hosts
are two that name their headers alike and one unknown. Around one refresh of
the dashboard one thing changes (`MaxChanges`), after any two processes, rows and
pidfiles at its start. One handoff and one `handoff snapshot`, two touches of one
piece of work (edit and commit, or add and commit) and one failure (`MaxLapses`)
move that work between any two of git's answers. One `setup` and one proxy
with two generated pairs and two stops (`MaxPairs`, `MaxStops`) are a creation that
is interrupted, or torn down, and another. Seven steps (`MaxSteps`) make a worktree,
dirty it, remove it and make it again. For all of these parts
section 4 proves the safety properties without the bounds.

`CHECK_DEADLOCK FALSE` is set where a run stops when its events are used up; in
Daemon the idle server is the action `Rest`, so a deadlock would be real.

### Fairness

`FairSpec` has weak fairness of `EngineRuns` alone: the tokio runtime keeps
polling a task that can go on. `FairDaemonSpec` adds it for each handler, whose
client waits. Nothing makes an agent program asked for a brief return
(`CriticRunner::ask` has no timeout), so `Summarize` is not fair and the liveness
properties except `AwaitingBrief`. Weak fairness of a blocked send is enough
because the number of requests is bounded; tokio's senders queue first come,
first served. In Review the watcher's task and time are fair, the agents' answers
are not; `EditsAreReviewed` excepts a run that waits for one. In Brain each
command and each handler is fair: the brain's lock is a tokio mutex, which is
handed over in order, and a dropped guard releases it. `FairCliSpec` and
`FairHomeSpec` are those conditions for the parts of an instance. Elsewhere no fairness is
given to users, processes, restarts or time.

### Seeded faults

Each property of a passing run has an operator, commented *Seeded fault*, that
changes one definition as a plausible bug would; TLC finds the property
violated with it. They are listed under `mutants`.

## 4. Proofs

| Theorem | States | Holds for |
|---|---|---|
| `FailoverProofs!TypeCorrect` | `Spec => []TypeOK` | all constants that satisfy `FailoverAssumption` and `PidAssumption` |
| `LedgerProofs!AtMostOnce` | `Spec => []AtMostOncePerLife` | |
| `LedgerProofs!FiredCoversAll` | `Spec => []FiredCovers` | |
| `LedgerProofs!Refinement` | `Spec => ImplementsLedger` | |
| `LedgerProofs!BaselineRises` | `Spec => BaselineOnlyRises` | |
| `TargetProofs!UniqueTargets` | `Spec => []TargetsUnique` | any number of manual handoffs |
| `TargetProofs!IdentityKept` | `Spec => RowsKeepIdentity` | |
| `TargetProofs!DaemonTypeCorrect`, `ChargedRight`, `UniqueBesideCallers`, `IdentityBesideCallers` | `DaemonSpec => []DaemonTypeOK`, `[]ChargedToItsPid`, `[]TargetsUnique`, `RowsKeepIdentity` | also any handlers and programs (`DaemonAssumption`) |
| `TargetProofs!SecondRows` | `DaemonSpec => []SecondRowsAreRaced` | the same |
| `LedgerProofs!OnceBesideCallers`, `DaemonRefinement`, `BaselineBesideCallers` | `DaemonSpec => []AtMostOncePerLife`, `ImplementsLedger`, `BaselineOnlyRises` | any handlers and programs |
| `PolicyProofs!PickIsUnique` | `pick_next` names at most one kind, never the current one | every chain |
| `PolicyProofs!PickIsScan`, `TargetFollowsTokens` | `Spec => []PicksAsScanned`, `MoreTokensKeepTheTarget` (of PolicyCheck) | chains and samples of any length |
| `PolicyProofs!TriggerStays` | `Spec => NoRecoveryNoRelease` | all thresholds |
| `CliProofs!Restored`, `AgentsAlone` | `HookSpec => []EnvironmentIsRestored`, `[]AgentsAloneAreProxied` | any variables, values and lines |
| `CliProofs!NoEditLost`, `EachRunEarned` | `ReviewSpec => []EditsAreSeen`, `[]RunsAreEarned` | any number of files and edits |
| `CliProofs!NotesTakenUp`, `ReportsJudged`, `RecordedOnDisk` | `ReviewSpec => []RevisionsTakeUpNotes`, `[]ReportsAreJudged`, `[]RecordedIsOnDisk` | any number of rounds and runs |
| `BrainProofs!RunsUnderItsName` | `ServicesSpec => []RunningIsNamed` | any shells and pids |
| `BrainProofs!NeverTwice`, `EntriesApart`, `ReportKept`, `BrainTypes` | `BrainSpec => []WrittenOnce`, `[]DaemonEntriesDoNotMix`, `[]ReportedIsKept`, `[]BrainTypeOK` | any writers, texts, editors and crashes |
| `BrainProofs!MemoryRefinement` | `BrainSpec => ImplementsMemory` | the same |
| `HomeProofs!KindReported`, `ClientCharged` | `ProxySpec => []KindOfItsHost`, `[]ChargedToTheClient` | any number of exchanges, programs, hosts |
| `HomeProofs!AgentsShown`, `UsageNewest` | `DashboardSpec => []AgentsAreShown`, `[]UsageIsNewest` | any rows, processes, pidfiles and changes |
| `HomeProofs!AllWorkNamed`, `OwnSnapshot` | `SnapshotSpec => []WorkIsNamed`, `[]RecordedIsItsOwn` | any number of executors and pieces of work |
| `HomeProofs!PairWhole`, `TrustHolds` | `CaSpec => []PairBelongsTogether`, `[]TrustedIsCurrent` | any number of setups and proxies |
| `HomeProofs!WorkKept`, `OwnTree` | `WorktreeSpec => UncommittedIsKept`, `[]StartsInItsOwn` | any number of steps |
| `CliProofs!PartsOfCli`, `HomeProofs!PartsOfHome` | `FairCliSpec`, `FairHomeSpec` imply the specification of each of their parts | |
| `CliProofs!CliTypes`, `HomeProofs!HomeTypes` | `FairCliSpec => []CliTypeOK`, `FairHomeSpec => []HomeTypeOK` | all of the above |

`AtMostOncePerLife` is not inductive: a step may record a pair twice unless the
pair being executed was absent from the rows when it was chosen. `FiredCovers`
says so (rows of this life are in `fired`; so is the pair in execution, which no
row has yet), and `LedgerInv` is the conjunction. Its proof goes by the kinds of
step: all but `Fire`, `RecordHandoff` and `Restart` leave rows, `fired` and the
engine's pair as they are (`Quiet`). The refinement reuses that: quiet steps
stutter unless the engine gives up, which is `Abandon`. In Daemon the handlers'
statements, processes and commands leave handoffs, engine and executors alone, except that
a handler may append an event to the channel (`CallersApart`), so each of these theorems
holds beside them too.

`TargetsUnique` needs nothing but its own two halves, recorded rows and rows in
hand, plus that rows in hand have the kind asked for (`HeldRows`); it rests on
`insert_agent` appending and on no other step changing a row's identity. The
same lemma carries it over to Daemon: every step there is a step of Failover's
executors, or a statement of a caller that may append a row, stop one or give one
a pid (`SameRows`). `HandlerInv` adds that a request in flight holds a row of its own
pid, for which the row's pid must never change once given; `CliInv` that a program
being spawned is of a kind with a row. `DaemonAssumption` asks for a
kind to exist and for kinds to be programs.

A process may have two running rows: two requests of a new process at once give it one
each, and `spawn`, `attach` or a handoff adds one beside a request's. `SecondRowsAreRaced`
says that nothing else does: beside a running row that a request has inserted, every other
running row of the pid was given it after that request had looked, so that requests one after
the other give one row. The invariant (`LookInv`) is that whatever a handler saw of the pid
before it inserted was over, and stays so, as no step revives a row (`DaemonRows`).
It rests on the query: when `ORDER BY started_at DESC LIMIT 1` returns nothing, there is no
running row (`NewestRow`, by induction over the table's length).

Policy's choice and the dashboard's passes are folds over sequences. The library's theorems
about recursive functions take an operator as a parameter, so FoldProofs does without:
the step is a function, a fold is a function on the subsets of the sequence's positions
that satisfies its equation (`LeftFoldExists`), and an induction is the claim that a set of
numbers contains 0 and every successor of its members (`SetInduction`, from the
well-foundedness of `<`). For `PickIsScan` the claim is that after each prefix of the
chain the scan holds the candidate preferred to all others so far (`Foremost`). `UsageNewest` counts a prefix of the rows likewise
(`Counted`), and compares with a sum over a set that may be taken in any order
(`SumTakesAny`).

The dashboard's `RefreshInv` and `ScreenInv` tie what is on the screen to the three reads: a
process that has been there throughout is in the scan as it is now, and the passes over
the adapters take up each candidate that some adapter knows, once (`Reached`).

In Review `SeenInv` says that an unreviewed edit is noticed or is ahead of the remembered
modification time, and `PaidInv` counts: the runs, the one that is owed
once a change is noticed, and the files with unnoticed changes are together no
more than the edits. `JudgingInv` follows notes, verdict and reports from round to
round; `DiskInv` says which file of the report is on disk at each step of its writing.
`NameInv` says what a command that is alone knows: before it spawns nothing runs, and
until it has written the pidfile what runs is its child.

In Brain an editor may bring back at any time what it has loaded before, so
`MemoryInv` and `OrderInv` speak of every *copy* of the file, the one on disk and those in
editors: a text's calls are there once (`OnceIn`), those of one daemon together (`ApartIn`),
in order (`OrderIn`), and no further than the writer has come (`PaceIn`);
the holder of the lock is the last to have written (`TurnsIn`). `HeldInv` says that
what has been written is still on disk, unless a save has removed it. For the types
`PaceInv` adds that who still writes a text has not made its third call.
`MemoryRefinement` rests on the same invariants: as a process makes the calls of a text in
their order, a text is there exactly when its three calls are (`WholeIsAll`), so a call
completes its own text or none (`CallCompletes`), and a save that lacks a text has marked it
(`SaveSpoils`).

`HookInv` says what each of the three places holds: the user's environment is
in the shell or saved, never lost, and what is saved is never the proxy's.
`ProxyInv` ties `last_host` to the exchange that has just asked, the socket table to
the clients, and numbers to a header prefix that the reporting kind can read.
`NamedInv` follows each piece of work through git's four questions: what the
status has not named was committed before the history is asked for, and after
that everything is named. `PagesInv` says that a final write of an executor that
was alone in its second is still there.
`CaInv` has a part for each role: who creates is alone and the files are as far as
it has come (`CreatorInv`); who loads or serves finds what it has read
(`LoaderInv`, `ServerInv`); and while the file is the trusted one nobody
creates (`TrustedInv`). `TreeInv` says that what was checked is still clean.

The parts of `MCCli` and `MCHome` are stated with a `scene` that chooses the part that moves.
`PartsOfCli` and `PartsOfHome` prove that a behaviour of the instance is one of each
part's specification, steps of the other scenes being stutters of it, so what is proved of
the parts holds in the runs.

Every safety invariant and action property of a passing run is so stated by a theorem.
Only model-checked are the five liveness properties (`EventsAreTaken`, `RequestsAreAnswered`,
`ExhaustionIsHandedOver`, `EditsAreReviewed`, `AppendsEnd`): they rest on fairness, hence on
ENABLED, which is beyond the prover.

## 5. Plan, and what is not modelled

The plan took the parts in the order of what they may do to a user's project:
the failover path with its proofs; critic, services and brain; snapshots,
proxy and worktrees; setup, shell hook and dashboard; then the proofs about those.
All of it is done. What is left:

* abstract specifications of further components and their refinements;
* several projects in Storage, which is modelled with one.

Not modelled, and why:

* **Tee.** The log of an agent is rotated when an agent is started under its id, and
  each start inserts a row with a new id, so there is an old log only after the
  database has been removed. (The comment at `common/src/tee.rs:25` says that
  `.4` becomes `.5`; the code removes `.5` and then renames `.3` over `.4`.)
* **reduce** and the parsing of reset times and argument lists: functions from text to
  text, without state.
* **init_project, sync** and the installation of the hook: each creates what is missing
  and leaves alone what is there.
* **The companion's timer**: its heartbeats are among the requests of Daemon, which
  arrive at any time.
* TLS and HTTP (hudsucker), the process table (sysinfo), git and SQLite are
  represented by what the code asks of them.
* On a hooked shell: pipelines, functions and the `export` attribute of variables. What
  is assigned on a zsh line that runs with the proxy is undone with the proxy's own
  values; it is not counted as the user's, so that `EnvironmentIsRestored` accepts the loss.
  That bash's trap also logs the hook's own restoring command is left out with
  the log.
* Text layout, drawing, the release scripts, and what agent programs do with a
  prompt.

Seen while modelling, and not the subject of a property:

* An editor that reports several assistants under one pid has them all resolved to the
  row of the first (`resolve_agent_id`).
* A file that is new to the watcher is remembered but not reported as changed
  (`critic/src/watch.rs:118`).
* Reports and snapshots of one second share their names
  (`context/src/lib.rs:194`, `critic/src/lib.rs:311`).
* `snapshot_procs` (`adapters/src/lib.rs:548`) puts the path of the executable before the
  arguments unless it is one of them, so that for `gh copilot` the word after `gh`
  is `gh` again and the agent is not detected. The test `copilot_requires_subcommand`
  (623) gives `detect` a command line without that path.
* `worktree diff` and the saved patch show no untracked files, although such files make
  `create` refuse and recommend them (`daemon/src/worktree.rs:32`).
* `teardown` on Linux reports the removal of the trusted certificate whatever `sudo`
  returned (`cli/src/setup.rs:169`).
