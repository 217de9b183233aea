------------------------------- MODULE MCHome -------------------------------
(***************************************************************************)
(* Small instances for TLC of six parts that keep a state of their own:    *)
(* the project's memory, the proxy, the dashboard, snapshots, the          *)
(* certificate authority and an agent's worktree.  They share no state, so *)
(* a behaviour is one of one of them.                                      *)
(***************************************************************************)
EXTENDS Brain, Proxy, Dashboard, Snapshot, CertAuthority, Worktree

VARIABLE scene

Scenes == {"brain", "proxy", "dashboard", "snapshot", "ca", "worktree"}

homeVars ==
  <<allVars, proxyVars, dashboardVars, snapshotVars, caVars, treeVars, scene>>

HomeInit ==
  /\ scene \in Scenes
  /\ BrainInit /\ (scene = "brain" \/ pidfile = Missing)
  /\ ProxyInit
  /\ CaInit
  /\ WorktreeInit
  /\ SnapshotInit /\ (scene = "snapshot" \/ \A w \in Work : work[w] = "none")
  /\ DashboardInit
  /\ IF scene = "dashboard"
     THEN service \in {{}, {1}}      \* pids are alike
     ELSE running = NoProcs /\ rows = <<>> /\ service = {}

\* Writers are alike, and so are exchanges: it does not matter whose is first.
AnyWriter == CHOOSE w \in Writers : TRUE
AnyExchange == CHOOSE e \in Exchanges : TRUE

HomeNext ==
  /\ \/ /\ scene = "brain" /\ BrainNext /\ (text'[AnyWriter] = 0 => appends' = 0)
        /\ UNCHANGED <<proxyVars, dashboardVars, snapshotVars, caVars, treeVars>>
     \/ /\ scene = "proxy" /\ ProxyNext /\ (at'[AnyExchange] = "new" => sockets' = {})
        /\ UNCHANGED <<allVars, dashboardVars, snapshotVars, caVars, treeVars>>
     \/ /\ scene = "dashboard" /\ DashboardNext
        /\ UNCHANGED <<allVars, proxyVars, snapshotVars, caVars, treeVars>>
     \/ /\ scene = "snapshot" /\ SnapshotNext
        /\ UNCHANGED <<allVars, proxyVars, dashboardVars, caVars, treeVars>>
     \/ /\ scene = "ca" /\ CaNext
        /\ UNCHANGED <<allVars, proxyVars, dashboardVars, snapshotVars, treeVars>>
     \/ /\ scene = "worktree" /\ WorktreeNext
        /\ UNCHANGED <<allVars, proxyVars, dashboardVars, snapshotVars, caVars>>
  /\ UNCHANGED scene

Others == <<proxyVars, dashboardVars, snapshotVars, caVars, treeVars, scene>>

\* As in FairBrainSpec.
FairHomeSpec ==
  /\ HomeInit /\ [][HomeNext]_homeVars
  /\ \A w \in Writers :
       /\ WF_homeVars(scene = "brain" /\ AppendStep(w) /\ UNCHANGED Others)
       /\ WF_homeVars(scene = "brain" /\ DaemonStep(w) /\ UNCHANGED Others)

\* The type invariants of the parts.
HomeTypeOK ==
  /\ BrainTypeOK
  /\ ProxyTypeOK
  /\ DashboardTypeOK
  /\ SnapshotTypeOK
  /\ CaTypeOK
  /\ WorktreeTypeOK

------------------------------------------------------------------------------
(* What may run, for the dashboard *)

Image(name, exe, argv, mentions) ==
  [name |-> name, exe |-> exe, argv |-> argv, mentions |-> mentions]

Bin(f) == Word("/bin", f)
Bare(f) == Word("", f)

MCImages == {
  Image("codex", Bin("codex"), <<Bare("codex")>>, {}),
  \* Two adapters know it.
  Image("node", Bin("node"), <<Bare("node"), Bin("codex"), Bare("claude")>>, {}),
  Image("handoff", Bin("handoff"), <<Bare("handoff"), Bare("daemon")>>, {"handoff", "service"}),
  \* Its prompt is about the daemon.
  Image("claude", Bin("claude"), <<Bare("claude"), Bare("-p")>>, {"handoff", "service"}) }
=============================================================================
