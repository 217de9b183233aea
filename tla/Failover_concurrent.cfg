\* The engine and a manual handoff at the same time,
\* both of which ask for a brief and a worktree.
\* The system stops when the bounds are used up.
SPECIFICATION Spec
CONSTANTS
  Kinds <- MCKinds
  Headless <- MCHeadless
  Simulated = "simulated"
  Pids = {"p1", "p2"}
  NoPid = "none"
  Engine = "engine"
  Manual = {"m1"}
  Policies <- OneBriefPolicy
  ChannelCap = 1
  TokenValues <- OnlyEmpty
  RequestValues <- MCRequests
  Faults = TRUE
  WideTexts = TRUE
  MaxTime = 0
  MaxAgents = 1
  MaxEvents = 1
  MaxManual = 1
  MaxRestarts = 0
INVARIANTS TargetsUnique
PROPERTIES RowsKeepIdentity
CHECK_DEADLOCK FALSE
