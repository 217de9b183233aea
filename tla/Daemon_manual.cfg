\* A handler, the engine, a manual handoff and a program the user starts, with
\* two pids to confuse.
SPECIFICATION DaemonSpec
CONSTANTS
  Kinds <- MCKinds
  Headless <- MCHeadless
  Simulated = "simulated"
  Pids = {"p1", "p2"}
  NoPid = "none"
  Engine = "engine"
  Manual = {"m1"}
  Policies <- BriefingPolicies
  ChannelCap = 1
  TokenValues <- Low
  RequestValues <- NoNumbers
  Faults = FALSE
  WideTexts = TRUE
  Handlers = {"h1"}
  Programs <- MCPrograms
  Reported <- MCReported
  Launchable = {"claude"}
  Spawnable = {}
  Attachable = {}
  HangUps = FALSE
  MaxTime = 1
  MaxAgents = 1
  MaxEvents = 1
  MaxManual = 1
  MaxRestarts = 1
  MaxPosts = 1
INVARIANT ChargedToItsPid
