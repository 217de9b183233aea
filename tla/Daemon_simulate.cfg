\* `handoff simulate-limit` for an agent whose kind heads the chain.
SPECIFICATION DaemonSpec
CONSTANTS
  Kinds <- MCKinds
  Headless <- MCHeadless
  Simulated = "simulated"
  Pids = {"p1"}
  NoPid = "none"
  Engine = "engine"
  Manual = {}
  Policies <- NotingPolicies
  ChannelCap = 1
  TokenValues <- Low
  RequestValues <- Low
  Faults = FALSE
  WideTexts = FALSE
  Handlers = {"h1"}
  Programs <- MCPrograms
  Reported <- MCReported
  Launchable = {"claude"}
  Spawnable = {}
  Attachable = {}
  HangUps = FALSE
  MaxTime = 0
  MaxAgents = 2
  MaxEvents = 2
  MaxManual = 0
  MaxRestarts = 0
  MaxPosts = 2
INVARIANT SkipsCurrent
