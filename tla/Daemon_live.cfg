\* Progress of two handlers and the engine.  Rest stands for the idle server,
\* so a deadlock would be real.
SPECIFICATION FairDaemonSpec
CONSTANTS
  Kinds <- MCKinds
  Headless <- NoKinds
  Simulated = "simulated"
  Pids = {"p1"}
  NoPid = "none"
  Engine = "engine"
  Manual = {}
  Policies <- WorktreePolicies
  ChannelCap = 1
  TokenValues <- Low
  RequestValues <- NoNumbers
  Faults = FALSE
  WideTexts = FALSE
  Handlers = {"h1", "h2"}
  Programs <- MCPrograms
  Reported <- MCReported
  Launchable = {"claude"}
  Spawnable = {}
  Attachable = {}
  HangUps = FALSE
  MaxTime = 0
  MaxAgents = 1
  MaxEvents = 3
  MaxManual = 0
  MaxRestarts = 0
  MaxPosts = 3
PROPERTIES RequestsAreAnswered ExhaustionIsHandedOver
