\* Two agents run out one after the other; the snapshot made for the first may
\* panic.
SPECIFICATION FairDaemonSpec
CONSTANTS
  Kinds <- MCKinds
  Headless <- MCHeadless
  Simulated = "simulated"
  Pids = {"p1", "p2"}
  NoPid = "none"
  Engine = "engine"
  Manual = {}
  Policies <- NotingPolicies
  ChannelCap = 1
  TokenValues <- Low
  RequestValues <- NoNumbers
  Faults = FALSE
  WideTexts = TRUE
  Handlers = {"h1"}
  Programs <- MCPrograms
  Reported <- MCReported
  Launchable = {"claude"}
  Spawnable = {}
  Attachable = {}
  HangUps = FALSE
  MaxTime = 0
  MaxAgents = 2
  MaxEvents = 2
  MaxManual = 0
  MaxRestarts = 0
  MaxPosts = 2
PROPERTY ExhaustionFires
