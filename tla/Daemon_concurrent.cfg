\* Two handlers, the engine, `handoff spawn` and `handoff attach` at the
\* same time, with operations that fail.
SPECIFICATION DaemonSpec
CONSTANTS
  Kinds <- MCKinds
  Headless <- MCHeadless
  Simulated = "simulated"
  Pids = {"p1"}
  NoPid = "none"
  Engine = "engine"
  Manual = {}
  Policies <- SpawningPolicies
  ChannelCap = 1
  TokenValues <- Low
  RequestValues <- NoNumbers
  Faults = TRUE
  WideTexts = TRUE
  Handlers = {"h1", "h2"}
  Programs <- MCPrograms
  Reported <- MCReported
  Launchable = {"claude"}
  Spawnable = {"claude"}
  Attachable = {"claude"}
  HangUps = FALSE
  MaxTime = 0
  MaxAgents = 1
  MaxEvents = 2
  MaxManual = 0
  MaxRestarts = 0
  MaxPosts = 2
INVARIANT DaemonTypeOK
