\* Two requests at a time beside `handoff spawn` and the engine, which starts
\* agents; processes exit, rows are stopped and the pid is used again, clients
\* hang up, operations fail.
SPECIFICATION DaemonSpec
CONSTANTS
  Kinds <- MCKinds
  Headless <- MCHeadless
  Simulated = "simulated"
  Pids = {"p1"}
  NoPid = "none"
  Engine = "engine"
  Manual = {}
  Policies <- SpawningPolicies
  ChannelCap = 1
  TokenValues <- Low
  RequestValues <- NoNumbers
  Faults = TRUE
  WideTexts = FALSE
  Handlers = {h1, h2}
  Programs <- MCPrograms
  Reported <- MCReported
  Launchable = {"claude"}
  Spawnable = {"claude"}
  Attachable = {}
  HangUps = TRUE
  MaxTime = 0
  MaxAgents = 2
  MaxEvents = 1
  MaxManual = 0
  MaxRestarts = 0
  MaxPosts = 2
SYMMETRY HandlerSymmetry
INVARIANT SecondRowsAreRaced
