\* The engine's loop while its operations fail.
\* The system stops when the events are used up.
SPECIFICATION FairSpec
CONSTANTS
  Kinds <- MCKinds
  Headless <- MCHeadless
  Simulated = "simulated"
  Pids = {"p1"}
  NoPid = "none"
  Engine = "engine"
  Manual = {}
  Policies <- BriefPolicies
  ChannelCap = 1
  TokenValues <- OnlyEmpty
  RequestValues <- MCRequests
  Faults = TRUE
  WideTexts = FALSE
  MaxTime = 1
  MaxAgents = 1
  MaxEvents = 2
  MaxManual = 0
  MaxRestarts = 0
PROPERTIES EventsAreTaken
CHECK_DEADLOCK FALSE
