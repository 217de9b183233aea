\* The engine against an arbitrary environment: events, samples, restarts
\* and failing operations at any moment.
\* The system stops when the bounds are used up.
SPECIFICATION Spec
CONSTANTS
  Kinds <- MCKinds
  Headless <- MCHeadless
  Simulated = "simulated"
  Pids = {"p1"}
  NoPid = "none"
  Engine = "engine"
  Manual = {}
  Policies <- DefaultPolicies
  ChannelCap = 1
  TokenValues <- MCTokens
  RequestValues <- MCRequests
  Faults = TRUE
  WideTexts = TRUE
  MaxTime = 0
  MaxAgents = 1
  MaxEvents = 3
  MaxManual = 0
  MaxRestarts = 1
INVARIANTS TypeOK AtMostOncePerLife
PROPERTIES BaselineOnlyRises ImplementsLedger
CHECK_DEADLOCK FALSE
