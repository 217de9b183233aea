\* Review: two files, edited, removed and created twice in all, and runs of up
\* to two rounds.  Services: two shells that start and stop a service.
\* Shell: two variables, set or not, and lines of up to three commands.
\* Policy: every chain of up to three out of three kinds, with repetitions, and
\* every combination of samples; every sequence of responses of one agent under
\* three configurations.
\* Services stops when its bounds are used up.
SPECIFICATION FairCliSpec
CONSTANTS
  Files = {"a", "b"}
  MaxRounds = 2
  Debounce = 2
  MaxEdits = 2
  Pids = {"p1", "p2", "p3"}
  NoPid = "none"
  Operators = {"o1", "o2"}
  MaxCommands = 3
  MaxDeaths = 2
  Names = {"HTTPS_PROXY", "SSL_CERT_FILE"}
  Values = {"v"}
  Lines <- MCLines
  Kinds <- MCKinds
  Simulated = "simulated"
  MaxChain = 3
  Amounts <- MCAmounts
  Thresholds <- SeveralThresholds
INVARIANTS CliTypeOK EditsAreSeen RunsAreEarned RevisionsTakeUpNotes
  ReportsAreJudged RecordedIsOnDisk RunningIsNamed
  EnvironmentIsRestored AgentsAloneAreProxied
  PicksAsScanned
PROPERTIES EditsAreReviewed MoreTokensKeepTheTarget NoRecoveryNoRelease
CHECK_DEADLOCK FALSE
