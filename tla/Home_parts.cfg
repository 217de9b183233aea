\* Memory: two writers and an editor; a daemon runs, or there is none, and one
\* that runs may crash.  Proxy: two exchanges with three hosts, one of which no
\* adapter knows.  Dashboard: two pids and one change around a refresh, from any
\* state.  Snapshots: a handoff and `handoff snapshot`.  Certificates: `setup`
\* and a proxy.  Each part stops when its bounds are used up.
SPECIFICATION FairHomeSpec
CONSTANTS
  Pids = {"p1"}
  NoPid = "none"
  Operators = {}
  Writers = {"w1", "w2"}
  Editors = {"e1"}
  MaxCommands = 0
  MaxDeaths = 1
  MaxAppends = 2
  MaxSaves = 1
  MaxFailures = 1
  NoKind = "nokind"
  Exchanges = {"e1", "e2"}
  Clients = {"c1", "c2"}
  ProxyPid = "proxy"
  ProxyPort = "port"
  Hosts = {"openai", "github", "other"}
  NoHost = "nohost"
  NoClient = "noclient"
  ProcIds = {1, 2}
  Images <- MCImages
  RowKinds = {"claude", "codex"}
  MaxRows = 2
  MaxChanges = 1
  Work = {"w1"}
  Executors = {"x1"}
  Snappers = {"n1"}
  LastSecond = 1
  MaxTouches = 2
  MaxLapses = 1
  Setups = {"s"}
  Proxies = {"p"}
  MaxPairs = 2
  MaxStops = 2
  MaxSteps = 7
INVARIANTS HomeTypeOK DaemonEntriesDoNotMix WrittenOnce
  KindOfItsHost ChargedToTheClient
  AgentsAreShown UsageIsNewest WorkIsNamed RecordedIsItsOwn
  PairBelongsTogether TrustedIsCurrent StartsInItsOwn
PROPERTIES ImplementsMemory AppendsEnd UncommittedIsKept
CHECK_DEADLOCK FALSE
