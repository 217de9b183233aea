\* Two exchanges with two providers and no client: two streams of one
\* connection are enough.
SPECIFICATION ProxySpec
CONSTANTS
  NoKind = "nokind"
  Exchanges = {"e1", "e2"}
  Clients = {"c1"}
  ProxyPid = "proxy"
  ProxyPort = "port"
  Hosts = {"openai", "github"}
  NoHost = "nohost"
  NoClient = "noclient"
INVARIANTS ClassifiedByItsHost
