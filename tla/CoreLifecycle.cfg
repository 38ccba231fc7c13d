SPECIFICATION FairSpec
CONSTANTS
  a = a
  b = b
  c = c
  h1 = h1
  h2 = h2
  Config = {a, b, c}
  Host = {h1, h2}
  Control <- MCControl
  Servers = {s1, s2}
  NoServers = NoServers
  NoConfig = NoConfig
  Notifier = {n1, n2}
  MaxStart = 2
  MaxChange = 2
  MaxReload = 1
  CoreFaults = {"build", "parse", "tun"}
CHECK_DEADLOCK FALSE
INVARIANTS TypeOK FreshAfterStart CacheFollowsExecutor InjectedIsTracked NoListenerLeft
PROPERTY CallsReturn
