SPECIFICATION Spec
CONSTANTS
  a = a
  b = b
  c = c
  h1 = h1
  h2 = h2
  Config = {a, b, c}
  Host = {h1, h2}
  Control <- MCControl
  Servers = {s1, s2}
  NoServers = NoServers
  NoConfig = NoConfig
  Notifier = {n1}
  MaxStart = 1
  MaxChange = 2
  MaxReload = 1
  CoreFaults = {}
CHECK_DEADLOCK FALSE
INVARIANT FreshPolicy
