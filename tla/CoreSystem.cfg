SPECIFICATION SystemSpec
CONSTANTS
  a = a
  b = b
  c = c
  h1 = h1
  portA = portA
  portC = portC
  Config = {a, b, c}
  Host = {h1}
  Control <- MCControl
  BuildProxy <- MCBuildProxy
  Proxy <- MCProxy
  NoProxy = NoProxy
  Servers = {s1}
  NoServers = NoServers
  NoConfig = NoConfig
  Notifier = {n1}
  MaxStart = 2
  MaxChange = 1
  MaxReload = 2
  CoreFaults = {"build", "parse", "tun"}
CHECK_DEADLOCK FALSE
INVARIANTS DirectControlStaysInside RoutesFollowExecutor MonitorFollowsCore IPv6FollowsExecutor
