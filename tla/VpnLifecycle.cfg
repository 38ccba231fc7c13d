SPECIFICATION Spec
CONSTANTS
  MaxCall = 2
  MaxInstance = 2
  MaxExternal = 1
  Faults = {"tile", "tun", "start", "config", "intent", "permission", "activity"}
CHECK_DEADLOCK FALSE
INVARIANTS TypeOK SettledStateIsTrue SettledCoreIsOwned SettledServiceIsStopped QueuedStopCleansUp IgnoredStartIsConnected OneObjectNotifies
PROPERTIES StopDoneMeansClosed CallsAsPromised
