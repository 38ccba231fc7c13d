SPECIFICATION Spec
CONSTANTS
  MaxCall = 2
  MaxInstance = 1
  MaxExternal = 1
  Faults = {"tile", "promote"}
CHECK_DEADLOCK FALSE
INVARIANT QueuedStopCleansUp
