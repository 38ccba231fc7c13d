SPECIFICATION Spec
CONSTANTS
  MaxCall = 3
  MaxInstance = 1
  MaxExternal = 0
  Faults = {}
CHECK_DEADLOCK FALSE
PROPERTY StoppedStaysStopped
