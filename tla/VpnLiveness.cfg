SPECIFICATION FairSpec
CONSTANTS
  MaxCall = 2
  MaxInstance = 1
  MaxExternal = 1
  Faults = {"promote", "start", "stop", "intent", "permission", "revoke","other"}
CHECK_DEADLOCK FALSE
PROPERTY CallsDelivered
