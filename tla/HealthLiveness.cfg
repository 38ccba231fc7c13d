SPECIFICATION FairSpec
CONSTANTS
  Provider = {1, 2, 3}
  Worker = {w1, w2}
  Network = {wifi, none}
  Online = {wifi}
  NoNetwork = NoNetwork
  NoJob = NoJob
  Slow = {1, 2}
  MaxRun = 1
  MaxRevision = 4
CHECK_DEADLOCK FALSE
PROPERTIES ChecksDelivered RetiredRunsEnd
