SPECIFICATION Spec
CONSTANTS
  Provider = {1, 2}
  Worker = {w1, w2}
  Network = {wifi, none}
  Online = {wifi}
  NoNetwork = NoNetwork
  NoJob = NoJob
  Slow = {}
  MaxRun = 2
  MaxRevision = 4
SYMMETRY MonitorSymmetry
CHECK_DEADLOCK FALSE
INVARIANTS TypeOK NoLostWakeup SnapshotCoherent OneWorkerPerProvider OncePerRevision
PROPERTIES DecidesForCurrentConfig ChecksAsPromised
