SPECIFICATION ForwarderFairSpec
CONSTANTS
  MaxFileBytes = 2
  MaxFileCount = 3
  MaxEntry = 5
  Writer = {w1}
  NoWriter = NoWriter
  MaxEvent = 2
CHECK_DEADLOCK FALSE
INVARIANTS ForwarderTypeOK FilesBounded ReadsInOrder ForwardedInOrder AtMostOneLateWrite
PROPERTIES OnlyOldestIsLost EventsAreTaken
