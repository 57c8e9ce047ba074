CONSTANTS
  ThreadLimit = 7
  GlobalRetries = 3
  Size <- MCSize
  Raw <- MCRaw
  MaxTyped = 1
  MaxFailures = 4
SPECIFICATION FairSpec
INVARIANTS BacklogBounded TemperatureSound
PROPERTY AutoRunCatchesUp
CHECK_DEADLOCK FALSE
