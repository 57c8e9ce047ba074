CONSTANTS
  Wrap = 6
  TicsPerSec = 2
  MaxTimeout = 8
  Values <- Arguments
  Period <- Periods
  MinPause = 2
  MaxAge = 13
  MaxLag = 2
  Hundredth = 3
  JumpThreshold = 3
  ClockSteps <- Steps
  MaxBehind = 1
  MaxSetbacks = 2
SPECIFICATION SystemSpec
INVARIANTS MaxTimeoutHonoured
