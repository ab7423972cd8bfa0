SPECIFICATION RestartSpec
CONSTANTS
  Key = {j1}
  PipeDepth = 3
  MaxCrashes = 2
INVARIANT LatestIsResynced
CHECK_DEADLOCK FALSE
