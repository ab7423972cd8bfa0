SPECIFICATION MemSpec
CONSTANTS
  N = 3
  MaxEpoch = 2
  MaxJoins = 1
  MaxCalls = 1
  MaxPasses = 1
  MaxRemovals = 1
  MaxRestarts = 1
INVARIANTS
  MemTypeOK
  RemovedStaysOut
PROPERTIES
  EvictionIsEarned
  TrustLossIsJustified
CHECK_DEADLOCK FALSE
