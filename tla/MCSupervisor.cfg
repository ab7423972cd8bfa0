SPECIFICATION SupSpec
CONSTANTS
  Proc = {1, 2}
  MaxAttempts = 2
  DegradeAfter = 1
  RestartAfter = 2
  Kinds = {"worker", "engine-manager"}
INVARIANTS
  SupTypeOK
  NoStrayWorker
  StopLeavesNothing
  BudgetBounded
  StatusIsCurrent
PROPERTIES
  ClearedByHealthOnly
  StopReturns
  RestartServed
  CrashClears
