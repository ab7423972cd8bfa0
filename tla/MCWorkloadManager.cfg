SPECIFICATION Spec
CONSTANTS
  Req = {r1, r2, r3, r4}
  Id = {k1, k2}
  Capacity = 1
  Key = {j1, j2}
  PipeDepth = 2
  MaxCrashes = 1
INVARIANTS
  DedupTypeOK
  EmittedOnce
  DuplicateWasEmitted
  RestartTypeOK
  LiveIsResynced
  StoreNotStaler
  NoStaleResync
PROPERTIES
  EventuallyAnswered
  EventuallyResynced
CHECK_DEADLOCK FALSE
