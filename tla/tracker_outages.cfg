SPECIFICATION FairSpec
CONSTANTS
  Chain = {c1, c2}
  SyncInterval = 2
  Faults <- RedisOutagesAndCrashes
  None = None
  MaxBatch = 2
INVARIANTS
  RedisOutageTolerated
  ProgressKeptInOutage
PROPERTIES
  ReturnsToPrimary
