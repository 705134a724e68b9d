SPECIFICATION FairSpec
CONSTANTS
  Chain = {c1}
  SyncInterval = 2
  Faults <- Transient
  StartBlock <- FromTheHead
  BatchSize = 1
  Lookback = 1
  FirstHead = 3
  MaxHead = 7
INVARIANTS
  NoGap
PROPERTIES
  NoReprocessing
  CatchesUp
