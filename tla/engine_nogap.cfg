SPECIFICATION Spec
CONSTANTS
  Chain = {c1}
  SyncInterval = 2
  Faults <- AllButSkip
  StartBlock <- FromBlock2
  BatchSize = 1
  Lookback = 1
  FirstHead = 3
  MaxHead = 7
INVARIANTS
  TypeOK
  NoGap
  RowOrder
  NoGapInv
