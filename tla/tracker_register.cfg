SPECIFICATION Spec
CONSTANTS
  Chain = {c1, c2}
  SyncInterval = 2
  Faults <- ReliableRedis
  None = None
  MaxBatch = 3
INVARIANTS
  TypeOK
PROPERTIES
  ImplementsRegister
