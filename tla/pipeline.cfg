SPECIFICATION FairSpec
CONSTANTS
  p1 = p1
  p2 = p2
  m1 = m1
  m2 = m2
  m3 = m3
  m4 = m4
  Pool = {p1, p2}
  NoPool = NoPool
  Msg = {m1, m2, m3, m4}
  MaxTotal = 2
  MaxAttempts = 2
  Batches <- EarlyPoolAndNewPool
  Stores = {"relational", "influx"}
  Faults = {"rpc", "redis", "store", "crash"}
  MaxFaults = 2
INVARIANTS
  TypeOK
  SwappedPoolHasRow
PROPERTIES
  NeverForgets
  ImplementsQueue
  WaitingSwapsFlushed
