SPECIFICATION FairSpec
CONSTANTS
  Pool = {p1, p2, p3}
  NoPool = NoPool
  Msg = {m1, m2}
  MaxTotal = 4
  MaxAttempts = 3
INVARIANTS
  TypeOK
  CapacityKept
  HandedIsPrefix
  AttemptsMatch
PROPERTIES
  NeverStuck
