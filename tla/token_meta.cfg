SPECIFICATION FairSpec
CONSTANTS
  p = p
  q = q
  a = a
  b = b
  Token = {a, b}
  Pool = {p, q}
  TokensOf <- MCTokensOf
  Subgraph = {q}
  Batches <- MCBatches
  MaxAttempts = 2
  Faults = {"rpc", "limit", "redis", "store", "crash", "expiry"}
  MaxFaults = 1
INVARIANTS
  TypeOK
  OneCallPerToken
  KnownNotAskedAgain
  TokensStored
PROPERTIES
  AllSettled
