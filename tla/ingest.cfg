SPECIFICATION FairSpec
CONSTANTS
  Blockchain <- MCBlockchain
  Setups <- MCSetups
  BatchSize = 2
  PoolTokens <- MCPoolTokens
  Faults = {"rpc", "store", "progress", "crash"}
  MaxFaults = 2
  MaxTxPerBlock = 2
  ChunkSize = 2
  V1Contract = "v1"
  V2Contract = "v2"
  QuoteRank <- MCQuoteRank
  CetusContracts = {"clmm", "module"}
  BluefinContract = "blue"
INVARIANTS
  TypeOK
  EventsKept
  LatestKept
  NothingTwice
  NothingElseStored
  SavedIsStored
  NumbersRight
  PassGives
PROPERTIES
  CatchesUp
