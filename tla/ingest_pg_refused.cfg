SPECIFICATION FairSpec
CONSTANTS
  Blockchain <- MCBlockchain
  Setups <- EthereumPgsql
  BatchSize = 2
  PoolTokens <- MCPoolTokens
  Faults = {"rpc", "store", "progress", "crash"}
  MaxFaults = 0
  MaxTxPerBlock = 2
  ChunkSize = 500
  V1Contract = "v1"
  V2Contract = "v2"
  QuoteRank <- MCQuoteRank
  CetusContracts = {"clmm", "module"}
  BluefinContract = "blue"
PROPERTIES
  CatchesUp
