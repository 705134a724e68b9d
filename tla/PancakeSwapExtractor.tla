------------------------- MODULE PancakeSwapExtractor -------------------------
(***************************************************************************)
(* The rows PancakeSwap's logs give (BSC).  A log is recognised by its     *)
(* signature alone, whatever contract emitted it; it is dropped when its   *)
(* data has too few words.  An event is numbered by its log's index in the *)
(* block.                                                                  *)
(***************************************************************************)
EXTENDS DexRows

\* The eight signatures and what they are taken for; V2 and V3 differ in size.
getLogType ==
  [SwapV2 |-> "swap_v2", SwapV3 |-> "swap_v3",
   MintV2 |-> "mint", MintV3 |-> "mint", BurnV2 |-> "burn", BurnV3 |-> "burn",
   PairCreated |-> "pair_created", PoolCreated |-> "pool_created"]

isPancakeSwapLog(ev) == ev.sig \in DOMAIN getLogType

parseV2Swap(it) ==
  When(it.ev.words >= 4, TransactionRow(it, it.ev.index, "swap"))

parseV3Swap(it) ==
  When(it.ev.words >= 5, TransactionRow(it, it.ev.index, "swap"))

\* Mutant: the key of a liquidity without the log's index.
KeyOfTheTransaction(it, side) ==
  When(it.ev.words >= 2, LiquidityRow(it, <<it.hash, side>>, it.ev.addr))

parseLiquidity(it, side) ==
  When(it.ev.words >= 2, LiquidityRow(it, <<it.hash, side, it.ev.index>>, it.ev.addr))

parseV2PairCreated(it) ==
  When(it.ev.topics >= 3 /\ it.ev.words >= 2, PoolRow(it, it.ev.pool, it.ev.tokens))

parseV3PoolCreated(it) ==
  When(it.ev.topics >= 4 /\ it.ev.words >= 2, PoolRow(it, it.ev.pool, it.ev.tokens))

ParseLog(it) ==
  CASE getLogType[it.ev.sig] = "swap_v2"      -> parseV2Swap(it)
    [] getLogType[it.ev.sig] = "swap_v3"      -> parseV3Swap(it)
    [] getLogType[it.ev.sig] = "mint"         -> parseLiquidity(it, "add")
    [] getLogType[it.ev.sig] = "burn"         -> parseLiquidity(it, "remove")
    [] getLogType[it.ev.sig] = "pair_created" -> parseV2PairCreated(it)
    [] getLogType[it.ev.sig] = "pool_created" -> parseV3PoolCreated(it)

SupportsBlock(b) == \E it \in ToSet(Items(<<b>>)) : isPancakeSwapLog(it.ev)

ExtractDexData(blocks) ==
  LET all == Items(blocks)
  IN Merge([i \in DOMAIN all |-> When(isPancakeSwapLog(all[i].ev), ParseLog(all[i]))])

=============================================================================
