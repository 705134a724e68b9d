--------------------------- MODULE UniswapExtractor ---------------------------
(***************************************************************************)
(* The rows Uniswap's logs give (Ethereum).  Unlike the other extractors   *)
(* it remembers: the pools it has heard of, with their tokens once they    *)
(* are known, and the tokens whose metadata it has.  What it remembers     *)
(* changes the rows a log gives: the side of a swap, and whether a pool's  *)
(* placeholder or a token's row is made at all.                            *)
(*                                                                         *)
(* The memory also changes under the extractor's feet; that is modelled in *)
(* SwapPipeline (pools) and TokenMeta (tokens).                            *)
(***************************************************************************)
EXTENDS DexRows, TLC

CONSTANTS QuoteRank  \* [quote asset -> its rank], the configured quote assets

getLogType ==
  [SwapV2 |-> "swap_v2", SwapV3 |-> "swap_v3",
   MintV2 |-> "mint", MintV3 |-> "mint", BurnV2 |-> "burn", BurnV3 |-> "burn",
   Sync |-> "sync", PairCreated |-> "pair_created", PoolCreated |-> "pool_created"]

isUniswapLog(ev) == ev.sig \in DOMAIN getLogType

\* seen: [pool -> its two tokens, or <<>> for a placeholder]; tokens: the keys
\* of tokenCache.
NoMemory == [seen |-> <<>>, tokens |-> {}]

Known(mem, pool) == pool \in DOMAIN mem.seen /\ mem.seen[pool] # <<>>

GetQuoteAssetRank(t) == IF t \in DOMAIN QuoteRank THEN QuoteRank[t] ELSE -1

determineSide(in, out) ==
  CASE GetQuoteAssetRank(out) >= 0 /\ GetQuoteAssetRank(out) >= GetQuoteAssetRank(in) -> "sell"
    [] GetQuoteAssetRank(in) > GetQuoteAssetRank(out) -> "buy"
    [] OTHER -> "swap"

\* The side of a swap is "swap" as long as the pool's tokens are unknown.
Side(mem, ev) ==
  IF Known(mem, ev.addr)
  THEN determineSide(mem.seen[ev.addr][ev.paid], mem.seen[ev.addr][3 - ev.paid])
  ELSE "swap"

parseV2Swap(mem, it) ==
  When(it.ev.words >= 4, TransactionRow(it, it.ev.index, Side(mem, it.ev)))

parseV3Swap(mem, it) ==
  When(it.ev.words >= 5, TransactionRow(it, it.ev.index, Side(mem, it.ev)))

parseV3Reserve(it) ==
  When(it.ev.words >= 5 /\ ~it.ev.empty, ReserveRow(it, it.ev.addr))

parseSync(it) == When(it.ev.words >= 2, ReserveRow(it, it.ev.addr))

parseLiquidity(it, side) ==
  When(it.ev.words >= 2, LiquidityRow(it, <<it.hash, side, it.ev.index>>, it.ev.addr))

\* What a log comes to: rows, and the memory for the logs after it.
Made(rows, mem) == [rows |-> rows, mem |-> mem]

\* lazyPool: the first swap of a pool makes a row without tokens, even when the
\* swap itself was too short.
lazyPool(mem, it) == When(it.ev.addr \notin DOMAIN mem.seen, PoolRow(it, it.ev.addr, <<>>))

Heard(mem, pool) ==
  IF pool \in DOMAIN mem.seen THEN mem
  ELSE [mem EXCEPT !.seen = @ @@ (pool :> <<>>)]

\* resolvePoolTokens may have stored the pool's tokens meanwhile, from Redis;
\* see Learn.
SwapStep(mem, it, rows) ==
  Made(Merge(<<rows, lazyPool(mem, it)>>), Heard(mem, it.ev.addr))

\* A creation event has the tokens; those not in the cache get a row each, and
\* fetchTokenMeta puts them into the cache whatever it finds.
CreationStep(mem, it, wellFormed) ==
  LET new == Kept(it.ev.tokens, ToSet(it.ev.tokens) \ mem.tokens)
  IN IF ~wellFormed THEN Made(NoRows, mem)
     ELSE Made(Merge(<<PoolRow(it, it.ev.pool, it.ev.tokens)>>
                     \o [i \in DOMAIN new |-> TokenRow(it, new[i])]),
               [seen |-> (it.ev.pool :> it.ev.tokens) @@ mem.seen,
                tokens |-> mem.tokens \cup ToSet(it.ev.tokens)])

ParseLog(mem, it) ==
  LET kind == getLogType[it.ev.sig]
  IN IF ~isUniswapLog(it.ev) THEN Made(NoRows, mem)
     ELSE CASE kind = "swap_v2" -> SwapStep(mem, it, parseV2Swap(mem, it))
            [] kind = "swap_v3" ->
                 SwapStep(mem, it, Merge(<<parseV3Swap(mem, it), parseV3Reserve(it)>>))
            [] kind = "mint" -> Made(parseLiquidity(it, "add"), mem)
            [] kind = "burn" -> Made(parseLiquidity(it, "remove"), mem)
            [] kind = "sync" -> Made(parseSync(it), mem)
            [] kind = "pair_created" ->
                 CreationStep(mem, it, it.ev.topics >= 3 /\ it.ev.words >= 2)
            [] kind = "pool_created" ->
                 CreationStep(mem, it, it.ev.topics >= 4 /\ it.ev.words >= 2)

SupportsBlock(b) == \E it \in ToSet(Items(<<b>>)) : isUniswapLog(it.ev)

\* The rows, and what the extractor remembers afterwards; before[i] is what it
\* remembers when it comes to the log of index i.
ExtractDexData(mem, blocks) ==
  LET all == Items(blocks)
      before[i \in 1..(Len(all) + 1)] ==
        IF i = 1 THEN mem ELSE ParseLog(before[i - 1], all[i - 1]).mem
  IN Made(Merge([i \in DOMAIN all |-> ParseLog(before[i], all[i]).rows]),
          before[Len(all) + 1])

\* The worker of the pending queue, or Redis, tells the extractor a pool's
\* tokens.
Learn(mem, pool, tokens) ==
  [mem EXCEPT !.seen = (pool :> tokens) @@ @]

\* WarmupPoolTokens, WarmupTokenMeta: the memory of a process that starts.
Warm(pools, tokens) == [seen |-> pools, tokens |-> tokens]

=============================================================================
