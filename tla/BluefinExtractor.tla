--------------------------- MODULE BluefinExtractor ---------------------------
(***************************************************************************)
(* The rows Bluefin's events give (Sui).  Only the five exact event types  *)
(* count; the rest is as for Cetus, but that a pool's object is cached for *)
(* a minute and a pool's balances that cannot be read become zero instead  *)
(* of dropping the event.                                                  *)
(***************************************************************************)
EXTENDS DexRows

CONSTANTS BluefinContract

isBluefinEvent(ev) ==
  /\ ev.contract = BluefinContract
  /\ ev.name \in {"PoolCreated", "LiquidityProvided", "LiquidityRemoved",
                  "AssetSwap", "FlashSwap"}

getEventType ==
  [AssetSwap |-> "swap", FlashSwap |-> "swap", LiquidityProvided |-> "add_liquidity",
   LiquidityRemoved |-> "remove_liquidity", PoolCreated |-> "pool_created"]

ExtractPoolCoin(ev) == Len(ev.tokens) = 2

\* A cached object may expire before any call, so each call may have to ask the
\* node; unread: the events for which the node does not answer.
getPoolObject(it, unread) == it.ev.id \notin unread

getTokensMetadata(it, unread) == it.ev.id \notin unread

getPoolEventData(it, unread) ==
  /\ it.ev.parsed
  /\ getPoolObject(it, unread) /\ ExtractPoolCoin(it.ev)
  /\ getTokensMetadata(it, unread)

PoolTokensAndReserve(it) ==
  Merge(<<PoolRow(it, it.ev.pool, it.ev.tokens)>>
        \o [i \in 1..2 |-> TokenRow(it, it.ev.tokens[i])]
        \o <<ReserveRow(it, it.ev.pool)>>)

\* Mutant: both rows of a swap are its sale.
processSwapAsSale(it, unread) ==
  When(getPoolEventData(it, unread),
       Merge(<<PoolTokensAndReserve(it),
               TransactionRow(it, it.ev.seq, "sell"),
               TransactionRow(it, it.ev.seq, "sell")>>))

processSwapEvent(it, unread) ==
  When(getPoolEventData(it, unread),
       Merge(<<PoolTokensAndReserve(it),
               TransactionRow(it, it.ev.seq, "sell"),
               TransactionRow(it, it.ev.seq, "buy")>>))

createLiquidityFromEvent(it, side, unread) ==
  When(getPoolEventData(it, unread),
       Merge(<<PoolTokensAndReserve(it)>>
             \o [i \in 1..2 |-> LiquidityRow(it, <<it.hash, side, it.ev.seq, i - 1>>,
                                             it.ev.tokens[i])]))

createPoolFromEvent(it, unread) ==
  When(it.ev.parsed /\ getPoolObject(it, unread) /\ ExtractPoolCoin(it.ev),
       PoolRow(it, it.ev.pool, it.ev.tokens))

ProcessEvent(it, unread) ==
  LET kind == getEventType[it.ev.name]
  IN CASE kind = "swap" -> processSwapEvent(it, unread)
       [] kind = "add_liquidity" -> createLiquidityFromEvent(it, "add", unread)
       [] kind = "remove_liquidity" -> createLiquidityFromEvent(it, "remove", unread)
       [] kind = "pool_created" -> createPoolFromEvent(it, unread)

\* Every block of Sui is looked at.
SupportsBlock(b) == TRUE

ExtractDexData(blocks, unread) ==
  LET all == Items(blocks)
  IN Merge([i \in DOMAIN all |-> When(isBluefinEvent(all[i].ev), ProcessEvent(all[i], unread))])

=============================================================================
