---------------------------- MODULE CetusExtractor ----------------------------
(***************************************************************************)
(* The rows Cetus's events give (Sui).  An event is recognised by the      *)
(* contract in its type, its kind by the name; a swap or a change of       *)
(* liquidity gives two rows, one for each token, and the pool, the two     *)
(* tokens and the reserves as the node shows them now.  Whatever cannot be *)
(* read from the node drops the event without an error.                    *)
(***************************************************************************)
EXTENDS DexRows

CONSTANTS CetusContracts  \* the five addresses of Cetus

isCetusEvent(ev) == ev.contract \in CetusContracts

\* Exact types first, then names that look alike: both come to this.
Names ==
  [swap             |-> {"SwapEvent"},
   add_liquidity    |-> {"AddLiquidityEvent", "AddLiquidityV2Event"},
   remove_liquidity |-> {"RemoveLiquidityEvent", "RemoveLiquidityV2Event"},
   pool_created     |-> {"CreatePoolEvent"}]

getEventType(ev, type) == ev.name \in Names[type]

\* The tokens of a pool are the parameters of its object's type.
ExtractPoolCoin(ev) == Len(ev.tokens) = 2

\* What the node must answer: the pool's object, and, except for a creation,
\* the metadata of its tokens unless cached.  unread: the events for which it
\* does not.
getPoolObject(it, unread) == it.ev.id \notin unread

getTokensMetadata(it, unread) == it.ev.id \notin unread

getPoolEventData(it, unread) ==
  /\ it.ev.parsed
  /\ getPoolObject(it, unread) /\ ExtractPoolCoin(it.ev)
  /\ getTokensMetadata(it, unread)

PoolTokensAndReserve(it) ==
  Merge(<<PoolRow(it, it.ev.pool, it.ev.tokens)>>
        \o [i \in 1..2 |-> TokenRow(it, it.ev.tokens[i])]
        \o <<ReserveRow(it, it.ev.pool)>>)

\* The sold token's row and the bought token's, under one event index.
processSwapEvent(it, unread) ==
  When(getPoolEventData(it, unread),
       Merge(<<PoolTokensAndReserve(it),
               TransactionRow(it, it.ev.seq, "sell"),
               TransactionRow(it, it.ev.seq, "buy")>>))

createLiquidityFromEvent(it, side, unread) ==
  When(getPoolEventData(it, unread),
       Merge(<<PoolTokensAndReserve(it)>>
             \o [i \in 1..2 |-> LiquidityRow(it, <<it.hash, side, it.ev.seq, i - 1>>,
                                             it.ev.tokens[i])]))

createPoolFromEvent(it, unread) ==
  When(it.ev.parsed /\ getPoolObject(it, unread) /\ ExtractPoolCoin(it.ev),
       PoolRow(it, it.ev.pool, it.ev.tokens))

ProcessEvent(it, unread) ==
  CASE getEventType(it.ev, "swap") -> processSwapEvent(it, unread)
    [] getEventType(it.ev, "add_liquidity") -> createLiquidityFromEvent(it, "add", unread)
    [] getEventType(it.ev, "remove_liquidity") -> createLiquidityFromEvent(it, "remove", unread)
    [] getEventType(it.ev, "pool_created") -> createPoolFromEvent(it, unread)
    [] OTHER -> NoRows

SupportsBlock(b) == \E it \in ToSet(Items(<<b>>)) : isCetusEvent(it.ev)

ExtractDexData(blocks, unread) ==
  LET all == Items(blocks)
  IN Merge([i \in DOMAIN all |-> When(isCetusEvent(all[i].ev), ProcessEvent(all[i], unread))])

=============================================================================
