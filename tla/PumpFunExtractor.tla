--------------------------- MODULE PumpFunExtractor ---------------------------
(***************************************************************************)
(* The rows PumpFun's events give (Solana).  An event is recognised by its *)
(* discriminator and numbered by its position in the transaction.          *)
(***************************************************************************)
EXTENDS SolanaEvents

\* MatchDiscriminatorBytes: the discriminators of the program's three events.
Discriminators == {"Trade", "Create", "Complete"}

\* Mutant: a trade makes a row for its pool, like Sui's swaps.
PoolWithEachTrade(it) ==
  When(it.ev.bytes >= 89,
       Merge(<<TransactionRow(it, it.pos, it.ev.side), PoolRow(it, it.ev.pool, it.ev.tokens)>>))

\* A trade names the mint where the creation names the bonding curve.
parseTradeEvent(it) ==
  When(it.ev.bytes >= 89, TransactionRow(it, it.pos, it.ev.side))

parseCreateEvent(it) ==
  When(it.ev.bytes >= 108,
       Merge(<<PoolRow(it, it.ev.pool, it.ev.tokens), TokenRow(it, it.ev.tokens[1])>>))

parseCompleteEvent(it) ==
  When(it.ev.bytes >= 104,
       LiquidityRow(it, <<it.hash, "graduate", it.pos>>, it.ev.pool))

ParseEvent(it) ==
  CASE it.ev.sig = "Trade"    -> parseTradeEvent(it)
    [] it.ev.sig = "Create"   -> parseCreateEvent(it)
    [] it.ev.sig = "Complete" -> parseCompleteEvent(it)

SupportsBlock(b) == \E it \in ToSet(EventItems(<<b>>)) : it.ev.sig \in Discriminators

ExtractDexData(blocks) ==
  LET all == EventItems(blocks)
  IN Merge([i \in DOMAIN all |-> When(all[i].ev.sig \in Discriminators, ParseEvent(all[i]))])

=============================================================================
