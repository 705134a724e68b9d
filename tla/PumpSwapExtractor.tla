-------------------------- MODULE PumpSwapExtractor --------------------------
(***************************************************************************)
(* The rows PumpSwap's events give (Solana), numbered like PumpFun's by    *)
(* their position among all the transaction's "Program data: " lines.      *)
(***************************************************************************)
EXTENDS SolanaEvents

Discriminators == {"Buy", "Sell", "CreatePool", "Deposit", "Withdraw"}

parseBuyEvent(it)  == When(it.ev.bytes >= 160, TransactionRow(it, it.pos, "buy"))
parseSellEvent(it) == When(it.ev.bytes >= 160, TransactionRow(it, it.pos, "sell"))

parseCreatePoolEvent(it) ==
  When(it.ev.bytes >= 184, PoolRow(it, it.ev.pool, it.ev.tokens))

parseDepositEvent(it) ==
  When(it.ev.bytes >= 88, LiquidityRow(it, <<it.hash, "add", it.pos>>, it.ev.pool))

parseWithdrawEvent(it) ==
  When(it.ev.bytes >= 88, LiquidityRow(it, <<it.hash, "remove", it.pos>>, it.ev.pool))

ParseEvent(it) ==
  CASE it.ev.sig = "Buy"        -> parseBuyEvent(it)
    [] it.ev.sig = "Sell"       -> parseSellEvent(it)
    [] it.ev.sig = "CreatePool" -> parseCreatePoolEvent(it)
    [] it.ev.sig = "Deposit"    -> parseDepositEvent(it)
    [] it.ev.sig = "Withdraw"   -> parseWithdrawEvent(it)

SupportsBlock(b) == \E it \in ToSet(EventItems(<<b>>)) : it.ev.sig \in Discriminators

ExtractDexData(blocks) ==
  LET all == EventItems(blocks)
  IN Merge([i \in DOMAIN all |-> When(all[i].ev.sig \in Discriminators, ParseEvent(all[i]))])

=============================================================================
