------------------------------- MODULE MCIngest -------------------------------
(***************************************************************************)
(* Four short chains for Ingest.  Each has blocks with several events of a *)
(* kind in one transaction, of two protocols where the chain has two, logs *)
(* that are too short, and a pool that is traded in two blocks of the same *)
(* second.                                                                 *)
(***************************************************************************)
EXTENDS Ingest, TLC

Nothing == [txs |-> 0, liqs |-> 0, pools |-> {}, tokens |-> {}, reserves |-> {}]
Swap(n) == [Nothing EXCEPT !.txs = n]
Liq(n)  == [Nothing EXCEPT !.liqs = n]
Pools(p) == [Nothing EXCEPT !.pools = {p}]

Tx(hash, events) == [hash |-> hash, ok |-> TRUE, typed |-> TRUE, events |-> events]
Block(n, time, txs) ==
  [number |-> n, hash |-> ToString(n), time |-> time, skipped |-> FALSE, txs |-> txs]

\* An EVM log: its index in the block, its contract, signature and size.
Log(id, index, addr, sig, words, gives) ==
  [id |-> id, index |-> index, addr |-> addr, sig |-> sig, words |-> words,
   topics |-> 4, pool |-> "p", tokens |-> <<"weth", "usdc">>, paid |-> 1,
   empty |-> FALSE, gives |-> gives]
Meme(id, index, addr, sig, words, gives) ==
  [Log(id, index, addr, sig, words, gives) EXCEPT !.tokens = <<"meme">>]

\* The third transaction of the first block is beyond the cut.
bsc ==
  << Block(1, 1,
       << Tx("b1", <<Log(1, 0, "factory", "PairCreated", 2, Pools("p")),
                     Log(2, 1, "p", "SwapV2", 4, Swap(1)),
                     Log(3, 2, "p", "SwapV2", 4, Swap(1)),
                     Log(4, 3, "p", "SwapV2", 3, Nothing)>>),
          Tx("b2", <<Meme(5, 4, "v2", "TokenCreateV2", 8, Pools("meme")),
                     Meme(6, 5, "v2", "TokenPurchaseV2", 8, Swap(1)),
                     Meme(7, 6, "v2", "TokenSaleV2", 8, Swap(1)),
                     Meme(8, 7, "v1", "TokenSaleV2", 8, Nothing)>>),
          Tx("b3", <<Log(9, 8, "p", "SwapV3", 5, Swap(1))>>) >>),
     Block(2, 1,
       << Tx("b4", <<Log(10, 0, "p", "MintV2", 2, Liq(1)),
                     Log(11, 1, "p", "MintV3", 4, Liq(1)),
                     Log(12, 2, "p", "BurnV2", 2, Liq(1)),
                     Log(13, 3, "other", "Transfer", 1, Nothing),
                     Log(14, 4, "p", "SwapV3", 5, Swap(1))>>) >>),
     Block(3, 2,
       << Tx("b5", <<Log(15, 0, "p", "BurnV3", 3, Liq(1)),
                     Meme(16, 1, "v1", "TokenPurchaseV1", 4, Swap(1)),
                     Log(17, 2, "p", "SwapV2", 4, Swap(1)),
                     Meme(18, 3, "v1", "TokenSaleV1", 4, Swap(1)),
                     Meme(19, 4, "v2", "LiquidityAddedV2", 4, Liq(1))>>),
          Tx("b6", <<[Meme(20, 5, "v1", "TokenCreateV1", 7, Pools("meme1"))
                        EXCEPT !.tokens = <<"meme1">>],
                     [Log(21, 6, "factory", "PoolCreated", 2, Pools("p3"))
                        EXCEPT !.pool = "p3"]>>) >>),
     Block(4, 2, <<[Tx("b7", <<Log(22, 0, "p", "SwapV2", 4, Swap(1))>>)
                      EXCEPT !.typed = FALSE]>>) >>

\* A Solana log line: its discriminator and size.
Line(id, sig, bytes, gives) ==
  [id |-> id, sig |-> sig, bytes |-> bytes, side |-> "buy", pool |-> "q",
   tokens |-> <<"mint", "sol">>, gives |-> gives]
Created == [Nothing EXCEPT !.pools = {"q"}, !.tokens = {"mint"}]

solana ==
  << Block(1, 1,
       << Tx("s1", <<Line(1, "text", 0, Nothing), Line(2, "Create", 108, Created),
                     Line(3, "Trade", -1, Nothing), Line(4, "Trade", 89, Swap(1)),
                     Line(5, "Trade", 89, Swap(1)), Line(6, "Trade", 88, Nothing)>>),
          [Tx("s2", <<Line(7, "Trade", 89, Nothing)>>) EXCEPT !.ok = FALSE] >>),
     [Block(2, 1, <<>>) EXCEPT !.skipped = TRUE],
     Block(3, 1,
       << Tx("s3", <<Line(8, "Complete", 104, Liq(1)), 
                     [Line(9, "CreatePool", 184, Pools("r")) EXCEPT !.pool = "r"],
                     Line(10, "Deposit", 88, Liq(1)), Line(11, "Buy", 160, Swap(1)),
                     Line(12, "Trade", 89, Swap(1)), Line(13, "Sell", 160, Swap(1)),
                     Line(14, "Sell", 160, Swap(1)), Line(15, "Withdraw", 88, Liq(1))>>) >>),
     Block(4, 2, <<Tx("s4", <<Line(16, "Buy", 160, Swap(1)),
                              Line(17, "Withdraw", 88, Liq(1))>>)>>) >>

\* A Sui event: its number in the transaction, its contract and name.
Event(id, seq, contract, name, gives) ==
  [id |-> id, seq |-> seq, contract |-> contract, name |-> name, parsed |-> TRUE,
   pool |-> contract, tokens |-> <<"sui", "usdc">>, gives |-> gives]
Of(contract, time) ==
  [Nothing EXCEPT !.pools = {contract}, !.tokens = {"sui", "usdc"},
                  !.reserves = {<<contract, time>>}]

sui ==
  << Block(1, 1,
       << Tx("u1", <<Event(1, 0, "clmm", "CreatePoolEvent", Pools("clmm")),
                     Event(2, 1, "clmm", "SwapEvent", [Of("clmm", 1) EXCEPT !.txs = 2]),
                     Event(3, 2, "blue", "AssetSwap", [Of("blue", 1) EXCEPT !.txs = 2]),
                     Event(4, 3, "blue", "FlashSwap", [Of("blue", 1) EXCEPT !.txs = 2]),
                     [Event(5, 4, "blue", "AssetSwap", Nothing) EXCEPT !.parsed = FALSE]>>),
          Tx("u2", <<Event(6, 0, "blue", "PoolCreated", Pools("blue"))>>) >>),
     Block(2, 1,
       << Tx("u3", <<Event(7, 0, "clmm", "AddLiquidityEvent", [Of("clmm", 1) EXCEPT !.liqs = 2]),
                     Event(8, 1, "clmm", "CollectFeeEvent", Nothing),
                     Event(9, 2, "blue", "LiquidityProvided", [Of("blue", 1) EXCEPT !.liqs = 2])>>) >>),
     Block(3, 2,
       << Tx("u4", <<Event(10, 0, "module", "RemoveLiquidityV2Event",
                           [Of("module", 2) EXCEPT !.liqs = 2]),
                     Event(11, 1, "blue", "LiquidityRemoved", [Of("blue", 2) EXCEPT !.liqs = 2]),
                     Event(12, 2, "other", "SwapEvent", Nothing)>>) >>) >>

\* Uniswap: swaps before and after the creation of their pool.
Reserve(n, time) == [Swap(n) EXCEPT !.reserves = {<<"p", time>>}]

ethereum ==
  << Block(1, 1,
       << Tx("e1", <<Log(1, 0, "p", "Sync", 2, [Nothing EXCEPT !.reserves = {<<"p", 1>>}]),
                     Log(2, 1, "p", "SwapV2", 4, Swap(1)),
                     Log(3, 2, "p", "SwapV2", 3, Nothing)>>) >>),
     Block(2, 2,
       << Tx("e2", <<Log(4, 0, "factory", "PairCreated", 2, Pools("p")),
                     Log(5, 1, "p", "MintV2", 2, Liq(1)),
                     Log(6, 2, "p", "SwapV3", 5, Reserve(1, 2)),
                     Log(7, 3, "p", "SwapV3", 5, Reserve(1, 2))>>) >>),
     Block(3, 3,
       << Tx("e3", <<Log(8, 0, "p", "BurnV3", 3, Liq(1)),
                     [Log(9, 1, "factory", "PoolCreated", 2, Pools("p3"))
                        EXCEPT !.pool = "p3"],
                     Log(10, 2, "p", "Transfer", 1, Nothing)>>) >>) >>

MCBlockchain == [bsc |-> bsc, solana |-> solana, sui |-> sui, ethereum |-> ethereum]
MCPoolTokens == [p |-> <<"weth", "usdc">>]
MCQuoteRank  == [usdc |-> 100, weth |-> 50]

EveryChainOnMysql == {<<c, "mysql">> : c \in DOMAIN MCBlockchain}
MCSetups == EveryChainOnMysql \cup {<<"bsc", "pgsql">>, <<"solana", "pgsql">>}
EthereumPgsql == {<<"ethereum", "pgsql">>}
=============================================================================
