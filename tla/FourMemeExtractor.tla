-------------------------- MODULE FourMemeExtractor --------------------------
(***************************************************************************)
(* The rows Four.meme's logs give (BSC).  A log counts when one of the two *)
(* contracts emitted it and its signature is of that contract's version.   *)
(* An event is numbered by its position in the transaction's own list of   *)
(* logs, not in the block; a token is its own pool.                        *)
(***************************************************************************)
EXTENDS DexRows

CONSTANTS V1Contract, V2Contract  \* the addresses of the two contracts

getContractVersion(ev) ==
  CASE ev.addr = V1Contract -> 1
    [] ev.addr = V2Contract -> 2
    [] OTHER -> 0

Signatures ==
  {"TokenCreateV2", "TokenPurchaseV2", "TokenSaleV2", "LiquidityAddedV2",
   "TokenCreateV1", "TokenPurchaseV1", "TokenSaleV1"}

isFourMemeLog(ev) == ev.addr \in {V1Contract, V2Contract} /\ ev.sig \in Signatures

token(ev) == ev.tokens[1]

parseV2Purchase(it) == When(it.ev.words >= 8, TransactionRow(it, it.pos, "buy"))
parseV2Sale(it)     == When(it.ev.words >= 8, TransactionRow(it, it.pos, "sell"))
parseV1Purchase(it) == When(it.ev.words >= 4, TransactionRow(it, it.pos, "buy"))
parseV1Sale(it)     == When(it.ev.words >= 4, TransactionRow(it, it.pos, "sell"))

parseV2TokenCreate(it) ==
  When(it.ev.words >= 8, PoolRow(it, token(it.ev), <<token(it.ev)>>))

parseV1TokenCreate(it) ==
  When(it.ev.words >= 7, PoolRow(it, token(it.ev), <<token(it.ev)>>))

parseV2LiquidityAdded(it) ==
  When(it.ev.words >= 4,
       LiquidityRow(it, <<it.hash, "liquidity", it.pos>>, token(it.ev)))

ParseLog(it) ==
  LET is(sig, version) == it.ev.sig = sig /\ getContractVersion(it.ev) = version
  IN CASE is("TokenPurchaseV2", 2)  -> parseV2Purchase(it)
       [] is("TokenSaleV2", 2)      -> parseV2Sale(it)
       [] is("TokenPurchaseV1", 1)  -> parseV1Purchase(it)
       [] is("TokenSaleV1", 1)      -> parseV1Sale(it)
       [] is("TokenCreateV2", 2)    -> parseV2TokenCreate(it)
       [] is("TokenCreateV1", 1)    -> parseV1TokenCreate(it)
       [] is("LiquidityAddedV2", 2) -> parseV2LiquidityAdded(it)
       [] OTHER                     -> NoRows

SupportsBlock(b) == \E it \in ToSet(Items(<<b>>)) : isFourMemeLog(it.ev)

ExtractDexData(blocks) ==
  LET all == Items(blocks)
  IN Merge([i \in DOMAIN all |-> When(isFourMemeLog(all[i].ev), ParseLog(all[i]))])

=============================================================================
