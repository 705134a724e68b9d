---------------------------- MODULE ChainProcessors ----------------------------
(***************************************************************************)
(* What GetBlocksByRange hands to the engine for a range of blocks.  None  *)
(* of the four processors ever fails: a block that cannot be read is left  *)
(* out, and so is a transaction whose receipt or details cannot be read.   *)
(*                                                                         *)
(* lost: the hashes of the blocks and transactions the node does not give, *)
(* all attempts included.  A chain is a sequence of blocks as the node has *)
(* them; its transactions have a flag ok (executed successfully) and       *)
(* typed (of a type the client library knows).                             *)
(***************************************************************************)
EXTENDS Lists

CONSTANTS MaxTxPerBlock  \* the cut in the BSC processor, 200 in the code

\* A transaction as the engine sees it: with its block's number and time.
Unified(b, tx) == [hash |-> tx.hash, number |-> b.number, time |-> b.time,
                   events |-> tx.events]

WithTxs(b, txs) == [number |-> b.number, hash |-> b.hash, time |-> b.time, txs |-> txs]

\* A loop appends what it could read and goes on.
Unless(skipped, item) == IF skipped THEN <<>> ELSE <<item>>

-----------------------------------------------------------------------------
(* Ethereum: the receipts of a block come in one answer, nil for some.     *)

EthereumTransactions(b, lost) ==
  FlattenSeq([i \in DOMAIN b.txs |-> Unless(b.txs[i].hash \in lost, Unified(b, b.txs[i]))])

EthereumGetBlock(b, lost) == WithTxs(b, EthereumTransactions(b, lost))

\* Mutant: the blocks of a range share the number of the first.
NumberedByTheFirst(chain, from, to, lost) ==
  LET asked == SubSeq(chain, from, to)
  IN FlattenSeq([i \in DOMAIN asked |->
       Unless(asked[i].hash \in lost,
              EthereumGetBlock([asked[i] EXCEPT !.number = asked[1].number], lost))])

EthereumGetBlocksByRange(chain, from, to, lost) ==
  LET asked == SubSeq(chain, from, to)
  IN FlattenSeq([i \in DOMAIN asked |->
       Unless(asked[i].hash \in lost, EthereumGetBlock(asked[i], lost))])

-----------------------------------------------------------------------------
(* BSC: one receipt at a time, of the first transactions only.  A block    *)
(* with a transaction of an unknown type comes without any.                *)

BscBlockWithRetry(b) ==
  IF \E i \in DOMAIN b.txs : ~b.txs[i].typed THEN [b EXCEPT !.txs = <<>>] ELSE b

BscTransactions(b, lost) ==
  LET asked == SubSeq(b.txs, 1, IF Len(b.txs) > MaxTxPerBlock THEN MaxTxPerBlock ELSE Len(b.txs))
  IN FlattenSeq([i \in DOMAIN asked |-> Unless(asked[i].hash \in lost, Unified(b, asked[i]))])

BscGetBlock(b, lost) == WithTxs(b, BscTransactions(BscBlockWithRetry(b), lost))

BscGetBlocksByRange(chain, from, to, lost) ==
  LET asked == SubSeq(chain, from, to)
  IN FlattenSeq([i \in DOMAIN asked |->
       Unless(asked[i].hash \in lost, BscGetBlock(asked[i], lost))])

-----------------------------------------------------------------------------
(* Solana: a slot comes with all its transactions; failed ones are left    *)
(* out, and a skipped slot has no block at all.                            *)

SolanaBlockTransactions(b) ==
  FlattenSeq([i \in DOMAIN b.txs |-> Unless(~b.txs[i].ok, Unified(b, b.txs[i]))])

SolanaGetBlock(b) == WithTxs(b, SolanaBlockTransactions(b))

SolanaGetBlocksByRange(chain, from, to, lost) ==
  LET asked == SubSeq(chain, from, to)
  IN FlattenSeq([i \in DOMAIN asked |->
       Unless(asked[i].hash \in lost \/ asked[i].skipped, SolanaGetBlock(asked[i]))])

-----------------------------------------------------------------------------
(* Sui: the details of a checkpoint's transactions come in one answer, or  *)
(* one at a time when that fails.                                          *)

SuiTransactionDetails(b, lost) ==
  FlattenSeq([i \in DOMAIN b.txs |-> Unless(b.txs[i].hash \in lost, Unified(b, b.txs[i]))])

\* Block and transactions are numbered by the loop's counter itself, not by a
\* copy of it.
SuiGetBlock(b, counter, lost) ==
  LET numbered == [b EXCEPT !.number = counter]
  IN WithTxs(numbered, SuiTransactionDetails(numbered, lost))

\* When the engine reads the numbers, the counter of the loop has gone past the
\* end of the range.
SuiGetBlocksByRange(chain, from, to, lost) ==
  LET asked == SubSeq(chain, from, to)
  IN FlattenSeq([i \in DOMAIN asked |->
       Unless(asked[i].hash \in lost, SuiGetBlock(asked[i], to + 1, lost))])

=============================================================================
