------------------------------- MODULE DexRows -------------------------------
(***************************************************************************)
(* The rows a DEX extractor makes of a batch of blocks (types.DexData), as *)
(* far as the tables of the store tell them apart: the columns of a row's  *)
(* unique key, the event it was made of and, where a property needs them,  *)
(* the pool's tokens and the block number.  Amounts, prices and names are  *)
(* left out.                                                               *)
(*                                                                         *)
(* A block is [number, hash, time, txs], a transaction [hash, number, time,*)
(* events], an event a record with an id (ids grow in the order of the     *)
(* chain) and the fields its chain's extractors read.                      *)
(***************************************************************************)
EXTENDS Lists

Tables == {"pools", "tokens", "txs", "liqs", "reserves"}

\* A DexData: a sequence of rows for each table.
NoRows == [t \in Tables |-> <<>>]

Merge(all) == [t \in Tables |-> FlattenSeq([i \in DOMAIN all |-> all[i][t]])]

When(condition, rows) == IF condition THEN rows ELSE NoRows

\* What a loop picks out of a list, in its order.
Kept(s, wanted) ==
  FlattenSeq([i \in DOMAIN s |-> IF s[i] \in wanted THEN <<s[i]>> ELSE <<>>])

Only(t, row) == [NoRows EXCEPT ![t] = <<row>>]

\* Mutant: an event's position counted through the whole batch.
ItemsOfTheBatch(blocks) ==
  LET txs == FlattenSeq([b \in DOMAIN blocks |-> blocks[b].txs])
      all == FlattenSeq([t \in DOMAIN txs |->
               [i \in DOMAIN txs[t].events |-> <<txs[t], txs[t].events[i]>>]])
  IN [i \in DOMAIN all |->
        [ev |-> all[i][2], pos |-> i - 1, hash |-> all[i][1].hash,
         time |-> all[i][1].time, number |-> all[i][1].number]]

\* What an extractor is given of an event: the transaction it is in, and its
\* position among the transaction's events.
Items(blocks) ==
  LET ItemsOfTx(tx) ==
        [i \in DOMAIN tx.events |->
           [ev |-> tx.events[i], pos |-> i - 1,
            hash |-> tx.hash, time |-> tx.time, number |-> tx.number]]
      ItemsOfBlock(b) == FlattenSeq([t \in DOMAIN b.txs |-> ItemsOfTx(b.txs[t])])
  IN FlattenSeq([b \in DOMAIN blocks |-> ItemsOfBlock(blocks[b])])

-----------------------------------------------------------------------------
(* The rows, keyed as in the migrations of the relational stores.          *)

TransactionRow(it, index, side) ==
  Only("txs", [key |-> <<it.hash, index, side>>, of |-> it.ev.id, number |-> it.number])

\* The liquidity's own key is a string made of the transaction's hash, a word
\* and an index; it is unique together with the address.
LiquidityRow(it, name, addr) ==
  Only("liqs", [key |-> <<name, addr>>, of |-> it.ev.id])

PoolRow(it, addr, tokens) ==
  Only("pools", [key |-> addr, of |-> it.ev.id, tokens |-> tokens])

TokenRow(it, addr) == Only("tokens", [key |-> addr, of |-> it.ev.id])

ReserveRow(it, addr) ==
  Only("reserves", [key |-> <<addr, it.time>>, of |-> it.ev.id])

=============================================================================
