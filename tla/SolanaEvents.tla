----------------------------- MODULE SolanaEvents -----------------------------
(***************************************************************************)
(* The events of a Solana transaction: those of its log lines that start   *)
(* with "Program data: " and decode to at least a discriminator.  Every    *)
(* extractor sees them all, so that a program's event is numbered among    *)
(* those of every program of the transaction.                              *)
(***************************************************************************)
EXTENDS DexRows

\* A log line: its discriminator (or "text") and the bytes that follow it,
\* -1 when not even the discriminator is complete.
ExtractSolanaEventData(tx) ==
  Kept(tx.events, {line \in ToSet(tx.events) : line.sig # "text" /\ line.bytes >= 0})

EventItems(blocks) ==
  LET decoded(tx) == [tx EXCEPT !.events = ExtractSolanaEventData(tx)]
      all(b) == [b EXCEPT !.txs = [t \in DOMAIN b.txs |-> decoded(b.txs[t])]]
  IN Items([b \in DOMAIN blocks |-> all(blocks[b])])

=============================================================================
