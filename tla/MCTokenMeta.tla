------------------------------ MODULE MCTokenMeta ------------------------------
(* A finite instance of TokenMeta. *)
EXTENDS TokenMeta, TLC

CONSTANTS p, q, a, b

\* Two pools of the same pair.
MCTokensOf == (p :> <<a, b>>) @@ (q :> <<a, b>>)

\* q was created before the first block scanned; p is created while q's swap
\* may still be waiting.
MCBatches ==
  << << [kind |-> "swap", pool |-> q] >>,
     << [kind |-> "created", pool |-> p], [kind |-> "swap", pool |-> q] >> >>
=============================================================================
