---------------------------- MODULE MCSwapPipeline ----------------------------
(* A finite instance of SwapPipeline. *)
EXTENDS SwapPipeline

CONSTANTS p1, p2, m1, m2, m3, m4

Swap(p, m) == [kind |-> "swap", pool |-> p, msg |-> m]
\* The message of a creation is not looked at.
Created(p) == [kind |-> "created", pool |-> p, msg |-> m1]

\* p1 was created before the first block scanned and is swapped twice in one
\* batch and once in a later one; p2 is created while the process scans.
EarlyPoolAndNewPool ==
  << << Swap(p1, m1), Swap(p1, m2) >>,
     << Created(p2), Swap(p2, m3) >>,
     << Swap(p1, m4) >> >>
=============================================================================
