----------------------------- MODULE SubgraphCopy -----------------------------
(***************************************************************************)
(* What a sync promises, whatever fails on the way: the pools of a         *)
(* subgraph are taken over in the order of their creation, a page at a     *)
(* time, none before one that is older and none taken back.                *)
(***************************************************************************)
EXTENDS Integers, FiniteSets

CONSTANTS
  Subgraph,  \* [version -> set of pools], a pool with its ts and id
  First,     \* pools created before this time are not asked for
  PageSize

VARIABLE copied  \* [version -> the pools taken over]

\* The order of the query: by time of creation, then by id.
Less(a, b) == a.ts < b.ts \/ (a.ts = b.ts /\ a.id < b.id)

Init == copied = [v \in DOMAIN Subgraph |-> {}]

CopyPage(v) ==
  \E page \in SUBSET (Subgraph[v] \ copied[v]) :
    /\ page # {} /\ Cardinality(page) <= PageSize
    /\ \A p \in page : p.ts >= First
    /\ \A p \in page : \A q \in Subgraph[v] :
         Less(q, p) /\ q.ts >= First => q \in copied[v] \cup page
    /\ copied' = [copied EXCEPT ![v] = @ \cup page]

Next == \E v \in DOMAIN Subgraph : CopyPage(v)

Spec == Init /\ [][Next]_copied

=============================================================================
