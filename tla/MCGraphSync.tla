------------------------------ MODULE MCGraphSync ------------------------------
(***************************************************************************)
(* Two subgraphs for GraphSync.  In v2 three pools share a timestamp, more *)
(* than a page holds, and the youngest pool has the smallest id.  The pool *)
(* of v3 is older than Since, by a second.  The versions share tokens.     *)
(***************************************************************************)
EXTENDS GraphSync

Pool(ts, id, tokens) == [ts |-> ts, id |-> id, tokens |-> tokens]

MCSubgraph ==
  [v2 |-> {Pool(1, 2, {1, 3}), Pool(1, 3, {1, 3}), Pool(1, 4, {1, 2}), Pool(2, 1, {2, 3})},
   v3 |-> {Pool(0, 1, {1, 2})}]

Everything == {"lag", "query", "store", "points", "redis", "cursor", "stop", "crash"}
=============================================================================
