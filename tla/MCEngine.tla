-------------------------------- MODULE MCEngine --------------------------------
(* Finite instances of Engine. *)
EXTENDS Engine

FromBlock2  == [c \in Chain |-> 2]
FromTheHead == [c \in Chain |-> 0]

\* Everything except a processor that skips blocks.
AllButSkip == {"redis", "redisLoss", "db", "crash", "rpc", "extract", "store"}
\* Redis keeps its data and answers; a retry gets past everything else.
Transient == {"crash", "rpc", "extract", "store"}
=============================================================================
