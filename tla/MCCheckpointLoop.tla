--------------------------- MODULE MCCheckpointLoop ---------------------------
(* Finite instances of CheckpointLoop. *)
EXTENDS CheckpointLoop

\* Redis is reliable: it answers and keeps its data.
ReliableRedis == {"db", "crash"}
\* The DB does not fail.
RedisOutagesAndCrashes == {"redis", "crash"}
=============================================================================
