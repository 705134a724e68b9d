----------------------------- MODULE InfluxBuffer -----------------------------
(***************************************************************************)
(* The batch cache of the InfluxDB store.  StoreDexData returns as soon as *)
(* its rows are in the cache; they are written when there are enough of    *)
(* them, when the timer finds that nothing was added for FlushTime, or     *)
(* when the store is closed.  A flush empties the cache whether or not the *)
(* points arrive: the client reports failures on a channel nobody reads.   *)
(***************************************************************************)
EXTENDS Integers, FiniteSets

CONSTANTS BufferSize  \* BatchSize of the store, in rows

ASSUME BufferSizeAssumption == BufferSize \in Nat \ {0}

VARIABLES
  cache,       \* batchCache: the rows in it
  totalCount,  \* their number, rows added twice counted twice
  stale,       \* FlushTime has passed since LastUpdated
  timer,       \* "wait", "flush": what the timer's goroutine is about to do
  db,          \* the rows that are in the database
  lost         \* history: rows that left the cache and did not arrive

buffer == <<cache, totalCount, stale, timer>>

BufferInit ==
  /\ cache = {} /\ totalCount = 0 /\ stale = FALSE /\ timer = "wait"
  /\ db = {} /\ lost = {}

addToBatch(rows) ==
  /\ cache' = cache \cup rows
  /\ totalCount' = totalCount + Cardinality(rows)
  /\ stale' = FALSE

shouldFlushBatch == totalCount >= BufferSize \/ (stale /\ totalCount > 0)

clearBatchCache == cache' = {} /\ totalCount' = 0 /\ stale' = FALSE

\* Mutant: LastUpdated and the count are reset, the slices are kept.
FlushKeepsRows(arrives) ==
  /\ db' = IF arrives THEN db \cup cache ELSE db
  /\ lost' = IF arrives THEN lost ELSE lost \cup cache
  /\ cache' = cache /\ totalCount' = 0 /\ stale' = FALSE

\* arrives: the database took the points.
flushBatch(arrives) ==
  /\ db' = IF arrives THEN db \cup cache ELSE db
  /\ lost' = IF arrives THEN lost ELSE lost \cup cache
  /\ clearBatchCache

\* The timer reads count and time under the lock, and flushes under it later;
\* rows added in between go with the flush.
TimerReads ==
  /\ timer = "wait" /\ totalCount > 0 /\ stale
  /\ timer' = "flush"
  /\ UNCHANGED <<cache, totalCount, stale, db, lost>>

TimerFlushes(arrives) ==
  /\ timer = "flush"
  /\ flushBatch(arrives)
  /\ timer' = "wait"

\* FlushTime passes without a row being added.
TimePasses ==
  /\ totalCount > 0 /\ ~stale
  /\ stale' = TRUE
  /\ UNCHANGED <<cache, totalCount, timer, db, lost>>

\* Close flushes what is left; without it the rows go with the process.
Close(arrives) == flushBatch(arrives) /\ timer' = "wait"

GoneWithTheProcess ==
  /\ lost' = lost \cup cache
  /\ clearBatchCache /\ timer' = "wait"
  /\ UNCHANGED db

=============================================================================
