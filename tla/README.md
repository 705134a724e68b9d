# A TLA+ model of the chain parser service

The service scans blocks of four chains, extracts DEX activity (pools, swaps,
liquidity, reserves, tokens) and stores it in MySQL, PostgreSQL or InfluxDB,
keeping its position in Redis with a database behind it.  A second process
copies pools from subgraphs into the same stores.  This directory holds modules
checked with TLC on small instances, and theorems about them checked with
TLAPS.  `PROJECT.json` lists the runs, the source lines every definition stands
for, the mutants each property catches, the hazards and the theorems.

## The system

Paths are below `internal/` unless they start with `cmd/`.

| Component | State | Operations | Talks to |
|---|---|---|---|
| Parser engine (`parser/engine/engine.go`) | registered processors and extractors; per chain goroutine: the batch in progress | `Start`, `Stop`, `processChainBatch` on every tick | processors, extractors, store, progress tracker |
| Chain processors (`parser/chains/*`) | none to speak of (semaphores) | latest height, blocks by range | nodes |
| Fallback tracker (`storage/progress/fallback`) over a Redis and a DB tracker | cached health flag, update counter; the record in Redis, the row in the DB | `GetProgress`, `UpdateProgress`, health check every 30 s; reset and statistics calls nobody makes | Redis, relational DB |
| Uniswap extractor (`parser/dexs/eth/uniswap.go`) | `seenPools`, token cache | `ExtractDexData` (engine goroutine), `resolvePendingPool` (worker), warm-ups at start | pending queue, dexcache, node (multicall), store |
| Pending queue (`pendingqueue`) | messages by pool, attempts by pool, total | `Enqueue` (hot path), `Consume` (one worker goroutine) | handler of the Uniswap extractor |
| Other extractors (`parser/dexs/bsc`, `solanadex`, `suidex`) | caches | `ExtractDexData` | nodes (Sui) |
| dexcache (`dexcache`) | pools and tokens in Redis, warm-up marker | `CachePool`/`GetPool`, `CacheToken`/`GetToken`, `WarmPools`/`WarmTokens` | Redis |
| Relational stores (`storage/pgsql`, `storage/mysql`) | tables | `StoreBlocks`, `StoreTransactions`, `StoreDexData`, queries | DB |
| InfluxDB store (`storage/influxdb`) | batch cache with a flush timer; points | the same operations, buffered | InfluxDB |
| Graph sync (`thegraph`, `cmd/thegraph-sync`) | cursor per version (`storage/cursor`) | page, store, warm the cache, save the cursor; loop or once | subgraph, store, Redis |
| Parser process (`cmd/parser/main.go`) | - | configuration, start-up order, warm-ups, shutdown | everything |
| Memory tracker (`parser/engine/progress.go`) | progress and statistics under one lock | not constructed by anything | - |
| HTTP API (`api`, `cmd/api`) | none | reads | store |

### What is hard about it

* A batch is three stores and a save; it can die between any two of them, a
  failed save is only logged, and what was stored is stored again.
* The position lives in two stores.  Which one is asked depends on a cached
  flag that every chain's calls and the health check write after the fact.
* Swaps may be seen before their pool's tokens are known.  The hot path never
  asks the node; it queues the swap and a worker goroutine resolves the pool
  meanwhile.  Both write the same in-memory map, cache and tables, and both may
  need the metadata of the same token.
* The queue hands messages to a handler without holding its lock.
* Processors leave out what they cannot read and report no error.
* The same row may be made twice by one batch and again by the next attempt; the
  stores' conflict clauses decide what becomes of it.
* InfluxDB acknowledges what is only in a buffer, and the graph sync saves its
  cursor after that.

### What makes each part correct

* Engine: no hole below the saved position; no row without the row it refers
  to; nothing below the saved position processed again; every block with a
  successor ingested in the end.
* Tracker: over a reliable Redis it is one register per chain; in an outage of
  Redis no call fails while the DB answers, and a load returns at least what the
  DB took in that outage; the tracker finds its way back to Redis.
* Extractors and stores together: every event of the saved range has its rows,
  once, where they belong, however often a batch failed half-way.
* Queue: the capacity counter is the number of messages; what leaves the queue
  on success is exactly what was handled; no pool waits for ever.
* Uniswap extractor: knowledge of a pool is never lost; a swap's pool has a row;
  a swap has its `SwapRecord`s; a token is asked for once, for as long as memory keeps it,
  and has its row.
* Graph sync: pools are taken over in order, none skipped; a cursor never runs
  ahead of what the store took; everything arrives.

## The modules

| Module | Models |
|---|---|
| `FallbackTracker` | the tracker, one action per step of a call, the two halves of a health check, and the environment: Redis and the DB going away, Redis losing its data, the process crashing and restarting |
| `CheckpointRegister` | abstract: one durable register per chain |
| `CheckpointLoop` | the load - work - save loop as the tracker sees it, over `FallbackTracker`; refines `CheckpointRegister` |
| `Engine` | `processChainBatch` over `FallbackTracker`: every stage of a batch, every error return, crashes, the growing chain |
| `ChainProcessors` | what each chain's `GetBlocksByRange` makes of a range |
| `Lists` | the two operators on lists that rows and blocks need; in a module of their own because `Ingest` instantiates ten modules that use them, and each would bring all of `SequencesExt` into its proofs |
| `DexRows` | the rows an extractor makes, by unique key, and what it reads them from |
| `UniswapExtractor`, `PancakeSwapExtractor`, `FourMemeExtractor`, `PumpFunExtractor`, `PumpSwapExtractor` (with `SolanaEvents`), `CetusExtractor`, `BluefinExtractor` | which rows each extractor makes of which events |
| `SqlTables`, `MysqlStore`, `PgsqlStore` | tables as functions of their unique keys, a database transaction, the conflict clause of every statement |
| `Ingest` | one chain from node to tables: engine, processor, extractors and store composed |
| `PendingQueue` | `Memory`, one action per critical section |
| `PendingQueueLoop` | the queue between any producer and any handler; `SwapPipeline` refines it |
| `SwapPipeline` | hot path and worker of the Uniswap extractor over `PendingQueue`, with caches, pool table and the engine's stores |
| `TokenMeta` | a token's metadata in memory, Redis and tables, with both goroutines, the warm-ups and the graph sync |
| `InfluxBuffer` | the batch cache, its flushes, its timer, `Close` |
| `SubgraphCopy` | abstract: pools taken over page by page in order of creation |
| `GraphSync` | `cmd/thegraph-sync` over a relational store or `InfluxBuffer`; refines `SubgraphCopy` |
| `MC...` | constants for TLC |
| `...Proofs` | the theorems; `TrackerProofs` has the lemmas about the tracker that `CheckpointLoopProofs` uses |

How state and actions correspond to the code:

* **FallbackTracker.** A progress record is its `LastProcessedBlock`; 0 is "never
  processed", which is also what both trackers answer without a record.
  `call[c].pc` is where the goroutine is inside `GetProgress` or
  `UpdateProgress`.  `Get`/`UpdateProgress` read the flag, `GetPrimary`,
  `UpdatePrimary`, `UpdateSync`, `GetSecondary`, `UpdateSecondary` are the calls
  to the stores, `GetMark`/`UpdateMark` are `markPrimary`.  Between any two of
  them another chain, the health check or the environment may step.  A write
  that fails may have been applied (`WriteInDoubt`): the code cannot tell a
  refused write from a lost reply.  `updateCount` is kept modulo the interval,
  the only thing `count % syncInterval` tells apart.  `kept` of `CheckpointLoop` is a
  history variable: what the DB last took of a chain while Redis is down.
* **Engine.** `stage[c]` is the position in `processChainBatch`.  Heights stand
  for rows.  `StoreBlocks`, `StoreTransactions` and `StoreDexData` are one
  database transaction each, which may be committed although the caller gets an
  error.  `Faults` names what may go wrong: `"rpc"` (latest height or fetch
  fails), `"skip"` (the processor leaves blocks out of a range), `"extract"`,
  `"store"`, `"crash"`, and the three of the tracker's environment.
  `origin` is a history variable: the first height of the batch that made the
  chain's first record.  `Stop` cancels the context and the process exits
  without waiting, so it is a `Crash`.
* **Ingest.** The same batch with its data, for one chain and one store chosen at
  the start (`chain`, `store`).  `Fetch` is `GetBlocksByRange` of that chain,
  `Extract` all of its extractors and the merge of what they return;
  `StoreBlocks`, `StoreTransactions`, `StoreDexData` and `SaveProgress` write,
  and each has an action in which it fails, with or without having been applied.
  `NewBlock` and `PoolLearnt` are what happens meanwhile, `CrashAndRestart` what
  a supervisor does, the warm-up from the tables included.  `position` stands
  for the progress record, whose storage is the subject of `FallbackTracker`.
  `missed` and `gone` are history variables: the events that a processor or a
  Sui extractor could not read, of this batch and of the saved ones.  An event
  of the instance says in `gives` what rows it must have.  `Told` is what the code
  itself makes of a chain in one pass without failures, whole and in one batch,
  as pairs of a row's key and the event it was made of; the tables are compared
  with it (`NothingElseStored`, `SavedIsStored`), and it with `gives` (`PassGives`).
  Ethereum has no such measure: which rows Uniswap makes depends on which pools
  it happens to remember.
* **ChainProcessors.** `lost` is what the node does not answer, retries included.
  BSC cuts a block at `MaxTxPerBlock` and empties one that has a transaction of an
  unknown type; Solana leaves out skipped slots and failed transactions; Sui
  numbers blocks by a pointer to the loop variable, whose value when it is read
  is the number after the range.
* **DexRows and the extractors.** A row is its unique key as in the migrations,
  the event it was made of (`of`) and its block's number.  Each extractor says
  which blocks it supports, which events it takes by signature and size, which
  rows they give under which index, and, for Uniswap and Sui, what of a pool it
  remembers or asks for.
* **SqlTables, MysqlStore, PgsqlStore.** A database transaction is the tables as
  it sees them and whether one of its statements has failed.  MySQL has
  `ON DUPLICATE KEY UPDATE` and `INSERT IGNORE`; PostgreSQL has
  `ON CONFLICT DO UPDATE`, which refuses a statement of `ChunkSize` rows that has
  a key twice, and `DO NOTHING`, which does not.
* **PendingQueue.** `groups`, `attempts`, `total` are the fields of `Memory`;
  `todo` is the list of pools `processOnce` collected, `handed` the slice the
  handler has.  An absent map entry is an empty sequence or a 0.
* **SwapPipeline.** A pool is `"none"`, `"placeholder"` (no tokens) or `"full"`.
  The chain is a constant sequence of batches of events; `hot` is the engine
  goroutine inside `ExtractDexData` and the stores after it, `worker` the queue's
  goroutine inside `resolvePendingPool`.  A call that reads or writes shared
  state is one step, so the two interleave between the lookup of a pool and the
  `LoadOrStore` of `lazyPool`, and between remembering, caching and storing a
  resolved pool.  `store` is chosen among `Stores`: an upsert of a relational
  store replaces the tokens; in InfluxDB tokens are tags, so a placeholder and a
  full row coexist, and only there is a table of `SwapRecord`s.  `ImplementsQueue`
  says that the queue between the two is one of `PendingQueueLoop`.
* **TokenMeta.** `at[c]` is where each of the two goroutines is: in
  `fetchTokenMeta` with its recheck, Redis lookup, multicall and write back, or
  waiting for the other's call (`flight` is the `singleflight` group).  `got` is
  what a goroutine will store.  Metadata is a token's own or the default of 18
  decimals; an address has two spellings, which tables and memory tell apart and
  Redis does not.  `StartProcess` is the warm-up of memory, `WarmTokens` and
  `WarmPools` the asynchronous warm-up of Redis with its marker, `GraphStores`
  and `GraphCaches` the other process.  Memory and Redis keep an entry for 30 days
  (parser/dexs/cache.go:56, uniswap.go:58, 177, dexcache.go:34); `TokenExpires` takes
  a token's entries from either or both at any moment, however fresh, and
  `PoolExpires` and `MarkerExpires` a pool and the warm-up's marker from Redis.
  `seenPools` is a plain map and never expires.  `calls` and `warmed` (history) start
  anew for a token that expires from memory, because it may be asked for again
  then.  The first state has any rows an earlier process may have left, with
  Redis expired.
* **InfluxBuffer.** `cache` and `totalCount` are the batch cache, `stale` says that
  `FlushTime` has passed since the last add, `timer` is the flush goroutine
  between its check and its flush.  `db` has what arrived, `lost` (history) what
  left the cache and did not.
* **GraphSync.** `pc` is where `SyncOnce` is for the `version` at hand: read the
  cursor, query, store, check the buffer, warm the cache, save the cursor.
  `store` and `mode` (a loop, or once from cron) are chosen at the start.  An
  indexer may answer from fewer blocks than another has (`"lag"`).  `Stop` and the
  ends of `main` differ in whether the deferred `Close` runs.

Each mutant is an operator next to the definition it mutates, commented as such;
no specification refers to it.

## The runs

Twelve runs; bounds are in the `.cfg` files.

| Run | Shows | Bounds, and why they are enough |
|---|---|---|
| `tracker_register` | `TypeOK`, `ImplementsRegister` | two chains, 3 saves each, interval 2: syncs fall on either chain's calls, the counter wraps, crashes reset it in between.  Redis is reliable, the DB and the process are not |
| `tracker_outages` | `RedisOutageTolerated`, `ProgressKeptInOutage`, `ReturnsToPrimary` | two chains, so that one's call and mark straddle the other's; 2 saves each, so that a load falls between two saves of one outage.  Redis goes away and the process dies, any number of times; the DB does not fail |
| `engine_nogap` | `TypeOK`, `NoGap`, `RowOrder`, `NoGapInv` | one chain from block 2, ranges of 2, head from 3 to 7: three batches in sequence, a last block that has to wait; every failure but `"skip"` |
| `engine_catchup` | `NoGap`, `NoReprocessing`, `CatchesUp` | a chain without a start block, which is how `cmd/parser` always starts one; Redis reliable, crashes and failing calls |
| `ingest` | `TypeOK`, `EventsKept`, `LatestKept`, `NothingTwice`, `NothingElseStored`, `SavedIsStored`, `NumbersRight`, `PassGives`, `CatchesUp` | the four chains on MySQL, BSC and Solana also on PostgreSQL; three or four blocks each, ranges of two or three, so that a chain takes one batch or two; several events of a kind in a transaction, two protocols in a transaction, a pool traded in two blocks of one second, a skipped slot, a block over the cut, statements of 2 rows; two failures, so that a batch that is repeated can fail again |
| `queue` | `TypeOK`, `CapacityKept`, `HandedIsPrefix`, `AttemptsMatch`, `NeverStuck` | three pools share a capacity of 4, two messages, 3 attempts: a pool fills up while another is being handled |
| `pipeline` | `TypeOK`, `SwappedPoolHasRow`, `NeverForgets`, `ImplementsQueue`, `WaitingSwapsFlushed` | both kinds of store; two pools, one older than the scan and one created in it, four swaps in three batches, capacity 2, 2 attempts; two failures of the node, Redis, the store or the process |
| `token_meta` | `TypeOK`, `OneCallPerToken`, `KnownNotAskedAgain`, `TokensStored`, `AllSettled` | two pools of one pair, so that both goroutines need both tokens; one created while the other waits; one known to the subgraph; one failure of five kinds, or one expiry, at any place |
| `graph_sync` | `TypeOK`, `CursorCovered`, `ImplementsCopy`, `CopiedInTheEnd` | both stores, both modes, all eight failures, two of them; pages of 2, three pools of one second, so that a page ends among them; a buffer that holds one page and not two |
| `pipeline_unrecorded` | violated: `KnownSwapsRecorded` | no failure at all |
| `ingest_pg_refused` | violated: `CatchesUp` | no failure at all |
| `graph_cursor_ahead` | violated: `DurablyStored` | InfluxDB, a one-off sync, one failing query |

Deadlock is checked in every run.  `MaxFaults` bounds how many things go wrong in
a behaviour; the theorems hold for every value of it.  When a bound ends a run of the
tracker or the engine (`MaxBatch`, `MaxHead`) the health check still ticks, so
the absence of deadlock would not show much there; progress is what the liveness
properties are for.

The instance of `ingest` for Ethereum is on MySQL only, because on PostgreSQL it
stands still: that is `ingest_pg_refused`.  The chain of Sui is on MySQL only for
the same reason, its extractors making a reserve of a pool per event.

### What the violations say

* `pipeline_unrecorded`: `extractDexData` merges five of the six slices, so the
  `SwapRecord`s made on the hot path are gone before they reach a store.
* `ingest_pg_refused`: two `Sync` events or V3 swaps of a pool in one block are
  two reserves with one key in one `INSERT ... ON CONFLICT DO UPDATE`.
  PostgreSQL refuses it, the batch is given up, and the next tick makes the same
  batch; the chain never moves again.
* `graph_cursor_ahead`: `StoreDexData` of the InfluxDB store returns when the rows
  are in its buffer, and the cursor is saved after it.  A later query that fails
  ends a one-off process in `log.Fatalf`, which does not run the deferred `Close`.

### Fairness

* `CheckpointLoop`, `Engine`: weak fairness on the steps of a call (a goroutine
  runs, a call returns or times out), on the health check's two halves (a
  ticker) and on `Restart` (a supervisor).  `Engine` adds weak fairness on the
  ticker and strong fairness on the success of a fetch, an extraction and a
  store: the code retries for ever, and a retry that never succeeds is a
  different system's failure.  `CatchesUp` of `Engine` also assumes that crashes
  end.
* `Ingest`: weak fairness on what moves the batch, a failing step included: the
  ticker goes on, a step returns.  That a step succeeds in the end comes from
  `MaxFaults`, not from fairness; a store that refuses a batch for what is in it
  does so every time.
* `PendingQueueLoop`: the poll timer and the handler, which bounds each call by a
  timeout.  The producer and the outcome are not fair: `NeverStuck` holds against
  a handler that always fails.
* `SwapPipeline`, `TokenMeta`: both goroutines run and a dead process is started
  again.  `WaitingSwapsFlushed` only speaks of behaviours in which the handler
  does not fail and the process lives.  The asynchronous warm-up and the graph
  sync of `TokenMeta` are not fair: nothing depends on their ending.
* `GraphSync`: the sync goes on, its ticker and the buffer's timer tick, a process
  that ended is started again (by cron or by a supervisor).

## The theorems

All proofs are checked by TLAPS to the last leaf, for every value of the
constants that satisfies the named assumptions.

**Engine** (`EngineProofs`)

* `TypeCorrect`: `Spec => []TypeOK`.
* `RowOrderHolds`: `Spec => []RowOrder`, under every failure.  A batch's stage says
  which of its stores are done (`StoredSoFar` without the fetched range), and
  that is what makes the row order inductive.
* `CoverIsKept` and `NoGapHolds`: if no block is skipped and every chain has a
  start block, `Spec => []NoGapInv` and `Spec => []NoGap`.  `NoGap` alone is not
  inductive: a position may be on its way to or from a store, and a batch is only
  partly stored.  `NoGapInv` says, per chain, that a call in progress belongs to
  the stage the batch is in (`CallMatchesStage`), that the whole range was fetched
  and stored as far as the stage says (`Fetched`, `StoredSoFar`), that everything
  below the range is covered (`BelowBatchCovered`), that every position in a
  store, or read and not yet consumed, is covered (`RecordsCovered`), and that the
  first record was made by a batch at the start block (`OriginIsStart`).  Coverage
  counts from the start block, so a position that falls back (an outage, lost
  data, a restart) only causes work to be repeated.
* `NothingIsReprocessed`: if Redis neither fails nor loses its data (`Reliable`),
  `Spec => NoReprocessing`.  The invariant is `RedisIsAhead`: the health flag stays
  up, no probe says otherwise, a call that has read or written the primary agrees
  with it, and a range that has not been recorded begins behind Redis's record.
* `NoGapFromAnyStart`: if Redis is reliable and no block is skipped,
  `Spec => []NoGap`, now without a start block.  Then the head at the time of the
  first load decides where a chain begins, and a record that is lost would move it:
  hence the reliable Redis.  `AllCoveredFromOrigin` adds to `RedisIsAhead` that what
  either store has recorded is covered from the first batch's first height on.

**Tracker** (`CheckpointLoopProofs`, on the lemmas of `TrackerProofs`)

* `LoopTypeCorrect`: the type invariant.
* `RedisOutagesAreTolerated`: if the DB does not fail, no load or save fails,
  whatever Redis and the process do.  The invariant is `TolerantInv`: the DB is up
  and no call is where it has failed; every way there leads through a DB
  that refuses.
* `OutageProgressIsKept`: `ProgressKeptInOutage`, with nothing assumed of the
  failures, those of the DB included.  It is the outage that
  fallback_progress.go:96-97 speaks of.  The invariant (`OutageInv`) says that with
  Redis up `kept` is 0, and otherwise, per chain (`Keeps`), that the DB has at least
  `kept`, that no call holds an answer of Redis, and that a position the loop holds,
  or a call is about to write, is not below it: so the DB row of a chain cannot go
  back while Redis is down.
* `TrackerIsARegister`, if Redis neither fails nor loses its data: each step of
  tracker and loop is a step of `CheckpointRegister` or a stutter.  The invariant (`RegisterInv`) says that the health flag stays up and no
  probe says otherwise, and at each place of a call what the chain holds in terms
  of its record in Redis (`Holds`), which is the register.

**Queue** (`PendingQueueProofs`), for any pools, messages, capacity and number of
attempts

* `QueueTypeCorrect`, `QueueSafe`, `AttemptsAreBounded`: `TypeOK`, `HandedIsPrefix`
  and `AttemptsMatch`, which are inductive together.  The handler's slice stays a
  prefix because nothing but the end of its own call takes messages from a pool.
* `QueueKeepsCapacity`: `CapacityKept`.  A sum over the pools would need induction;
  the messages waiting are counted as the set of the places they take, which an
  append extends by one place and a flush cuts by as many as it flushes
  (`CountInv`).

**Pools** (`SwapPipelineProofs`)

* `KnowledgeIsKept`: `NeverForgets`, from the form of the steps: every write to
  `seen` is a `LoadOrStore` or a write of a full pool.
* `SwappedPoolsHaveRows`: if a message belongs to one pool, `SwappedPoolHasRow`
  for any chain of events and queue.  The invariant (`PipeInv`) is stated for
  behaviours in which no store has failed and no process has died (`Calm`): a pool
  in memory has a row, or is in the output of the hot path, or is about to be
  stored by the worker; and a stored swap's pool is in memory.
* `PipelineUsesTheQueue`: `ImplementsQueue`, each step of the pipeline is a step of
  `PendingQueueLoop` or leaves the queue alone.  It needs `HotInv`, that an event the
  hot path is at is an event of its batch: what is enqueued then has a pool and a
  message.
* `PipelineQueueIsSafe`: so the theorems about the queue, instantiated, hold of the
  pipeline's queue: `HandedIsPrefix`, `CapacityKept` and `AttemptsMatch`.
* `PipelineTypeCorrect`: `TypeOK`, the queue's part again from the queue's theorem.

**Tokens** (`TokenMetaProofs`)

* `AsksOncePerToken`: `OneCallPerToken`.  The invariant is `TokenInv`.  Its first part
  (`FlightInv`) says that a goroutine inside a call owns the token's entry in the
  group (`AtOK`) and that a token that was asked for is in memory, or its answer is
  on the way there and the entry not yet given back (`CalledOK`); no step of
  a goroutine takes a token out of memory, and an expiry, which does, starts its
  count anew (`ExpiryKeeps`).  The other two (`ScanInv`, `HandedInv`) keep the
  goroutines at tokens of a pool they have.
* `WarmTokensAreNotAsked`: `KnownNotAskedAgain`, from `TokenInv` and from the tokens
  of the warm-up being in memory (`WarmInv`) until they expire, when they leave
  `warmed`.
* `TokenTypeCorrect`: `TypeOK`.
* `TokensAreStored`: `TokensStored`.  The property speaks of moments at which neither
  goroutine is at work; the invariant (`StoredInv`) of all of them.  A token in
  memory has its row, or is in what a goroutine is going to store, or is one the
  worker has left to store (`Due`); a pool that is known has tokens that are due, or
  that the scan has yet to come to (`Coming`); and a goroutine that has gone
  through its tokens brings all of them (`ScanBringsAll`, `WorkerBringsAll`).  That
  is what lets the second goroutine leave a token to the first.  The rows of
  the subgraphs come with their tokens (`LowerInv`), whatever fails.

**Graph sync** (`GraphSyncProofs`)

* `CursorsAreCovered`: `CursorCovered`, for any subgraphs, page size and failures,
  both modes and both stores.
* `SyncIsACopy`: `ImplementsCopy` under the same assumptions.

  Both rest on `SyncInv`: what is at or below a cursor, or below the position of
  the sync at hand, has been taken (`Covered`), the page at hand is what was
  asked for after it (`PageAsked`), and a relational store leaves the buffer
  alone (`CacheOfInflux`).  A page is a finite set that is closed downwards in the
  order of the query and has at most `PageSize` members; it has a last pool
  (`LastExists`, by well-foundedness of the strict subset order on finite sets),
  so that what is not above the last one is in the page or was before it.
* `SyncTypeCorrect`: `TypeOK`.  The count of the buffer counts a row that was added
  twice twice; it is zero just when the buffer is empty because a page has a row
  and finitely many (`RowsFinite`).

**Ingest** (`IngestProofs`), for any content of the chains, either relational
store, any sizes and any failures

* `NumbersAreRight`: `NumbersRight`.  The property speaks of tables only and is not
  inductive.  The invariant (`IngestInv`, proved by `BatchesStayRight`) says the same
  of the batch on its way there: every block fetched comes from a block of the chain
  with that block's number, and so do its transactions (`FetchedFrom`); every
  swap's row has a transaction of the chain and its block's number (`DataOf`); and
  so has every row in the tables (`DbOf`).  The lemmas follow a row from the node
  to the table: each processor (`EthereumFrom`, `BscFrom`, `SolanaFrom`, `SuiFrom`),
  each extractor but Sui's (`PancakeOf`, `FourMemeOf`, `PumpFunOf`, `PumpSwapOf`,
  `UniswapOf`), each statement of either store (`MysqlKeeps`, `PgsqlKeeps`), and
  whatever of two rows with one key a statement keeps (`WritesFrom`).  What the
  loops and merges concatenate has only the members of its parts (`FlattenParts`;
  its induction is the choice of a least counterexample, `LeastNatural`).  The
  Uniswap extractor's memory may hold anything: it decides which rows there are,
  not which numbers they have.
* `IngestTypeCorrect`: `TypeOK`, from the same invariant, Sui included.

* `OnlyToldIsStored` and `SavedStaysStored`: `NothingElseStored` and `SavedIsStored`.
  On BSC, Solana and Sui, wherever ranges are cut, whichever answers, writes and
  saves fail, and however often a batch is run again, the tables hold nothing
  that one pass over the chain does not make, and all of it that the saved
  position covers and that was read.
  - The invariant is `StoredInv` (`RowsStayTold`).  Its parts follow a batch from
    stage to stage: what the batch has to store is in the blocks fetched
    (`DueIsFetched`), which are those of a range of the chain (`RangeIsFetched`);
    the rows at hand are told, and while they are being written all of the
    batch's are among them (`RowsAreTold`, `DueIsExtracted`); before progress is
    saved they are in the tables (`DueIsStored`); so that the tables have told
    rows alone and those of what is saved (`OnlyTold`, `SavedHasKeys`).  Neither
    property is inductive: a table says nothing of the batch whose rows it is
    about to take, and saving moves the position over events whose rows must be
    there already.
  - A row does not depend on where the range was cut: processors and extractors
    are followed once more, now from the event to its rows, for each protocol.
    An event is one event of one transaction of one block (`HashesAssumption`), and
    a row's key comes from the event and its place in the transaction, never from
    a counter over the range.
  - No two events make a transaction or a liquidity with one key (`ToldOnce`), so
    that `INSERT IGNORE` and `DO NOTHING` never drop one event's row for
    another's.  It needs `IndexAssumption`: the index of a log is its own, and on
    Sui the number of an event in its transaction.  Pools, tokens and reserves
    are shared by events, and which event a row of theirs is of may change.
* `NoneIsTwice`: `NothingTwice`, wherever `PassGives` holds.  A row in the tables is
  told, so an event has no more rows than the pass gives it.
* `SavedIsKept`: `EventsKept` for BSC, Solana and Sui, wherever `PassGives` holds.  It
  adds that what is read by any batch is read by the pass (`PassReadsAll`): BSC's
  cut and Solana's skipped slots and failed transactions leave out the same
  events whatever the range.

  `PassGives` compares the pass with `gives`, which is data of the instance, so it
  stays a hypothesis of these two; `ingest` checks it for every event of its chains.
  What the theorems add is everything that happens after that one pass.

  They assume of a chain that its blocks, transactions and events are lists,
  that a hash belongs to one block or one transaction and an id to one event, and
  that a log's index is its own (`BlockchainAssumption`, `HashesAssumption`,
  `IndexAssumption`).

The assumptions on constants (`SubgraphAssumption`, `IdsAssumption` and so on)
are in the modules that declare them and evaluated by TLC in every run.

Only model-checked: everything temporal (`ReturnsToPrimary`, `CatchesUp`,
`NeverStuck`, `WaitingSwapsFlushed`, `AllSettled`, `CopiedInTheEnd`), since
liveness under fairness is beyond the prover; and of `Ingest`

* `PassGives`, which computes rows from the events of an instance.  The instance
  has every kind of event of every extractor;
* `LatestKept`: which of several rows of a pool or a reserve comes last in a batch
  is the order of a concatenation of concatenations, and comparing it with the order
  of events is induction over data;
* `EventsKept` on Ethereum, where what a swap's row says depends on the pools
  remembered at that time.

## Disagreements without a run

Places where the code does otherwise than a document, a comment or a caller would
have it, and that no run above shows: a property that holds excludes the case, or
one line of code settles it.

Progress and engine

* Updates made during an outage of Redis go to the DB; when Redis returns, its
  older record is what loads return (fallback_progress.go:84, 97).  Batches are
  then processed again; the position is hidden until the next save.
  `ProgressKeptInOutage` speaks of the time until Redis is back, not of the return.
* A Redis without the key answers with a default record and no error, so the DB
  row is never read (fallback_progress.go:6, 81, 85).  Together with a missing
  start block the engine continues 100 blocks below the head.
* `updateCount` restarts at 0 with the process, so with crashes the DB lags by more
  than `syncInterval` batches (fallback_progress.go:8).
* A block that could not be fetched is below the saved position for good
  (ethereum/processor.go:136, docs/architecture.md:751).  `NoGap` is for processors
  that skip nothing, `EventsKept` for events that were read.
* A window of slots that Solana skipped for good returns no blocks; the engine ends
  the batch without moving and asks for the same window for ever
  (solana/processor.go:107, engine.go:282-284).  No instance has such a window:
  `CatchesUp` of `Ingest` is for chains in which every window has a block.
* `buildEngineConfig` does not copy `StartBlock` (main.go:167,
  configs/ethereum.yaml:13).

Rows

* A block, its transactions and their rows on Sui carry the number after the
  range, because the number is a pointer to a loop variable
  (sui/processor.go:118, 141-182; docs/database-design.md:162, 196, 321).
  `NumbersRight` leaves Sui out.
* A Uniswap swap that was stored before its pool was known, and again when a batch
  was repeated, may be there under two sides.  `NothingTwice` leaves Ethereum out.
* The worker may store a resolved pool before the hot path stores its batch with
  the placeholder; in a relational store the placeholder's empty tokens win
  (pgsql/store.go:340, uniswap.go:1086).
* `lazyPool` remembers a placeholder that a refused batch never stored
  (uniswap.go:1088).  `SwappedPoolHasRow` excuses that, and a process that dies
  between remembering a pool and storing it.

Tokens

* A token that could not be read is stored and cached with 18 decimals and not
  asked for again, contrary to the comment at uniswap.go:568-573.
* A token whose batch failed is remembered, and not stored when the batch is tried
  again (uniswap.go:257, 270, docs/cache-architecture.md:24).  `TokensStored`
  excuses it.
* The graph sync stores addresses in lower case (thegraph/mapping.go:24-97), the
  parser with a checksum (uniswap.go:1449-1451): two rows in PostgreSQL, and
  memory never hits the other spelling.  `TokensStored` is stated per spelling.
* The asynchronous warm-up writes what the tables had at start-up over newer
  entries in Redis (main.go:401).

Graph sync and InfluxDB

* Without a cursor the first page starts one second too early
  (thegraph/uniswap.go:44-47, sync.go:232).  `Copy` is instantiated with
  `Since - 1` for it.
* The points of `SwapRecord`s get `time.Unix` of nanoseconds (influxdb/simple.go:893),
  `event_index` is a field and does not tell points apart, a flush that fails
  reports nothing, and the parser's shutdown does not close the store.

## Not modelled

* The in-memory tracker: nothing constructs it.  The tracker calls without a
  caller (reset, statistics, error history, clean-up), `GetTransaction` and the
  like.
* The HTTP API and the queries it makes: they read and keep no state.
* The extractor factory (built once and only read), configuration files, logging,
  data types.
* Decoding of bytes, amounts, prices and decimals: data no property here tells
  apart.  Sides and indices matter where they are part of a key, and only there.
* Some failures, each because the model has another like it or no property turns on
  it.  In `Ingest` a range loses at most one answer of the node, where the timeout
  of a fetch (engine.go:261) can lose the whole end of a range; and the position
  does not fall back as the tracker's can, which `Engine` has.  In `SwapPipeline`
  saving the progress and the hot path's lookup in Redis do not fail.
  `PumpFunExtractor` has a creation parsed or not, without the second way to fail
  (solanadex/pumpfun.go:252-255).
* The event types of Cetus are matched as whole names, where the code looks for
  substrings.  Timestamps of Solana and Sui that fall back to `time.Now()`
  (solana/processor.go:214, 447, sui/processor.go:147, 315) are left out: a reserve
  that has such a time in its key is another row when its batch is repeated, which
  `NothingElseStored` does not see.
* A token that expires from memory in `Ingest`: there it is only stored once more,
  with the same key; whom it is asked of is the subject of `TokenMeta`.
* Synthetic timestamps of InfluxDB points: what identifies a point is modelled for
  pools and `SwapRecord`s.
* Reorganisations: the code does not handle them and no document promises it.
* Waiting swaps die with the process, and what arrives during a pool's last failed
  attempt is dropped with the pool; both are in the models as they are, and no
  document promises otherwise.
* New blocks, nodes, outages and lost data are the environment; their actions are
  marked external.
