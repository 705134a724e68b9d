----------------------------- MODULE SwapPipeline -----------------------------
(***************************************************************************)
(* How a Uniswap pool becomes known and what that does to its rows: the    *)
(* engine's goroutine parses swaps and creation events batch by batch (the *)
(* hot path of UniswapExtractor), the pending queue's worker resolves the  *)
(* pools of swaps that arrived too early, and both write the same caches   *)
(* and the same dex_pools table.                                           *)
(*                                                                         *)
(* What is kept of a pool is whether its two token addresses are known; of *)
(* a swap, which pool it is of.  Of the two kinds of store, the relational *)
(* ones replace a pool's tokens by those of its latest upsert and have no  *)
(* table of SwapRecords; in InfluxDB the tokens are part of a point's      *)
(* identity, so a placeholder and a full row are kept side by side.        *)
(***************************************************************************)
EXTENDS PendingQueue

CONSTANTS
  Batches,  \* Seq(Seq(event)): the Uniswap logs of the chain, batch by batch
  Stores,   \* the stores it may run with: "relational", "influx"
  Faults,   \* "rpc", "store", "redis", "crash"
  MaxFaults \* bound: how many things go wrong in a behaviour

\* An event is a swap, or the creation of a pool.
Event == [kind : {"swap", "created"}, pool : Pool, msg : Msg]
\* A batch without such a log changes nothing here and is left out.
ASSUME BatchesAssumption ==
  Batches \in Seq(Seq(Event)) /\ \A b \in DOMAIN Batches : Batches[b] # <<>>
ASSUME StoresAssumption == Stores \subseteq {"relational", "influx"}
ASSUME MaxFaultsAssumption == MaxFaults \in Nat

VARIABLES
  store,    \* PostgreSQL or MySQL, or InfluxDB: chosen by the configuration
  up,       \* the process is running
  seen,     \* [Pool -> knowledge] the extractor's seenPools
  cached,   \* pools whose tokens are in the Redis cache
  row,      \* [Pool -> knowledge] the rows of dex_pools
  txRows,   \* swaps with a row in dex_transactions
  swapRows, \* swaps with their SwapRecords
  done,     \* number of batches the saved progress covers
  hot,      \* where the hot path is: its step and the event it works on
  out,      \* the DexData of the batch: its pools and its swaps
  worker,   \* where the handler of the pending queue is
  known,    \* history: swaps parsed when their pool's tokens were known
  wrong,    \* history: the kinds of things that have gone wrong
  faults    \* and how many did

memory    == <<seen, hot, out, worker>>
storage   == <<row, txRows, swapRows, done>>
setting   == <<store, wrong, faults>>
vars      == <<queueVars, up, cached, memory, storage, known, setting>>

Relational == store = "relational"
GoesWrong(kind) ==
  /\ kind \in Faults /\ faults < MaxFaults
  /\ faults' = faults + 1 /\ wrong' = wrong \cup {kind} /\ UNCHANGED store

\* "none": never heard of.  "placeholder": no token addresses.  "full": both.
Knowledge == {"none", "placeholder", "full"}
AllUnknown == [p \in Pool |-> "none"]
NoOutput   == [pools |-> AllUnknown, swaps |-> {}]
AtRest     == [pc |-> "idle", event |-> 1]

batch == Batches[done + 1]
event == batch[hot.event]

HotAt(pc)    == up /\ hot.pc = pc
GoHot(pc)    == hot' = [hot EXCEPT !.pc = pc]
WorkerAt(pc) == worker = pc

First(e) == IF e.kind = "swap" THEN "lookup" ELSE "created"

\* The event is dealt with: on to the next one, or to the stores.
EventDone ==
  hot' = IF hot.event = Len(batch) THEN [hot EXCEPT !.pc = "store"]
         ELSE [pc |-> First(batch[hot.event + 1]), event |-> hot.event + 1]

-----------------------------------------------------------------------------
(* The hot path: ExtractDexData, then the engine's stores and its progress. *)

StartBatch ==
  /\ HotAt("idle") /\ done < Len(Batches)
  /\ hot' = [pc |-> First(batch[1]), event |-> 1]
  /\ out' = NoOutput
  /\ UNCHANGED <<queueVars, up, seen, cached, worker, storage, known, setting>>

\* resolvePoolTokens: the memory, then Redis; never a call to the chain.
TokensKnown(p) == seen[p] = "full" \/ p \in cached

Lookup ==
  /\ HotAt("lookup")
  /\ IF TokensKnown(event.pool)
     THEN /\ seen' = [seen EXCEPT ![event.pool] = "full"]
          /\ known' = known \cup {event.msg}
          /\ GoHot("lazy")
     ELSE GoHot("enqueue") /\ UNCHANGED <<seen, known>>
  /\ out' = [out EXCEPT !.swaps = @ \cup {event.msg}]
  /\ UNCHANGED <<queueVars, up, cached, worker, storage, setting>>

\* Mutant: a full queue makes room by dropping the pool's oldest message.
EnqueueSwapEvicts ==
  /\ HotAt("enqueue")
  /\ \/ Enqueue(event.pool, event.msg)
     \/ /\ QueueFull /\ groups[event.pool] # <<>>
        /\ groups' = [groups EXCEPT ![event.pool] = Append(Tail(@), event.msg)]
        /\ UNCHANGED <<attempts, total, todo, handed>>
  /\ GoHot("lazy")
  /\ UNCHANGED <<up, seen, cached, out, worker, storage, known, setting>>

\* A full queue is only logged.
EnqueueSwap ==
  /\ HotAt("enqueue")
  /\ Enqueue(event.pool, event.msg) \/ (QueueFull /\ UNCHANGED queueVars)
  /\ GoHot("lazy")
  /\ UNCHANGED <<up, seen, cached, out, worker, storage, known, setting>>

\* Mutant: a Store where the code has a LoadOrStore.
LazyPoolStores ==
  /\ HotAt("lazy")
  /\ seen' = [seen EXCEPT ![event.pool] = "placeholder"]
  /\ out' = [out EXCEPT !.pools[event.pool] = "placeholder"]
  /\ EventDone
  /\ UNCHANGED <<queueVars, up, cached, worker, storage, known, setting>>

\* lazyPool, one LoadOrStore: the first to hear of a pool leaves a placeholder.
LazyPool ==
  /\ HotAt("lazy")
  /\ IF seen[event.pool] = "none"
     THEN /\ seen' = [seen EXCEPT ![event.pool] = "placeholder"]
          /\ out' = [out EXCEPT !.pools[event.pool] = "placeholder"]
     ELSE UNCHANGED <<seen, out>>
  /\ EventDone
  /\ UNCHANGED <<queueVars, up, cached, worker, storage, known, setting>>

\* parseV2PairCreated, parseV3PoolCreated: the event has the tokens.
PoolCreated ==
  /\ HotAt("created")
  /\ seen' = [seen EXCEPT ![event.pool] = "full"]
  /\ out' = [out EXCEPT !.pools[event.pool] = "full"]
  /\ EventDone
  /\ UNCHANGED <<queueVars, up, cached, worker, storage, known, setting>>

\* The row a pool has after an upsert.
Upserted(old, new) ==
  IF new = "none" \/ (~Relational /\ old = "full") THEN old ELSE new

StoreOutput ==
  /\ row' = [p \in Pool |-> Upserted(row[p], out.pools[p])]
  /\ txRows' = txRows \cup out.swaps

\* extractDexData merges pools and transactions of every extractor, not their
\* SwapRecords; StoreDexData is one transaction.
StoreBatch ==
  /\ HotAt("store")
  /\ StoreOutput
  /\ GoHot("commit")
  /\ UNCHANGED <<queueVars, up, seen, cached, out, worker, swapRows, done, known, setting>>

\* The batch is given up, and may have been stored all the same; the next tick
\* starts it again.  (InfluxDB's writer takes everything.)
StoreBatchFails ==
  /\ HotAt("store") /\ Relational /\ GoesWrong("store")
  /\ StoreOutput \/ UNCHANGED <<row, txRows>>
  /\ hot' = AtRest /\ out' = NoOutput
  /\ UNCHANGED <<queueVars, up, seen, cached, worker, swapRows, done, known>>

Commit ==
  /\ HotAt("commit")
  /\ done' = done + 1
  /\ hot' = AtRest /\ out' = NoOutput
  /\ UNCHANGED <<queueVars, up, seen, cached, worker, row, txRows, swapRows, known, setting>>

HotPath ==
  \/ StartBatch \/ Lookup \/ EnqueueSwap \/ LazyPool \/ PoolCreated
  \/ StoreBatch \/ StoreBatchFails \/ Commit

-----------------------------------------------------------------------------
(* The worker: Memory.Consume with resolvePendingPool as its handler.      *)

WorkerPolls ==
  /\ up /\ WorkerAt("idle")
  /\ Poll
  /\ UNCHANGED <<up, cached, memory, storage, known, setting>>

WorkerTakes(p) ==
  /\ up /\ WorkerAt("idle")
  /\ Hand(p)
  /\ worker' = IF groups[p] = <<>> THEN "idle" ELSE "resolve"
  /\ UNCHANGED <<up, seen, cached, hot, out, storage, known, setting>>

\* Mutant: the pool is remembered before the answer is looked at.
ResolveRemembersFailure ==
  /\ WorkerAt("resolve")
  /\ seen' = [seen EXCEPT ![handed.pool] = "full"]
  /\ \/ worker' = "cache" /\ UNCHANGED setting
     \/ worker' = "failed" /\ GoesWrong("rpc")
  /\ UNCHANGED <<queueVars, up, cached, hot, out, storage, known>>

\* One multicall for token0 and token1.
Resolve ==
  /\ WorkerAt("resolve")
  /\ \/ /\ seen' = [seen EXCEPT ![handed.pool] = "full"]
        /\ worker' = "cache" /\ UNCHANGED setting
     \/ GoesWrong("rpc") /\ worker' = "failed" /\ UNCHANGED seen
  /\ UNCHANGED <<queueVars, up, cached, hot, out, storage, known>>

\* CachePool only logs an error.
CachePool ==
  /\ WorkerAt("cache")
  /\ worker' = "store"
  /\ \/ cached' = cached \cup {handed.pool} /\ UNCHANGED setting
     \/ GoesWrong("redis") /\ UNCHANGED cached
  /\ UNCHANGED <<queueVars, up, seen, hot, out, storage, known>>

\* The pool with its tokens and the SwapRecords of everything handed over.
StoreResolved ==
  /\ WorkerAt("store")
  /\ \/ /\ row' = [row EXCEPT ![handed.pool] = "full"]
        /\ swapRows' = IF Relational THEN swapRows
                       ELSE swapRows \cup {handed.msgs[i] : i \in DOMAIN handed.msgs}
        /\ worker' = "stored" /\ UNCHANGED setting
     \/ /\ Relational /\ GoesWrong("store")
        /\ worker' = "failed" /\ UNCHANGED <<row, swapRows>>
  /\ UNCHANGED <<queueVars, up, seen, cached, hot, out, txRows, done, known>>

WorkerSettles ==
  /\ \/ WorkerAt("stored") /\ Succeed
     \/ WorkerAt("failed") /\ \E expired \in BOOLEAN : Fail(expired)
  /\ worker' = "idle"
  /\ UNCHANGED <<up, seen, cached, hot, out, storage, known, setting>>

Worker ==
  \/ WorkerPolls \/ \E p \in Pool : WorkerTakes(p)
  \/ Resolve \/ CachePool \/ StoreResolved \/ WorkerSettles

-----------------------------------------------------------------------------
Crash ==
  /\ up /\ GoesWrong("crash") /\ up' = FALSE
  /\ LoseQueue
  /\ seen' = AllUnknown
  /\ hot' = AtRest /\ out' = NoOutput
  /\ worker' = "idle"
  /\ UNCHANGED <<cached, storage, known>>

\* WarmupPoolTokens: the rows that have their tokens.
Restart ==
  /\ ~up /\ up' = TRUE
  /\ seen' = [p \in Pool |-> IF row[p] = "full" THEN "full" ELSE "none"]
  /\ UNCHANGED <<queueVars, cached, hot, out, worker, storage, known, setting>>

Next == HotPath \/ Worker \/ Crash \/ Restart

Init ==
  /\ QueueInit
  /\ up = TRUE
  /\ seen = AllUnknown
  /\ cached = {}
  /\ row = AllUnknown
  /\ txRows = {} /\ swapRows = {}
  /\ done = 0
  /\ hot = AtRest /\ out = NoOutput
  /\ worker = "idle"
  /\ known = {} /\ wrong = {} /\ faults = 0 /\ store \in Stores

Spec == Init /\ [][Next]_vars

\* Both goroutines keep running and a dead process is restarted.
Fairness == WF_vars(HotPath) /\ WF_vars(Worker) /\ WF_vars(Restart)

FairSpec == Spec /\ Fairness

-----------------------------------------------------------------------------
TypeOK ==
  /\ QueueTypeOK
  /\ seen \in [Pool -> Knowledge] /\ row \in [Pool -> Knowledge]
  /\ cached \in SUBSET Pool
  /\ txRows \in SUBSET Msg /\ swapRows \in SUBSET Msg
  /\ done \in 0 .. Len(Batches)
  /\ hot.pc \in {"idle", "lookup", "enqueue", "lazy", "created", "store", "commit"}
  /\ worker \in {"idle", "resolve", "cache", "store", "stored", "failed"}
  /\ up \in BOOLEAN /\ store \in Stores /\ wrong \in SUBSET Faults /\ faults \in 0..MaxFaults

Quiet == up /\ hot = AtRest /\ worker = "idle"

PoolOf(m) == CHOOSE p \in Pool :
  \E b \in DOMAIN Batches : \E i \in DOMAIN Batches[b] :
    Batches[b][i] = [kind |-> "swap", pool |-> p, msg |-> m]

\* uniswap.go:1083-1086, lazyPool's placeholder says that the pool exists and
\* is emitted once: whenever nothing is in flight, a pool with a stored swap has
\* a row, if no batch was refused by the store and no process died.
SwappedPoolHasRow ==
  Quiet /\ wrong \subseteq {"rpc", "redis"} => \A m \in txRows : row[PoolOf(m)] # "none"

\* Two goroutines race to tell the extractor about a pool; what it knows is
\* never forgotten while the process lives.
NeverForgets ==
  [][up /\ up' => \A p \in Pool : seen[p] = "full" => seen'[p] = "full"]_vars

\* swap_record.go:28-29, "Every swap event produces exactly two SwapRecords": a
\* swap of a pool whose tokens were known has them once its batch is done.
KnownSwapsRecorded == Quiet /\ ~Relational => (txRows \cap known) \subseteq swapRows

\* queue.go:66-69, "batched with every currently-queued message": a swap that
\* had to wait gets its SwapRecords if resolution works, one that arrives while
\* its pool is being resolved included.
WaitingSwapsFlushed ==
  (~Relational /\ [](up /\ worker # "failed")) =>
    \A p \in Pool, m \in Msg :
      (\E i \in DOMAIN groups[p] : groups[p][i] = m) ~> (m \in swapRows)

Queue == INSTANCE PendingQueueLoop

\* memory.go: the hot path is one producer among those the queue allows, and
\* resolvePendingPool one handler: whatever the pipeline does, deaths of the
\* process included, its queue goes through a behaviour of PendingQueueLoop, so
\* that what holds there of the capacity, the order and the attempts holds here.
ImplementsQueue == Queue!Spec
=============================================================================
