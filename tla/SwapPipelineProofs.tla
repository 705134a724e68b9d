-------------------------- MODULE SwapPipelineProofs --------------------------
(***************************************************************************)
(* Theorems about what the hot path and the pending queue's worker make of *)
(* a pool between them, for every set of pools and swaps, every sequence   *)
(* of logs, either kind of store and any number of faults; that they use   *)
(* the queue as PendingQueueLoop says; and the pipeline's types.           *)
(***************************************************************************)
EXTENDS SwapPipeline, TLAPS

\* What the extractor knows of a pool stays known while the process lives,
\* whichever of its goroutines comes upon the pool next.
THEOREM KnowledgeIsKept == Spec => NeverForgets
<1> DEFINE Keeps == up /\ up' => \A p \in Pool : seen[p] = "full" => seen'[p] = "full"
           Defined == DOMAIN seen = Pool
<1>1. Init => Defined
  BY DEF Init, AllUnknown
<1>2. Defined /\ [Next]_vars => Defined' /\ [Keeps]_vars
  <2> SUFFICES ASSUME Defined, [Next]_vars PROVE Defined' /\ Keeps
    OBVIOUS
  <2>1. CASE HotPath
    <3>1. CASE Lookup
      BY <3>1 DEF Lookup
    <3>2. CASE LazyPool
      BY <3>2 DEF LazyPool
    <3>3. CASE PoolCreated
      BY <3>3 DEF PoolCreated
    <3>4. CASE UNCHANGED seen
      BY <3>4
    <3> QED
      BY <2>1, <3>1, <3>2, <3>3, <3>4 DEF HotPath, StartBatch, EnqueueSwap, StoreBatch,
         StoreBatchFails, Commit
  <2>2. CASE Worker
    <3>1. CASE Resolve
      BY <3>1 DEF Resolve
    <3>2. CASE UNCHANGED seen
      BY <3>2
    <3> QED
      BY <2>2, <3>1, <3>2 DEF Worker, WorkerPolls, WorkerTakes, CachePool, StoreResolved,
         WorkerSettles, memory
  <2>3. CASE Crash
    BY <2>3 DEF Crash, AllUnknown
  <2>4. CASE Restart
    BY <2>4 DEF Restart
  <2>5. CASE UNCHANGED vars
    BY <2>5 DEF vars, memory
  <2> QED
    BY <2>1, <2>2, <2>3, <2>4, <2>5 DEF Next
<1> QED
  BY <1>1, <1>2, PTL DEF Spec, NeverForgets

-----------------------------------------------------------------------------
(* The goroutines' places.                                                 *)

AtEvent == {"lookup", "enqueue", "lazy", "created"}

\* Unless it is idle the hot path has a batch; at an event, it is within that
\* batch, and a swap is looked up.
HotInv ==
  /\ done \in Nat
  /\ hot \in [pc : AtEvent \cup {"idle", "store", "commit"}, event : Nat]
  /\ hot.pc # "idle" => done < Len(Batches)
  /\ hot.pc \in AtEvent =>
       /\ hot.event \in 1..Len(batch)
       /\ hot.pc # "created" => event.kind = "swap"

\* A worker that is at a pool has one.
HandInv == worker # "idle" => handed.pool \in Pool

LEMMA EventOfBatch ==
  ASSUME NEW i, done \in Nat, done < Len(Batches), i \in 1..Len(batch)
  PROVE  batch[i] \in Event
<1>1. batch \in Seq(Event)
  <2> HIDE DEF Event
  <2>1. done + 1 \in DOMAIN Batches
    BY BatchesAssumption
  <2> QED
    BY <2>1, BatchesAssumption DEF batch
<1> HIDE DEF Event
<1> QED
  BY <1>1

LEMMA FirstOf ==
  ASSUME NEW e \in Event
  PROVE  First(e) \in {"lookup", "created"} /\ (First(e) = "lookup" => e.kind = "swap")
BY DEF First

LEMMA EventDoneGoes ==
  ASSUME HotInv, hot.pc \in AtEvent, EventDone, done' = done
  PROVE  HotInv' /\ hot'.pc \in {"lookup", "created", "store"}
<1>1. done \in Nat /\ done < Len(Batches) /\ hot.event \in 1..Len(batch) /\ batch' = batch
  BY DEF HotInv, batch, AtEvent
<1>2. CASE hot.event = Len(batch)
  <2>1. hot' = [hot EXCEPT !.pc = "store"] /\ hot.pc # "idle"
    BY <1>2 DEF EventDone, AtEvent
  <2> QED
    BY <1>1, <2>1 DEF HotInv, AtEvent
<1>3. CASE hot.event # Len(batch)
  <2>1. Len(batch) \in Nat
    <3> HIDE DEF Event
    <3>1. done + 1 \in DOMAIN Batches
      BY <1>1, BatchesAssumption
    <3> QED
      BY <3>1, BatchesAssumption DEF batch
  <2>2. hot.event + 1 \in 1..Len(batch)
    BY <1>1, <1>3, <2>1
  <2>3. hot' = [pc |-> First(batch[hot.event + 1]), event |-> hot.event + 1]
    BY <1>3 DEF EventDone
  <2>4. /\ First(batch[hot.event + 1]) \in {"lookup", "created"}
        /\ First(batch[hot.event + 1]) = "lookup" => batch[hot.event + 1].kind = "swap"
    BY <1>1, <2>2, EventOfBatch, FirstOf
  <2> QED
    BY <1>1, <2>2, <2>3, <2>4 DEF HotInv, AtEvent, event
<1> QED
  BY <1>2, <1>3

LEMMA HotKeeps == HotInv /\ [Next]_vars => HotInv'
<1> SUFFICES ASSUME HotInv, [Next]_vars PROVE HotInv'
  OBVIOUS
<1>1. CASE StartBatch
  <2>1. done \in Nat /\ done < Len(Batches) /\ done' = done /\ batch' = batch
        /\ hot' = [pc |-> First(batch[1]), event |-> 1]
    BY <1>1 DEF HotInv, StartBatch, batch, storage
  <2>2. 1 \in 1..Len(batch)
    <3> HIDE DEF Event
    <3>1. done + 1 \in DOMAIN Batches
      BY <2>1, BatchesAssumption
    <3>2. batch \in Seq(Event) /\ batch # <<>>
      BY <3>1, BatchesAssumption DEF batch
    <3> QED
      BY <3>2
  <2>3. First(batch[1]) \in {"lookup", "created"} /\ (First(batch[1]) = "lookup" => batch[1].kind = "swap")
    BY <2>1, <2>2, EventOfBatch, FirstOf
  <2> QED
    BY <2>1, <2>2, <2>3 DEF HotInv, AtEvent, event
<1>2. CASE Lookup \/ EnqueueSwap
  <2>1. /\ hot.pc \in {"lookup", "enqueue"} /\ done' = done
        /\ GoHot("lazy") \/ GoHot("enqueue")
    BY <1>2 DEF Lookup, EnqueueSwap, HotAt, storage
  <2> QED
    BY <2>1 DEF HotInv, GoHot, AtEvent, batch, event
<1>3. CASE LazyPool \/ PoolCreated
  <2>1. hot.pc \in AtEvent /\ EventDone /\ done' = done
    BY <1>3 DEF LazyPool, PoolCreated, HotAt, storage, AtEvent
  <2> QED
    BY <2>1, EventDoneGoes
<1>4. CASE StoreBatch \/ StoreBatchFails \/ Commit
  <2>1. /\ done' \in {done, done + 1} /\ hot.pc # "idle"
        /\ (GoHot("commit") /\ done' = done) \/ hot' = AtRest
    BY <1>4 DEF StoreBatch, StoreBatchFails, Commit, HotAt
  <2> QED
    BY <2>1 DEF HotInv, GoHot, AtRest, AtEvent
<1>5. CASE Worker \/ Restart \/ UNCHANGED vars
  <2>1. hot' = hot /\ done' = done
    BY <1>5 DEF Worker, WorkerPolls, WorkerTakes, Resolve, CachePool, StoreResolved, WorkerSettles,
       Restart, vars, memory, storage
  <2> QED
    BY <2>1 DEF HotInv, batch, event
<1>6. CASE Crash
  BY <1>6 DEF Crash, HotInv, AtRest, AtEvent, storage
<1> QED
  BY <1>1, <1>2, <1>3, <1>4, <1>5, <1>6 DEF Next, HotPath

LEMMA HandKeeps == HandInv /\ [Next]_vars => HandInv'
<1> SUFFICES ASSUME HandInv, [Next]_vars PROVE HandInv'
  OBVIOUS
<1>1. CASE HotPath
  <2>1. worker' = worker /\ handed' = handed
    BY <1>1 DEF HotPath, StartBatch, Lookup, EnqueueSwap, Enqueue, LazyPool, PoolCreated, StoreBatch,
       StoreBatchFails, Commit, queueVars
  <2> QED
    BY <2>1 DEF HandInv
<1>2. CASE WorkerPolls \/ WorkerSettles \/ Crash
  BY <1>2 DEF WorkerPolls, WorkerAt, WorkerSettles, Crash, memory, HandInv
<1>3. ASSUME NEW p \in Pool, WorkerTakes(p) PROVE HandInv'
  BY <1>3 DEF WorkerTakes, Hand, HandInv
<1>4. CASE Resolve \/ CachePool \/ StoreResolved
  <2>1. worker # "idle" /\ handed' = handed
    BY <1>4 DEF Resolve, CachePool, StoreResolved, WorkerAt, queueVars
  <2> QED
    BY <2>1 DEF HandInv
<1>5. CASE Restart \/ UNCHANGED vars
  BY <1>5 DEF Restart, vars, memory, queueVars, HandInv
<1> QED
  BY <1>1, <1>2, <1>3, <1>4, <1>5 DEF Next, Worker

-----------------------------------------------------------------------------
(* Every pool that was heard of gets a row, while no process dies and no   *)
(* store refuses: it has one, or its batch or the worker is about to store *)
(* one, and whoever finds it known need not.                               *)

\* A message is a swap of one pool.
OnePoolPerSwap ==
  \A b, c \in DOMAIN Batches : \A i \in DOMAIN Batches[b], j \in DOMAIN Batches[c] :
    LET e == Batches[b][i]
        f == Batches[c][j]
    IN e.kind = "swap" /\ f.kind = "swap" /\ e.msg = f.msg => e.pool = f.pool

Calm == wrong \subseteq {"rpc", "redis"}

InOutput(p) == hot.pc \in AtEvent \cup {"store"} /\ out.pools[p] # "none"
InHand(p)   == worker \in {"cache", "store"} /\ handed.pool = p
AtSwapOf(p) == hot.pc \in {"enqueue", "lazy"} /\ event.pool = p

PoolsTyped ==
  /\ DOMAIN seen = Pool /\ DOMAIN row = Pool
  /\ DOMAIN out = {"pools", "swaps"} /\ out.pools \in [Pool -> Knowledge]

\* What is known has or gets a row, what is cached is known, and a swap's pool
\* is known by the time the swap is dealt with.
CalmInv ==
  /\ up
  /\ \A p \in Pool : seen[p] # "none" => row[p] # "none" \/ InOutput(p) \/ InHand(p)
  /\ \A p \in Pool : p \in cached \/ InHand(p) => seen[p] # "none"
  /\ \A m \in txRows : PoolOf(m) \in Pool /\ seen[PoolOf(m)] # "none"
  /\ \A m \in out.swaps : PoolOf(m) \in Pool /\ (seen[PoolOf(m)] # "none" \/ AtSwapOf(PoolOf(m)))

PipeInv == HotInv /\ HandInv /\ PoolsTyped /\ (Calm => CalmInv)

LEMMA PoolsStayTyped == PoolsTyped /\ [Next]_vars => PoolsTyped'
<1> SUFFICES ASSUME PoolsTyped, [Next]_vars PROVE PoolsTyped'
  OBVIOUS
<1>1. ASSUME out' = NoOutput PROVE DOMAIN out' = {"pools", "swaps"} /\ out'.pools \in [Pool -> Knowledge]
  BY <1>1 DEF NoOutput, AllUnknown, Knowledge
<1>2. CASE StartBatch
  BY <1>1, <1>2 DEF StartBatch, PoolsTyped, storage
<1>3. CASE Lookup
  BY <1>3 DEF Lookup, PoolsTyped, storage
<1>4. CASE EnqueueSwap
  BY <1>4 DEF EnqueueSwap, PoolsTyped, storage
<1>5. CASE LazyPool
  BY <1>5 DEF LazyPool, PoolsTyped, storage, Knowledge
<1>6. CASE PoolCreated
  BY <1>6 DEF PoolCreated, PoolsTyped, storage, Knowledge
<1>7. CASE StoreBatch
  BY <1>7 DEF StoreBatch, StoreOutput, PoolsTyped
<1>8. CASE StoreBatchFails
  BY <1>1, <1>8 DEF StoreBatchFails, StoreOutput, PoolsTyped
<1>9. CASE Commit
  BY <1>1, <1>9 DEF Commit, PoolsTyped
<1>10. CASE Worker
  BY <1>10 DEF Worker, WorkerPolls, WorkerTakes, Resolve, CachePool, StoreResolved, WorkerSettles,
     PoolsTyped, memory, storage
<1>11. CASE Crash
  BY <1>1, <1>11 DEF Crash, PoolsTyped, storage, AllUnknown
<1>12. CASE Restart
  BY <1>12 DEF Restart, PoolsTyped, storage
<1>13. CASE UNCHANGED vars
  BY <1>13 DEF vars, PoolsTyped, memory, storage
<1> QED
  BY <1>2, <1>3, <1>4, <1>5, <1>6, <1>7, <1>8, <1>9, <1>10, <1>11, <1>12, <1>13 DEF Next, HotPath

\* A step after which all is calm starts in calm, and none of the excluded
\* things is what goes wrong in it.
LEMMA CalmBefore ==
  ASSUME [Next]_vars, Calm'
  PROVE  Calm /\ ~Crash /\ ~StoreBatchFails /\ ~GoesWrong("store")
<1>1. ~GoesWrong("store") /\ ~GoesWrong("crash")
  BY DEF GoesWrong, Calm
<1>2. wrong' = wrong \/ wrong' = wrong \cup {"rpc"} \/ wrong' = wrong \cup {"redis"}
  BY <1>1 DEF Next, HotPath, StartBatch, Lookup, EnqueueSwap, LazyPool, PoolCreated, StoreBatch,
     StoreBatchFails, Commit, Worker, WorkerPolls, WorkerTakes, Resolve, CachePool, StoreResolved,
     WorkerSettles, Crash, Restart, vars, setting, GoesWrong
<1> QED
  BY <1>1, <1>2 DEF Calm, Crash, StoreBatchFails

LEMMA PoolOfEvent ==
  ASSUME OnePoolPerSwap, HotInv, hot.pc \in {"lookup", "enqueue", "lazy"}
  PROVE  event.pool \in Pool /\ PoolOf(event.msg) = event.pool
<1>1. /\ done + 1 \in DOMAIN Batches /\ hot.event \in DOMAIN batch
      /\ event \in Event /\ event.kind = "swap"
  <2>1. done \in Nat /\ done < Len(Batches) /\ hot.event \in 1..Len(batch) /\ event.kind = "swap"
    BY DEF HotInv, AtEvent
  <2>2. event \in Event
    BY <2>1, EventOfBatch DEF event
  <2> HIDE DEF Event
  <2>3. done + 1 \in DOMAIN Batches
    BY <2>1, BatchesAssumption
  <2>4. batch \in Seq(Event)
    BY <2>3, BatchesAssumption DEF batch
  <2> QED
    BY <2>1, <2>2, <2>3, <2>4
<1>2. event = [kind |-> "swap", pool |-> event.pool, msg |-> event.msg] /\ event.pool \in Pool
  BY <1>1 DEF Event
<1> DEFINE Is(p) == \E b \in DOMAIN Batches : \E i \in DOMAIN Batches[b] :
                      Batches[b][i] = [kind |-> "swap", pool |-> p, msg |-> event.msg]
<1>3. Is(event.pool)
  <2>1. Batches[done + 1][hot.event] = [kind |-> "swap", pool |-> event.pool, msg |-> event.msg]
    BY <1>2 DEF event, batch
  <2> QED
    BY <1>1, <2>1 DEF batch
<1>4. ASSUME NEW p \in Pool, Is(p) PROVE p = event.pool
  <2>1. PICK b \in DOMAIN Batches : \E i \in DOMAIN Batches[b] :
          Batches[b][i] = [kind |-> "swap", pool |-> p, msg |-> event.msg]
    BY <1>4
  <2>2. PICK i \in DOMAIN Batches[b] :
          Batches[b][i] = [kind |-> "swap", pool |-> p, msg |-> event.msg]
    BY <2>1
  <2>3. Batches[b][i].kind = "swap" /\ Batches[b][i].msg = event.msg /\ Batches[b][i].pool = p
    BY <2>2
  <2>4. event = Batches[done + 1][hot.event] /\ hot.event \in DOMAIN Batches[done + 1]
    BY <1>1 DEF event, batch
  <2> QED
    BY <1>1, <2>3, <2>4 DEF OnePoolPerSwap
<1>5. PoolOf(event.msg) = CHOOSE p \in Pool : Is(p)
  BY DEF PoolOf
<1> HIDE DEF Is
<1> QED
  BY <1>2, <1>3, <1>4, <1>5

LEMMA CalmHotPath ==
  ASSUME OnePoolPerSwap, HotInv, PoolsTyped, CalmInv, HotPath, ~StoreBatchFails, HotInv'
  PROVE  CalmInv'
<1>0. UNCHANGED <<up, worker, cached>> /\ handed' = handed
  BY DEF HotPath, StartBatch, Lookup, EnqueueSwap, Enqueue, LazyPool, PoolCreated, StoreBatch,
     Commit, queueVars
<1>1. \A p \in Pool : InHand(p)' <=> InHand(p)
  BY <1>0 DEF InHand
<1>2. CASE StartBatch
  <2>1. /\ hot.pc = "idle" /\ out' = NoOutput /\ UNCHANGED <<seen, row, txRows>>
    BY <1>2 DEF StartBatch, HotAt, storage
  <2> QED
    BY <1>0, <1>1, <2>1 DEF CalmInv, InOutput, AtEvent, NoOutput
<1>3. CASE Lookup
  <2>1. /\ hot.pc = "lookup" /\ UNCHANGED <<row, txRows>>
        /\ out' = [out EXCEPT !.swaps = out.swaps \cup {event.msg}]
    BY <1>3 DEF Lookup, HotAt, storage
  <2>2. event.pool \in Pool /\ PoolOf(event.msg) = event.pool
    BY <2>1, PoolOfEvent
  <2>3. event' = event /\ hot'.pc \in {"lazy", "enqueue"}
    BY <1>3 DEF Lookup, GoHot, HotInv, event, batch, storage
  <2>4. out'.pools = out.pools /\ out'.swaps = out.swaps \cup {event.msg}
    BY <2>1 DEF PoolsTyped
  <2>5. \A p \in Pool : InOutput(p)' <=> InOutput(p)
    BY <2>1, <2>3, <2>4 DEF InOutput, AtEvent
  <2>6. /\ \A p \in Pool : seen'[p] # "none" <=> seen[p] # "none"
        /\ \A p \in Pool : p = event.pool => seen'[p] # "none" \/ AtSwapOf(p)'
    <3>1. CASE TokensKnown(event.pool)
      <4>1. seen[event.pool] # "none" /\ seen' = [seen EXCEPT ![event.pool] = "full"]
        BY <1>3, <2>2, <3>1 DEF Lookup, TokensKnown, CalmInv
      <4> QED
        BY <2>2, <4>1 DEF PoolsTyped
    <3>2. CASE ~TokensKnown(event.pool)
      <4>1. seen' = seen /\ GoHot("enqueue")
        BY <1>3, <3>2 DEF Lookup
      <4>2. hot'.pc = "enqueue"
        BY <4>1 DEF GoHot, HotInv
      <4> QED
        BY <2>3, <4>1, <4>2 DEF AtSwapOf
    <3> QED
      BY <3>1, <3>2
  <2>7. \A m \in out.swaps : PoolOf(m) \in Pool /\ seen[PoolOf(m)] # "none"
    BY <2>1 DEF CalmInv, AtSwapOf
  <2> QED
    BY <1>0, <1>1, <2>1, <2>2, <2>4, <2>5, <2>6, <2>7 DEF CalmInv
<1>4. CASE EnqueueSwap
  <2>1. /\ hot.pc = "enqueue" /\ hot'.pc = "lazy" /\ event' = event
        /\ UNCHANGED <<seen, row, txRows, out>>
    BY <1>4 DEF EnqueueSwap, HotAt, GoHot, HotInv, event, batch, storage
  <2> QED
    BY <1>0, <1>1, <2>1 DEF CalmInv, InOutput, AtSwapOf, AtEvent
<1>5. CASE LazyPool
  <2>1. /\ hot.pc = "lazy" /\ EventDone /\ UNCHANGED <<row, txRows, done>>
    BY <1>5 DEF LazyPool, HotAt, storage
  <2>2. event.pool \in Pool /\ hot'.pc \in {"lookup", "created", "store"}
    BY <2>1, PoolOfEvent, EventDoneGoes DEF AtEvent
  <2>3. CASE seen[event.pool] = "none"
    <3>1. /\ seen' = [seen EXCEPT ![event.pool] = "placeholder"]
          /\ out' = [out EXCEPT !.pools[event.pool] = "placeholder"]
      BY <1>5, <2>3 DEF LazyPool
    <3>2. /\ seen'[event.pool] # "none" /\ out'.pools[event.pool] # "none" /\ out'.swaps = out.swaps
          /\ \A p \in Pool \ {event.pool} : seen'[p] = seen[p] /\ out'.pools[p] = out.pools[p]
      BY <2>2, <3>1 DEF PoolsTyped
    <3>3. \A p \in Pool : InOutput(p) => InOutput(p)'
      BY <2>2, <3>2 DEF InOutput, AtEvent
    <3>4. \A p \in Pool : p = event.pool => InOutput(p)'
      BY <2>2, <3>2 DEF InOutput, AtEvent
    <3>5. \A m \in out'.swaps : PoolOf(m) \in Pool /\ seen'[PoolOf(m)] # "none"
      BY <3>2 DEF CalmInv, AtSwapOf
    <3> QED
      BY <1>0, <1>1, <2>1, <2>2, <3>2, <3>3, <3>4, <3>5 DEF CalmInv
  <2>4. CASE seen[event.pool] # "none"
    <3>1. UNCHANGED <<seen, out>>
      BY <1>5, <2>4 DEF LazyPool
    <3>2. \A p \in Pool : InOutput(p) => InOutput(p)'
      BY <2>2, <3>1 DEF InOutput, AtEvent
    <3>3. \A m \in out'.swaps : PoolOf(m) \in Pool /\ seen'[PoolOf(m)] # "none"
      BY <2>4, <3>1 DEF CalmInv, AtSwapOf
    <3> QED
      BY <1>0, <1>1, <2>1, <3>1, <3>2, <3>3 DEF CalmInv
  <2> QED
    BY <2>3, <2>4
<1>6. CASE PoolCreated
  <2>1. /\ hot.pc = "created" /\ EventDone /\ UNCHANGED <<row, txRows, done>>
        /\ seen' = [seen EXCEPT ![event.pool] = "full"]
        /\ out' = [out EXCEPT !.pools[event.pool] = "full"]
    BY <1>6 DEF PoolCreated, HotAt, storage
  <2>2. hot'.pc \in {"lookup", "created", "store"}
    BY <2>1, EventDoneGoes DEF AtEvent
  <2>3. /\ out'.swaps = out.swaps
        /\ \A p \in Pool : \/ seen'[p] = seen[p] /\ out'.pools[p] = out.pools[p]
                           \/ seen'[p] = "full" /\ out'.pools[p] = "full"
    BY <2>1 DEF PoolsTyped
  <2>4. \A p \in Pool : InOutput(p) \/ out'.pools[p] # out.pools[p] \/ out'.pools[p] = "full" => InOutput(p)'
    BY <2>1, <2>2, <2>3 DEF InOutput, AtEvent
  <2>5. \A m \in out'.swaps : PoolOf(m) \in Pool /\ seen'[PoolOf(m)] # "none"
    BY <2>1, <2>3 DEF CalmInv, AtSwapOf
  <2> QED
    BY <1>0, <1>1, <2>1, <2>3, <2>4, <2>5 DEF CalmInv
<1>7. CASE StoreBatch
  <2>1. /\ hot.pc = "store" /\ UNCHANGED <<seen, out>>
        /\ row' = [p \in Pool |-> Upserted(row[p], out.pools[p])]
        /\ txRows' = txRows \cup out.swaps
    BY <1>7 DEF StoreBatch, StoreOutput, HotAt
  <2>2. \A p \in Pool : row[p] # "none" \/ InOutput(p) => row'[p] # "none"
    BY <2>1 DEF InOutput, Upserted
  <2>3. \A m \in out.swaps : PoolOf(m) \in Pool /\ seen[PoolOf(m)] # "none"
    BY <2>1 DEF CalmInv, AtSwapOf
  <2> QED
    BY <1>0, <1>1, <2>1, <2>2, <2>3 DEF CalmInv
<1>8. CASE Commit
  <2>1. /\ hot.pc = "commit" /\ out' = NoOutput /\ UNCHANGED <<seen, row, txRows>>
    BY <1>8 DEF Commit, HotAt
  <2> QED
    BY <1>0, <1>1, <2>1 DEF CalmInv, InOutput, AtEvent, NoOutput
<1> QED
  BY <1>2, <1>3, <1>4, <1>5, <1>6, <1>7, <1>8 DEF HotPath

LEMMA CalmWorker ==
  ASSUME HandInv, PoolsTyped, CalmInv, Worker, ~GoesWrong("store")
  PROVE  CalmInv'
<1>0. UNCHANGED <<up, hot, out, txRows, done>>
  BY DEF Worker, WorkerPolls, WorkerTakes, Resolve, CachePool, StoreResolved, WorkerSettles,
     memory, storage
<1>1. \A p \in Pool : (InOutput(p)' <=> InOutput(p)) /\ (AtSwapOf(p)' <=> AtSwapOf(p))
  BY <1>0 DEF InOutput, AtSwapOf, event, batch
<1>2. CASE UNCHANGED <<seen, row, cached>> /\ \A p \in Pool : InHand(p)' <=> InHand(p)
  BY <1>0, <1>1, <1>2 DEF CalmInv
<1>3. CASE WorkerPolls \/ WorkerSettles \/ \E p \in Pool : WorkerTakes(p)
  <2>1. /\ UNCHANGED <<seen, row, cached>>
        /\ worker \notin {"cache", "store"} /\ worker' \notin {"cache", "store"}
    BY <1>3 DEF WorkerPolls, WorkerSettles, WorkerTakes, WorkerAt, memory, storage
  <2> QED
    BY <1>2, <2>1 DEF InHand
<1>4. CASE Resolve
  <2>1. /\ worker = "resolve" /\ UNCHANGED <<row, cached>> /\ handed' = handed
    BY <1>4 DEF Resolve, WorkerAt, storage, queueVars
  <2>2. CASE worker' = "failed" /\ seen' = seen
    BY <1>2, <2>1, <2>2 DEF InHand
  <2>3. CASE worker' = "cache" /\ seen' = [seen EXCEPT ![handed.pool] = "full"]
    <3>1. \A p \in Pool : ~InHand(p) /\ (InHand(p)' <=> p = handed.pool)
      BY <2>1, <2>3 DEF InHand
    <3>2. \A p \in Pool : seen'[p] # "none" <=> seen[p] # "none" \/ p = handed.pool
      BY <2>3 DEF PoolsTyped
    <3> QED
      BY <1>0, <1>1, <2>1, <3>1, <3>2 DEF CalmInv
  <2> QED
    BY <1>4, <2>2, <2>3 DEF Resolve
<1>5. CASE CachePool
  <2>1. /\ worker = "cache" /\ worker' = "store" /\ UNCHANGED <<seen, row>> /\ handed' = handed
        /\ cached' \subseteq cached \cup {handed.pool}
    BY <1>5 DEF CachePool, WorkerAt, storage, queueVars
  <2>2. \A p \in Pool : (InHand(p)' <=> InHand(p)) /\ (InHand(p) <=> p = handed.pool)
    BY <2>1 DEF InHand
  <2> QED
    BY <1>0, <1>1, <2>1, <2>2 DEF CalmInv
<1>6. CASE StoreResolved
  <2>1. /\ worker = "store" /\ worker' = "stored" /\ UNCHANGED <<seen, cached>>
        /\ row' = [row EXCEPT ![handed.pool] = "full"]
    BY <1>6 DEF StoreResolved, WorkerAt
  <2>2. \A p \in Pool : row[p] # "none" \/ InHand(p) => row'[p] # "none"
    BY <2>1 DEF InHand, PoolsTyped
  <2>3. \A p \in Pool : ~InHand(p)'
    BY <2>1 DEF InHand
  <2> QED
    BY <1>0, <1>1, <2>1, <2>2, <2>3 DEF CalmInv
<1> QED
  BY <1>3, <1>4, <1>5, <1>6 DEF Worker

LEMMA PipeKeeps == OnePoolPerSwap /\ PipeInv /\ [Next]_vars => PipeInv'
<1> SUFFICES ASSUME OnePoolPerSwap, PipeInv, [Next]_vars PROVE PipeInv'
  OBVIOUS
<1>1. HotInv' /\ HandInv' /\ PoolsTyped'
  BY HotKeeps, HandKeeps, PoolsStayTyped DEF PipeInv
<1>2. ASSUME Calm' PROVE CalmInv'
  <2>1. CalmInv /\ ~Crash /\ ~StoreBatchFails /\ ~GoesWrong("store")
    BY <1>2, CalmBefore DEF PipeInv
  <2>2. ~Restart
    BY <2>1 DEF Restart, CalmInv
  <2>3. CASE UNCHANGED vars
    BY <2>1, <2>3 DEF vars, memory, storage, queueVars, CalmInv, InOutput, InHand, AtSwapOf, event, batch
  <2> QED
    BY <1>1, <2>1, <2>2, <2>3, CalmHotPath, CalmWorker DEF PipeInv, Next
<1> QED
  BY <1>1, <1>2 DEF PipeInv

LEMMA PipeStarts == Init => PipeInv
<1> SUFFICES ASSUME Init PROVE PipeInv
  OBVIOUS
<1>1. HotInv /\ HandInv
  BY DEF Init, HotInv, HandInv, AtRest, AtEvent
<1>2. PoolsTyped
  BY DEF Init, PoolsTyped, NoOutput, AllUnknown, Knowledge
<1>3. CalmInv
  BY DEF Init, CalmInv, NoOutput, AllUnknown, InHand
<1> QED
  BY <1>1, <1>2, <1>3 DEF PipeInv

\* However the two goroutines come upon a pool, one of them stores a row for it:
\* nobody who finds it known, in memory or in Redis, leaves it to nobody.
THEOREM SwappedPoolsHaveRows == OnePoolPerSwap => (Spec => []SwappedPoolHasRow)
<1> SUFFICES ASSUME OnePoolPerSwap PROVE Spec => []SwappedPoolHasRow
  OBVIOUS
<1>1. PipeInv => SwappedPoolHasRow
  <2> SUFFICES ASSUME PipeInv, Quiet, Calm, NEW m \in txRows PROVE row[PoolOf(m)] # "none"
    BY DEF SwappedPoolHasRow, Calm
  <2>1. PoolOf(m) \in Pool /\ seen[PoolOf(m)] # "none"
    BY DEF PipeInv, CalmInv
  <2>2. ~InOutput(PoolOf(m)) /\ ~InHand(PoolOf(m))
    BY DEF Quiet, AtRest, InOutput, InHand, AtEvent
  <2> QED
    BY <2>1, <2>2 DEF PipeInv, CalmInv
<1>2. PipeInv /\ [Next]_vars => PipeInv'
  BY PipeKeeps
<1> QED
  BY <1>1, <1>2, PipeStarts, PTL DEF Spec

-----------------------------------------------------------------------------
(* The queue of the pipeline is the queue of PendingQueueLoop.             *)

LEMMA EventTyped ==
  ASSUME HotInv, hot.pc \in AtEvent
  PROVE  event \in Event
BY EventOfBatch DEF HotInv, event, AtEvent

LEMMA StepOfQueue == HotInv /\ [Next]_vars => [Queue!Next]_Queue!vars
<1> SUFFICES ASSUME HotInv, [Next]_vars PROVE Queue!Next \/ UNCHANGED queueVars
  BY DEF Queue!vars, Queue!queueVars, queueVars
<1>1. CASE EnqueueSwap
  <2>1. event.pool \in Pool /\ event.msg \in Msg
    BY <1>1, EventTyped DEF EnqueueSwap, HotAt, AtEvent, Event
  <2>2. Enqueue(event.pool, event.msg) => Queue!Produce
    BY <2>1 DEF Queue!Produce, Enqueue, Queue!Enqueue
  <2> QED
    BY <1>1, <2>2 DEF EnqueueSwap, Queue!Next
<1>2. CASE HotPath /\ ~EnqueueSwap
  BY <1>2 DEF HotPath, StartBatch, Lookup, LazyPool, PoolCreated, StoreBatch, StoreBatchFails,
     Commit
<1>3. CASE WorkerPolls
  BY <1>3 DEF WorkerPolls, Queue!Next, Poll, Queue!Poll, Handling, Queue!Handling
<1>4. CASE \E p \in Pool : WorkerTakes(p)
  BY <1>4 DEF WorkerTakes, Queue!Next, Hand, Queue!Hand, Handling, Queue!Handling, Nothing,
     Queue!Nothing
<1>5. CASE Resolve \/ CachePool \/ StoreResolved
  BY <1>5 DEF Resolve, CachePool, StoreResolved
<1>6. CASE WorkerSettles
  <2>1. Succeed => Queue!Succeed
    BY DEF Succeed, Queue!Succeed, Handling, Queue!Handling, Nothing, Queue!Nothing
  <2>2. ASSUME NEW expired \in BOOLEAN, Fail(expired) PROVE Queue!Fail(expired)
    BY <2>2 DEF Fail, Queue!Fail, Handling, Queue!Handling, Nothing, Queue!Nothing
  <2> QED
    BY <1>6, <2>1, <2>2 DEF WorkerSettles, Queue!Settle, Queue!Next
<1>7. CASE Crash
  BY <1>7 DEF Crash, LoseQueue, Queue!LoseQueue, Nothing, Queue!Nothing, Queue!Next
<1>8. CASE Restart \/ UNCHANGED vars
  BY <1>8 DEF Restart, vars
<1> QED
  BY <1>1, <1>2, <1>3, <1>4, <1>5, <1>6, <1>7, <1>8 DEF Next, Worker

\* The hot path is one producer among those the queue allows, the extractor's
\* resolution one handler, and the death of the process empties the queue.
THEOREM PipelineUsesTheQueue == Spec => ImplementsQueue
<1>1. Init => HotInv /\ Queue!Init
  BY PipeStarts DEF Init, Queue!Init, QueueInit, Queue!QueueInit, PipeInv, Queue!Nothing, Nothing
<1>2. HotInv /\ [Next]_vars => HotInv'
  BY HotKeeps
<1> QED
  BY <1>1, <1>2, StepOfQueue, PTL DEF Spec, ImplementsQueue, Queue!Spec

QueueFacts == INSTANCE PendingQueueProofs

LEMMA SameQueue ==
  /\ Queue!Init <=> QueueFacts!Init
  /\ [Queue!Next]_Queue!vars <=> [QueueFacts!Next]_QueueFacts!vars
  /\ QueueFacts!TypeOK <=> QueueTypeOK
BY DEF Queue!Init, QueueFacts!Init, Queue!QueueInit, QueueFacts!QueueInit,
   Queue!Next, QueueFacts!Next, Queue!Produce, QueueFacts!Produce,
   Queue!Settle, QueueFacts!Settle, Queue!Enqueue, QueueFacts!Enqueue,
   Queue!Poll, QueueFacts!Poll, Queue!Hand, QueueFacts!Hand,
   Queue!Succeed, QueueFacts!Succeed, Queue!Fail, QueueFacts!Fail,
   Queue!LoseQueue, QueueFacts!LoseQueue, Queue!Handling, QueueFacts!Handling,
   Queue!Nothing, QueueFacts!Nothing, Queue!vars, QueueFacts!vars,
   Queue!queueVars, QueueFacts!queueVars,
   QueueFacts!TypeOK, QueueFacts!QueueTypeOK, QueueTypeOK

LEMMA QueueOfPipeline == Spec => QueueFacts!Spec
<1>1. Queue!Init => QueueFacts!Init
  BY SameQueue
<1>2. [Queue!Next]_Queue!vars => [QueueFacts!Next]_QueueFacts!vars
  BY SameQueue
<1>3. Spec => Queue!Spec
  BY PipelineUsesTheQueue DEF ImplementsQueue
<1> QED
  BY <1>1, <1>2, <1>3, PTL DEF Queue!Spec, QueueFacts!Spec

\* What holds of the queue with any producer and handler holds in the pipeline:
\* a handler's messages are the oldest of their pool, the capacity is kept, and
\* attempts neither reach their limit nor outlive the messages.
THEOREM PipelineQueueIsSafe ==
  Spec => [](QueueFacts!HandedIsPrefix /\ QueueFacts!CapacityKept /\ QueueFacts!AttemptsMatch)
<1>1. QueueFacts!Spec => []QueueFacts!HandedIsPrefix
  BY QueueAssumption, QueueFacts!QueueSafe DEF QueueFacts!QueueSafe
<1>2. QueueFacts!Spec => []QueueFacts!CapacityKept
  BY QueueAssumption, QueueFacts!QueueKeepsCapacity DEF QueueFacts!QueueKeepsCapacity
<1>3. QueueFacts!Spec => []QueueFacts!AttemptsMatch
  BY QueueAssumption, QueueFacts!AttemptsAreBounded DEF QueueFacts!AttemptsAreBounded
<1> QED
  BY <1>1, <1>2, <1>3, QueueOfPipeline, PTL

LEMMA QueueStaysTyped == Spec => []QueueTypeOK
<1>1. QueueFacts!Spec => []QueueFacts!TypeOK
  BY QueueAssumption, QueueFacts!QueueTypeCorrect DEF QueueFacts!QueueTypeCorrect
<1>2. QueueFacts!TypeOK => QueueTypeOK
  BY SameQueue
<1> QED
  BY <1>1, <1>2, QueueOfPipeline, PTL

-----------------------------------------------------------------------------
(* Types.                                                                  *)

\* What the goroutines, the store and the process's memory of faults have, next
\* to the queue.
Typed ==
  /\ seen \in [Pool -> Knowledge] /\ row \in [Pool -> Knowledge]
  /\ out \in [pools : [Pool -> Knowledge], swaps : SUBSET Msg]
  /\ cached \subseteq Pool /\ txRows \subseteq Msg /\ swapRows \subseteq Msg
  /\ done \in 0..Len(Batches)
  /\ worker \in {"idle", "resolve", "cache", "store", "stored", "failed"}
  /\ up \in BOOLEAN /\ store \in Stores /\ wrong \subseteq Faults /\ faults \in 0..MaxFaults

\* What belongs to the run as a whole.
SettingTyped == store \in Stores /\ wrong \subseteq Faults /\ faults \in 0..MaxFaults

LEMMA NumberOfBatches == Len(Batches) \in Nat
<1> HIDE DEF Event
<1> QED
  BY BatchesAssumption

LEMMA SettingStays ==
  ASSUME SettingTyped, UNCHANGED setting \/ \E kind : GoesWrong(kind)
  PROVE  SettingTyped'
BY MaxFaultsAssumption DEF SettingTyped, GoesWrong, setting

LEMMA StepOfSetting ==
  ASSUME [Next]_vars
  PROVE  UNCHANGED setting \/ \E kind : GoesWrong(kind)
BY DEF Next, HotPath, StartBatch, Lookup, EnqueueSwap, LazyPool, PoolCreated, StoreBatch,
   StoreBatchFails, Commit, Worker, WorkerPolls, WorkerTakes, Resolve, CachePool,
   StoreResolved, WorkerSettles, Crash, Restart, vars

LEMMA TypedKeeps ==
  ASSUME QueueTypeOK, HotInv, HandInv, Typed, [Next]_vars
  PROVE  Typed'
<1>0. SettingTyped'
  BY SettingStays, StepOfSetting DEF Typed, SettingTyped
<1>1. NoOutput \in [pools : [Pool -> Knowledge], swaps : SUBSET Msg] /\ AllUnknown \in [Pool -> Knowledge]
  BY DEF NoOutput, AllUnknown, Knowledge
<1>2. hot.pc \in AtEvent => event.pool \in Pool /\ event.msg \in Msg
  BY EventTyped DEF Event
<1>3. worker # "idle" => handed.pool \in Pool /\ handed.msgs \in Seq(Msg)
  BY DEF HandInv, QueueTypeOK
<1>4. CASE StartBatch
  BY <1>0, <1>1, <1>4 DEF StartBatch, Typed, SettingTyped, storage
<1>5. CASE Lookup
  BY <1>0, <1>2, <1>5 DEF Lookup, HotAt, AtEvent, Typed, SettingTyped, storage, Knowledge
<1>6. CASE EnqueueSwap
  BY <1>0, <1>6 DEF EnqueueSwap, Typed, SettingTyped, storage
<1>7. CASE LazyPool
  BY <1>0, <1>2, <1>7 DEF LazyPool, HotAt, AtEvent, Typed, SettingTyped, storage, Knowledge
<1>8. CASE PoolCreated
  BY <1>0, <1>2, <1>8 DEF PoolCreated, HotAt, AtEvent, Typed, SettingTyped, storage, Knowledge
<1>9. CASE StoreBatch \/ StoreBatchFails
  <2>1. StoreOutput => row' \in [Pool -> Knowledge] /\ txRows' \subseteq Msg
    BY DEF StoreOutput, Upserted, Typed
  <2> QED
    BY <1>0, <1>1, <1>9, <2>1 DEF StoreBatch, StoreBatchFails, Typed, SettingTyped
<1>10. CASE Commit
  <2>1. done' \in 0..Len(Batches)
    BY <1>10, NumberOfBatches DEF Commit, HotAt, HotInv, Typed
  <2> QED
    BY <1>0, <1>1, <1>10, <2>1 DEF Commit, Typed, SettingTyped
<1>11. CASE WorkerPolls \/ WorkerSettles \/ \E p \in Pool : WorkerTakes(p)
  BY <1>0, <1>11 DEF WorkerPolls, WorkerSettles, WorkerTakes, Typed, SettingTyped, memory, storage
<1>12. CASE Resolve
  BY <1>0, <1>3, <1>12 DEF Resolve, WorkerAt, Typed, SettingTyped, storage, Knowledge
<1>13. CASE CachePool
  BY <1>0, <1>3, <1>13 DEF CachePool, WorkerAt, Typed, SettingTyped, storage
<1>14. CASE StoreResolved
  BY <1>0, <1>3, <1>14 DEF StoreResolved, WorkerAt, Typed, SettingTyped, Knowledge
<1>15. CASE Crash
  BY <1>0, <1>1, <1>15 DEF Crash, Typed, SettingTyped, storage
<1>16. CASE Restart
  BY <1>0, <1>16 DEF Restart, Typed, SettingTyped, storage, Knowledge
<1>17. CASE UNCHANGED vars
  BY <1>17 DEF vars, memory, storage, setting, Typed
<1> QED
  BY <1>4, <1>5, <1>6, <1>7, <1>8, <1>9, <1>10, <1>11, <1>12, <1>13, <1>14, <1>15, <1>16, <1>17
     DEF Next, HotPath, Worker

\* The types of the pipeline: the queue's from the queue's own theorem.
THEOREM PipelineTypeCorrect == Spec => []TypeOK
<1>1. Init => HotInv /\ HandInv /\ Typed
  <2>1. NoOutput \in [pools : [Pool -> Knowledge], swaps : SUBSET Msg] /\ AllUnknown \in [Pool -> Knowledge]
    BY DEF NoOutput, AllUnknown, Knowledge
  <2> QED
    BY <2>1, PipeStarts, NumberOfBatches, MaxFaultsAssumption DEF Init, PipeInv, Typed
<1>2. HotInv /\ [Next]_vars => HotInv'
  BY HotKeeps
<1>3. HandInv /\ [Next]_vars => HandInv'
  BY HandKeeps
<1>4. QueueTypeOK /\ HotInv /\ HandInv /\ Typed /\ [Next]_vars => Typed'
  BY TypedKeeps
<1>5. QueueTypeOK /\ HotInv /\ Typed => TypeOK
  BY DEF HotInv, Typed, TypeOK, AtEvent
<1> QED
  BY <1>1, <1>2, <1>3, <1>4, <1>5, QueueStaysTyped, PTL DEF Spec
=============================================================================
