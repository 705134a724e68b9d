-------------------------------- MODULE Engine --------------------------------
(***************************************************************************)
(* The parser engine: one goroutine per chain that, on every tick, loads   *)
(* the chain's progress, fetches the next range of blocks, extracts DEX    *)
(* data, stores blocks, transactions and DEX data in that order, and saves *)
(* the progress (engine.go, processChainBatch).  It runs over the          *)
(* FallbackTracker, whose calls are steps of the same goroutine.           *)
(*                                                                         *)
(* A block stands for its row, its transactions and its DEX records; the   *)
(* three tables are sets of heights.  Storage is a relational store: each  *)
(* Store* call is one transaction, so it happens entirely or not at all,   *)
(* and one whose reply is lost may have happened.                          *)
(***************************************************************************)
EXTENDS FallbackTracker

CONSTANTS
  StartBlock,  \* [Chain -> Nat] ChainConfig.StartBlock, 0 when not set
  BatchSize,   \* blocks added to the first block of a range
  Lookback,    \* where an unconfigured chain starts: 100 blocks below the head
  FirstHead,   \* head of every chain when the model starts
  MaxHead      \* bound on the heads

ASSUME StartBlockAssumption == StartBlock \in [Chain -> Nat]
ASSUME BatchSizeAssumption == BatchSize \in Nat \ {0}
ASSUME HeadAssumption ==
  /\ Lookback \in Nat \ {0} /\ FirstHead \in Nat /\ MaxHead \in Nat
  /\ Lookback < FirstHead  \* a live chain is longer than the lookback
  /\ FirstHead <= MaxHead

VARIABLES
  head,    \* [Chain -> Nat] newest block of the chain
  blocks,  \* [Chain -> set of heights] rows in the blocks table
  txs,     \* [Chain -> set of heights] blocks whose transactions are stored
  dex,     \* [Chain -> set of heights] blocks whose DEX data is stored
  stage,   \* [Chain -> stage] where the goroutine is in processChainBatch
  batch,   \* [Chain -> batch] the range being processed
  origin   \* history: [Chain -> first height of the batch behind the first
           \* progress record ever made, 0 if none was]

tables     == <<blocks, txs, dex>>
engineVars == <<head, tables, stage, batch, origin>>
vars       == <<trackerVars, engineVars>>

Stages == {"idle", "load", "fetch", "extract", "storeBlocks", "storeTxs",
           "storeDex", "commit", "save"}
Batch   == [first : Nat, last : Nat, fetched : SUBSET Nat]
NoBatch == [first |-> 0, last |-> 0, fetched |-> {}]

-----------------------------------------------------------------------------
(* The range of a batch.                                                   *)

LesserOf(a, b) == IF a < b THEN a ELSE b

\* Mutants: the saved position is taken for the first block not processed, or
\* for the last one before a block already processed.
RangeStartAgain(c, progress, latest) ==
  IF progress # 0 THEN progress
  ELSE IF StartBlock[c] > 0 THEN StartBlock[c] ELSE latest - Lookback
RangeStartSkips(c, progress, latest) ==
  IF progress # 0 THEN progress + 2
  ELSE IF StartBlock[c] > 0 THEN StartBlock[c] ELSE latest - Lookback

\* A progress of 0 means "never processed"; otherwise resume after it.
RangeStart(c, progress, latest) ==
  IF progress # 0 THEN progress + 1
  ELSE IF StartBlock[c] > 0 THEN StartBlock[c]
  ELSE latest - Lookback

\* Mutant: the end of the range is exclusive.
RangeEndExclusive(start, latest) == LesserOf(start + BatchSize, latest) - 1

RangeEnd(start, latest) == LesserOf(start + BatchSize, latest)

Goto(c, s)  == stage' = [stage EXCEPT ![c] = s]
GiveUp(c)   == Goto(c, "idle") /\ batch' = [batch EXCEPT ![c] = NoBatch]

\* The steps below that are not tracker calls leave the tracker alone.
Local(c, from) == stage[c] = from /\ UNCHANGED <<trackerVars, head, origin>>

-----------------------------------------------------------------------------
(* processChainBatch                                                       *)

Tick(c) ==
  /\ up /\ stage[c] = "idle"
  /\ GetProgress(c)
  /\ Goto(c, "load")
  /\ UNCHANGED <<head, tables, batch, origin>>

\* getOrCreateProgress: an error of the tracker counts as progress 0.
Progress(c) == IF call[c].pc = "got" THEN call[c].block ELSE 0

Loaded(c) ==
  /\ stage[c] = "load" /\ call[c].pc \in {"got", "gotErr"}
  /\ call' = [call EXCEPT ![c] = NoCall]
  /\ UNCHANGED <<storeVars, envVars, primaryHealthy, updateCount, probe>>
  /\ UNCHANGED <<head, tables, origin>>

\* The range of the batch; a range of fewer than two blocks is left for later.
PlanBatch(c) ==
  /\ Loaded(c)
  /\ LET start == RangeStart(c, Progress(c), head[c])
         end   == RangeEnd(start, head[c])
     IN  IF start < end
         THEN /\ Goto(c, "fetch")
              /\ batch' = [batch EXCEPT ![c] =
                             [first |-> start, last |-> end, fetched |-> {}]]
         ELSE GiveUp(c)

\* GetLatestBlockNumber failed.
HeadFails(c) == "rpc" \in Faults /\ Loaded(c) /\ GiveUp(c)

\* GetBlocksByRange.  The processors log a block that cannot be fetched and go
\* on to the next; a range that yields nothing ends the batch.
Fetchable(c) ==
  LET range == batch[c].first .. batch[c].last
  IN  IF "skip" \in Faults THEN SUBSET range ELSE {range}

Fetch(c) ==
  /\ Local(c, "fetch")
  /\ \E got \in Fetchable(c) :
       IF got = {} THEN GiveUp(c)
       ELSE Goto(c, "extract") /\ batch' = [batch EXCEPT ![c].fetched = got]
  /\ UNCHANGED tables

FetchFails(c) ==
  /\ "rpc" \in Faults
  /\ Local(c, "fetch") /\ GiveUp(c) /\ UNCHANGED tables

Extract(c) ==
  /\ Local(c, "extract") /\ Goto(c, "storeBlocks")
  /\ UNCHANGED <<tables, batch>>

\* An extractor that returns an error takes the whole batch with it.
ExtractFails(c) ==
  /\ "extract" \in Faults
  /\ Local(c, "extract") /\ GiveUp(c) /\ UNCHANGED tables

AddTo(table, c) == table' = [table EXCEPT ![c] = @ \cup batch[c].fetched]

StoreBlocks(c) ==
  /\ Local(c, "storeBlocks") /\ Goto(c, "storeTxs")
  /\ AddTo(blocks, c)
  /\ UNCHANGED <<txs, dex, batch>>

StoreTransactions(c) ==
  /\ Local(c, "storeTxs") /\ Goto(c, "storeDex")
  /\ AddTo(txs, c)
  /\ UNCHANGED <<blocks, dex, batch>>

StoreDexData(c) ==
  /\ Local(c, "storeDex") /\ Goto(c, "commit")
  /\ AddTo(dex, c)
  /\ UNCHANGED <<blocks, txs, batch>>

\* Mutant: the error of a store is logged and the batch goes on.
StoreFailsGoesOn(c) ==
  /\ "store" \in Faults
  /\ \/ Local(c, "storeBlocks") /\ Goto(c, "storeTxs")
     \/ Local(c, "storeTxs") /\ Goto(c, "storeDex")
     \/ Local(c, "storeDex") /\ Goto(c, "commit")
  /\ UNCHANGED <<tables, batch>>

\* A store that returns an error ends the batch; nothing undoes the stores
\* before it, and its own transaction may have been committed all the same.
StoreFails(c) ==
  /\ "store" \in Faults
  /\ \/ /\ Local(c, "storeBlocks")
        /\ UNCHANGED blocks \/ AddTo(blocks, c)
        /\ UNCHANGED <<txs, dex>>
     \/ /\ Local(c, "storeTxs")
        /\ UNCHANGED txs \/ AddTo(txs, c)
        /\ UNCHANGED <<blocks, dex>>
     \/ /\ Local(c, "storeDex")
        /\ UNCHANGED dex \/ AddTo(dex, c)
        /\ UNCHANGED <<blocks, txs>>
  /\ GiveUp(c)

\* Mutant: the progress is the next block to process.
CommitBatchNext(c) ==
  /\ stage[c] = "commit"
  /\ UpdateProgress(c, batch[c].last + 1)
  /\ Goto(c, "save")
  /\ UNCHANGED <<head, tables, batch, origin>>

\* The progress moves to the end of the range, whatever was fetched of it.
CommitBatch(c) ==
  /\ stage[c] = "commit"
  /\ UpdateProgress(c, batch[c].last)
  /\ Goto(c, "save")
  /\ UNCHANGED <<head, tables, batch, origin>>

\* A failed save is only logged.
EndBatch(c) ==
  /\ stage[c] = "save" /\ call[c].pc \in {"acked", "failed"}
  /\ call' = [call EXCEPT ![c] = NoCall]
  /\ GiveUp(c)
  /\ UNCHANGED <<storeVars, envVars, primaryHealthy, updateCount, probe>>
  /\ UNCHANGED <<head, tables, origin>>

BatchStep(c) ==
  \/ Tick(c) \/ PlanBatch(c) \/ HeadFails(c) \/ Fetch(c) \/ FetchFails(c)
  \/ Extract(c) \/ ExtractFails(c)
  \/ StoreBlocks(c) \/ StoreTransactions(c) \/ StoreDexData(c) \/ StoreFails(c)
  \/ CommitBatch(c) \/ EndBatch(c)

-----------------------------------------------------------------------------
\* The chain grows.
NewBlock(c) ==
  /\ head[c] < MaxHead
  /\ head' = [head EXCEPT ![c] = @ + 1]
  /\ UNCHANGED <<trackerVars, tables, stage, batch, origin>>

\* The process dies, or Stop cancels its context and it exits: what is in
\* flight is gone, what is stored stays.
Crash ==
  /\ TrackerCrash
  /\ stage' = [c \in Chain |-> "idle"]
  /\ batch' = [c \in Chain |-> NoBatch]
  /\ UNCHANGED <<head, tables, origin>>

Restart == TrackerRestart /\ UNCHANGED engineVars

CallStep(c) ==
  /\ TrackerStep(c)
  /\ origin' = [origin EXCEPT ![c] =
                  IF @ = 0 /\ (redis'[c] # 0 \/ db'[c] # 0)
                  THEN batch[c].first ELSE @]
  /\ UNCHANGED <<head, tables, stage, batch>>

Health      == (HealthProbe \/ HealthMark) /\ UNCHANGED engineVars
Environment == TrackerEnv /\ UNCHANGED engineVars

Next ==
  \/ \E c \in Chain : BatchStep(c) \/ CallStep(c) \/ NewBlock(c)
  \/ Health
  \/ Environment
  \/ Crash
  \/ Restart

Init ==
  /\ TrackerInit
  /\ head = [c \in Chain |-> FirstHead]
  /\ blocks = [c \in Chain |-> {}]
  /\ txs = [c \in Chain |-> {}]
  /\ dex = [c \in Chain |-> {}]
  /\ stage = [c \in Chain |-> "idle"]
  /\ batch = [c \in Chain |-> NoBatch]
  /\ origin = [c \in Chain |-> 0]

Spec == Init /\ [][Next]_vars

\* The ticker of every goroutine keeps firing and a call in progress returns;
\* a fetch, an extraction or a store tried for ever succeeds some day.
Fairness ==
  /\ WF_vars(Restart)
  /\ \A c \in Chain :
       /\ WF_vars(Tick(c)) /\ WF_vars(CallStep(c))
       /\ WF_vars(CommitBatch(c)) /\ WF_vars(EndBatch(c))
       /\ SF_vars(PlanBatch(c)) /\ SF_vars(Fetch(c)) /\ SF_vars(Extract(c))
       /\ SF_vars(StoreBlocks(c)) /\ SF_vars(StoreTransactions(c))
       /\ SF_vars(StoreDexData(c))

FairSpec == Spec /\ Fairness

-----------------------------------------------------------------------------
TypeOK ==
  /\ TrackerTypeOK
  /\ head \in [Chain -> FirstHead .. MaxHead]
  /\ \A table \in {blocks, txs, dex} : table \in [Chain -> SUBSET Nat]
  /\ stage \in [Chain -> Stages]
  /\ batch \in [Chain -> Batch]
  /\ origin \in [Chain -> Nat]

Ingested(c) == blocks[c] \cap txs[c] \cap dex[c]

\* architecture.md:751, "the progress is updated only after the data has been
\* written, so that no data is lost": every height from the first one committed
\* to the position in either progress store is in all three tables.
NoGap ==
  \A c \in Chain : \A p \in {redis[c], db[c]} :
    p # 0 => (origin[c] .. p) \subseteq Ingested(c)

(* Why NoGap holds when the start block is configured: every position that *)
(* is stored or on its way back from a store, and everything below the     *)
(* range of the batch in progress, is covered; and a call in progress      *)
(* belongs to the stage the batch is in.                                   *)

Covered(c, p) == p # 0 => (StartBlock[c] .. p) \subseteq Ingested(c)

CallMatchesStage(c) ==
  /\ stage[c] = "load" <=> call[c].pc \in GetSteps \cup {"got", "gotErr"}
  /\ stage[c] = "save" <=> call[c].pc \in UpdateSteps \cup {"acked", "failed"}
  /\ stage[c] = "save" => call[c].block = batch[c].last

Fetched(c) ==
  stage[c] \notin {"idle", "load", "fetch"} =>
    batch[c].fetched = batch[c].first .. batch[c].last

BelowBatchCovered(c) ==
  stage[c] \notin {"idle", "load"} =>
    (StartBlock[c] .. batch[c].first - 1) \subseteq Ingested(c)

RecordsCovered(c) ==
  /\ Covered(c, redis[c]) /\ Covered(c, db[c])
  /\ call[c].pc \in {"getMarkUp", "got"} => Covered(c, call[c].block)

OriginIsStart(c) ==
  \/ origin[c] = StartBlock[c]
  \/ /\ origin[c] = 0 /\ redis[c] = 0 /\ db[c] = 0
     /\ call[c].pc \in {"getMarkUp", "got"} => call[c].block = 0
     /\ stage[c] \notin {"idle", "load"} => batch[c].first = StartBlock[c]

StoredSoFar(c) ==
  LET s == stage[c] IN
  /\ s \in {"storeTxs", "storeDex", "commit", "save"} => batch[c].fetched \subseteq blocks[c]
  /\ s \in {"storeDex", "commit", "save"} => batch[c].fetched \subseteq txs[c]
  /\ s \in {"commit", "save"} => batch[c].fetched \subseteq dex[c]

\* The inductive invariant behind NoGap, under a configured start block and a
\* processor that does not skip blocks.
ChainCovered(c) ==
  /\ CallMatchesStage(c) /\ Fetched(c) /\ StoredSoFar(c)
  /\ BelowBatchCovered(c) /\ RecordsCovered(c) /\ OriginIsStart(c)

NoGapInv == \A c \in Chain : ChainCovered(c)

\* DEX rows refer to transactions by hash, transactions to blocks by number:
\* no table runs ahead of the one it refers to, in whatever step a batch dies.
RowsOrdered(c) == dex[c] \subseteq txs[c] /\ txs[c] \subseteq blocks[c]
RowOrder == \A c \in Chain : RowsOrdered(c)

\* engine.go:235, "start at the next block (avoids processing twice)": with a
\* reliable Redis, a block is stored a second time only if the batch that
\* stored it first died before its position was saved.
NoReprocessing ==
  [][\A c \in Chain : StoreDexData(c) =>
       \A h \in batch[c].fetched \cap dex[c] : h > redis[c]]_vars

\* Processing starts, and from where it started every block with a successor is
\* ingested in the end, however often the process dies and calls fail on the
\* way.  (The newest block alone is a range of one, which the engine leaves
\* until the chain grows.)
CatchesUp ==
  (<>[]up) =>
    \A c \in Chain :
      /\ <>(origin[c] # 0)
      /\ \A h \in 1 .. MaxHead :
           (origin[c] \in 1 .. h /\ h < head[c]) ~> (h \in Ingested(c))
=============================================================================
