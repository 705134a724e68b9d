----------------------------- MODULE EngineProofs -----------------------------
(***************************************************************************)
(* Theorems about the engine over its progress tracker, for every set of   *)
(* chains, every batch size, every sync interval and every mix of faults.  *)
(***************************************************************************)
EXTENDS Engine, TrackerProofs

-----------------------------------------------------------------------------
(* The engine.                                                             *)

\* Whatever progress was loaded and wherever the head is, a range starts and
\* ends on real heights.
LEMMA RangeTyped ==
  ASSUME TypeOK, NEW c \in Chain, NEW p \in Nat
  PROVE  /\ RangeStart(c, p, head[c]) \in Nat
         /\ \A start \in Nat : RangeEnd(start, head[c]) \in Nat
<1>1. head[c] \in Nat /\ FirstHead <= head[c]
  BY HeadAssumption DEF TypeOK
<1> QED
  BY <1>1, HeadAssumption, StartBlockAssumption, BatchSizeAssumption
     DEF RangeStart, RangeEnd, LesserOf

LEMMA GiveUpTyped ==
  ASSUME TypeOK, NEW c \in Chain, GiveUp(c)
  PROVE  stage' \in [Chain -> Stages] /\ batch' \in [Chain -> Batch]
<1>1. NoBatch \in Batch
  BY DEF NoBatch, Batch
<1> QED
  BY <1>1 DEF GiveUp, Goto, TypeOK, Stages

LEMMA AddToTyped ==
  ASSUME TypeOK, NEW c \in Chain
  PROVE  /\ AddTo(blocks, c) => blocks' \in [Chain -> SUBSET Nat]
         /\ AddTo(txs, c) => txs' \in [Chain -> SUBSET Nat]
         /\ AddTo(dex, c) => dex' \in [Chain -> SUBSET Nat]
<1>1. batch[c].fetched \subseteq Nat
  BY DEF TypeOK, Batch
<1> QED
  BY <1>1 DEF AddTo, TypeOK

\* A step of processChainBatch keeps every variable in its type.
LEMMA BatchStepTyped ==
  ASSUME TypeOK, NEW c \in Chain, BatchStep(c)
  PROVE  TypeOK'
<1> USE DEF TypeOK, Local, tables
<1>a. UNCHANGED trackerVars => TrackerTypeOK'
  BY DEF trackerVars, TrackerTypeOK
<1>b. UNCHANGED <<storeVars, envVars, primaryHealthy, updateCount, probe>>
      /\ call' = [call EXCEPT ![c] = NoCall] => TrackerTypeOK'
  <2> SUFFICES ASSUME UNCHANGED <<storeVars, envVars, primaryHealthy, updateCount, probe>>,
                      call' = [call EXCEPT ![c] = NoCall]
               PROVE  TrackerTypeOK'
    OBVIOUS
  <2>1. call' \in [Chain -> CallState]
    BY NoCallTyped DEF TrackerTypeOK
  <2> QED
    BY <2>1 DEF TrackerTypeOK, storeVars, envVars
<1>c. ASSUME NEW s \in Stages, Goto(c, s)
      PROVE  stage' \in [Chain -> Stages]
  BY <1>c DEF Goto
<1>1. CASE Tick(c)
  BY <1>1, <1>c, GetProgressTyped DEF Tick, Stages
<1>2. CASE PlanBatch(c)
  <2> DEFINE start == RangeStart(c, Progress(c), head[c])
             end   == RangeEnd(start, head[c])
  <2>1. Progress(c) \in Nat
    BY DEF Progress, TrackerTypeOK, CallState
  <2>2. start \in Nat /\ end \in Nat
    BY <2>1, RangeTyped
  <2>3. CASE start < end
    <3> HIDE DEF start, end
    <3>1. [first |-> start, last |-> end, fetched |-> {}] \in Batch
      BY <2>2 DEF Batch
    <3>2. /\ Goto(c, "fetch")
          /\ batch' = [batch EXCEPT ![c] = [first |-> start, last |-> end, fetched |-> {}]]
      BY <1>2, <2>3 DEF PlanBatch, start, end
    <3>3. batch' \in [Chain -> Batch] /\ stage' \in [Chain -> Stages]
      BY <1>c, <3>1, <3>2 DEF Stages
    <3> QED
      BY <1>2, <1>b, <3>3 DEF PlanBatch, Loaded
  <2>4. CASE ~(start < end)
    BY <1>2, <1>b, <2>4, GiveUpTyped DEF PlanBatch, Loaded
  <2> QED
    BY <2>3, <2>4
<1>3. CASE HeadFails(c)
  BY <1>3, <1>b, GiveUpTyped DEF HeadFails, Loaded
<1>4. CASE Fetch(c)
  <2>1. PICK got \in Fetchable(c) :
          IF got = {} THEN GiveUp(c)
          ELSE Goto(c, "extract") /\ batch' = [batch EXCEPT ![c].fetched = got]
    BY <1>4 DEF Fetch
  <2>2. got \in SUBSET Nat
    BY DEF Fetchable, Batch
  <2>3. CASE got = {}
    BY <1>4, <1>a, <2>1, <2>3, GiveUpTyped DEF Fetch
  <2>4. CASE got # {}
    <3>1. stage' \in [Chain -> Stages]
      BY <2>1, <2>4, <1>c DEF Stages
    <3>2. batch' \in [Chain -> Batch]
      BY <2>1, <2>2, <2>4 DEF Batch
    <3> QED
      BY <1>4, <1>a, <3>1, <3>2 DEF Fetch
  <2> QED
    BY <2>3, <2>4
<1>5. CASE FetchFails(c) \/ ExtractFails(c)
  BY <1>5, <1>a, GiveUpTyped DEF FetchFails, ExtractFails
<1>6. CASE Extract(c)
  BY <1>6, <1>a, <1>c DEF Extract, Stages
<1>7. CASE StoreBlocks(c) \/ StoreTransactions(c) \/ StoreDexData(c)
  BY <1>7, <1>a, <1>c, AddToTyped DEF StoreBlocks, StoreTransactions, StoreDexData, Stages
<1>8. CASE StoreFails(c)
  BY <1>8, <1>a, GiveUpTyped, AddToTyped DEF StoreFails
<1>9. CASE CommitBatch(c)
  <2>1. batch[c].last \in Nat
    BY DEF Batch
  <2> QED
    BY <1>9, <1>c, <2>1, UpdateProgressTyped DEF CommitBatch, Stages
<1>10. CASE EndBatch(c)
  BY <1>10, <1>b, GiveUpTyped DEF EndBatch
<1> QED
  BY <1>1, <1>2, <1>3, <1>4, <1>5, <1>6, <1>7, <1>8, <1>9, <1>10 DEF BatchStep

\* Every variable of the engine and its tracker keeps its type.
THEOREM TypeCorrect == Spec => []TypeOK
<1>1. Init => TypeOK
  <2>1. TrackerInit => TrackerTypeOK
    BY NoCallTyped, SyncIntervalAssumption DEF TrackerInit, TrackerTypeOK
  <2>2. NoBatch \in Batch
    BY DEF NoBatch, Batch
  <2> QED
    BY <2>1, <2>2, HeadAssumption DEF Init, TypeOK, Stages
<1>2. TypeOK /\ [Next]_vars => TypeOK'
  <2> SUFFICES ASSUME TypeOK, [Next]_vars PROVE TypeOK'
    OBVIOUS
  <2> USE DEF TypeOK
  <2>1. ASSUME NEW c \in Chain, BatchStep(c) PROVE TypeOK'
    BY <2>1, BatchStepTyped
  <2>2. ASSUME NEW c \in Chain, CallStep(c) PROVE TypeOK'
    <3>1. batch[c].first \in Nat
      BY DEF Batch
    <3> QED
      BY <2>2, <3>1, TrackerStepTyped DEF CallStep, tables
  <2>3. ASSUME NEW c \in Chain, NewBlock(c) PROVE TypeOK'
    <3>1. TrackerTypeOK'
      BY <2>3 DEF NewBlock, trackerVars, TrackerTypeOK
    <3>2. head' \in [Chain -> FirstHead .. MaxHead]
      BY <2>3, HeadAssumption DEF NewBlock
    <3> QED
      BY <2>3, <3>1, <3>2 DEF NewBlock, tables
  <2>4. CASE Health \/ Environment \/ Restart
    BY <2>4, TrackerOtherTyped DEF Health, Environment, Restart, engineVars, tables
  <2>5. CASE Crash
    <3>1. NoBatch \in Batch
      BY DEF NoBatch, Batch
    <3> QED
      BY <2>5, <3>1, TrackerOtherTyped DEF Crash, tables, Stages
  <2>6. CASE UNCHANGED vars
    BY <2>6 DEF vars, trackerVars, engineVars, tables, TrackerTypeOK
  <2> QED
    BY <2>1, <2>2, <2>3, <2>4, <2>5, <2>6 DEF Next
<1> QED
  BY <1>1, <1>2, PTL DEF Spec

-----------------------------------------------------------------------------
(* A goroutine touches its own chain only.                                 *)

OtherChainKept(d) ==
  /\ redis'[d] = redis[d] /\ db'[d] = db[d] /\ call'[d] = call[d]
  /\ stage'[d] = stage[d] /\ batch'[d] = batch[d] /\ origin'[d] = origin[d]
  /\ blocks'[d] = blocks[d] /\ txs'[d] = txs[d] /\ dex'[d] = dex[d]

LEMMA BatchStepIsLocal ==
  ASSUME TypeOK, NEW c \in Chain, NEW d \in Chain, d # c, BatchStep(c)
  PROVE  OtherChainKept(d)
<1> USE DEF TypeOK, TrackerTypeOK, OtherChainKept, Local, Goto, GiveUp, AddTo,
            trackerVars, tables, storeVars, envVars
<1>1. CASE Tick(c)
  BY <1>1 DEF Tick, GetProgress, Step
<1>2. CASE PlanBatch(c)
  BY <1>2 DEF PlanBatch, Loaded
<1>3. CASE HeadFails(c)
  BY <1>3 DEF HeadFails, Loaded
<1>4. CASE Fetch(c)
  BY <1>4 DEF Fetch
<1>5. CASE FetchFails(c) \/ ExtractFails(c)
  BY <1>5 DEF FetchFails, ExtractFails
<1>6. CASE Extract(c)
  BY <1>6 DEF Extract
<1>7. CASE StoreBlocks(c)
  BY <1>7 DEF StoreBlocks
<1>8. CASE StoreTransactions(c)
  BY <1>8 DEF StoreTransactions
<1>9. CASE StoreDexData(c)
  BY <1>9 DEF StoreDexData
<1>10. CASE StoreFails(c)
  BY <1>10 DEF StoreFails
<1>11. CASE CommitBatch(c)
  BY <1>11 DEF CommitBatch, UpdateProgress
<1>12. CASE EndBatch(c)
  BY <1>12 DEF EndBatch
<1> QED
  BY <1>1, <1>2, <1>3, <1>4, <1>5, <1>6, <1>7, <1>8, <1>9, <1>10, <1>11, <1>12
     DEF BatchStep

LEMMA CallStepIsLocal ==
  ASSUME TypeOK, NEW c \in Chain, NEW d \in Chain, d # c, CallStep(c)
  PROVE  OtherChainKept(d)
<1> USE DEF TypeOK, TrackerTypeOK, OtherChainKept, storeVars, tables, WriteInDoubt, Step
<1>1. redis'[d] = redis[d] /\ db'[d] = db[d] /\ call'[d] = call[d]
  BY DEF CallStep, TrackerStep, GetPrimary, GetMark, GetSecondary, UpdatePrimary,
         UpdateMark, UpdateSync, UpdateSecondary
<1> QED
  BY <1>1 DEF CallStep

-----------------------------------------------------------------------------
(* Row order.                                                              *)

RowOrderInv == \A c \in Chain : StoredSoFar(c) /\ RowsOrdered(c)

LEMMA BatchStepKeepsRowOrder ==
  ASSUME TypeOK, NEW c \in Chain, StoredSoFar(c), BatchStep(c)
  PROVE  StoredSoFar(c)' /\ (RowsOrdered(c) => RowsOrdered(c)')
<1> USE DEF TypeOK, StoredSoFar, RowsOrdered, Local, Goto, GiveUp, AddTo, tables
<1>1. CASE Tick(c)
  BY <1>1 DEF Tick
<1>2. CASE PlanBatch(c)
  BY <1>2 DEF PlanBatch, Loaded
<1>3. CASE HeadFails(c)
  BY <1>3 DEF HeadFails, Loaded
<1>4. CASE Fetch(c)
  BY <1>4 DEF Fetch
<1>5. CASE FetchFails(c) \/ ExtractFails(c)
  BY <1>5 DEF FetchFails, ExtractFails
<1>6. CASE Extract(c)
  BY <1>6 DEF Extract
<1>7. CASE StoreBlocks(c)
  BY <1>7 DEF StoreBlocks
<1>8. CASE StoreTransactions(c)
  BY <1>8 DEF StoreTransactions
<1>9. CASE StoreDexData(c)
  BY <1>9 DEF StoreDexData
<1>10. CASE StoreFails(c)
  BY <1>10 DEF StoreFails
<1>11. CASE CommitBatch(c)
  BY <1>11 DEF CommitBatch
<1>12. CASE EndBatch(c)
  BY <1>12 DEF EndBatch
<1> QED
  BY <1>1, <1>2, <1>3, <1>4, <1>5, <1>6, <1>7, <1>8, <1>9, <1>10, <1>11, <1>12
     DEF BatchStep

\* Whatever fails and wherever the process dies, no DEX row is stored before
\* its transaction and no transaction before its block.
THEOREM RowOrderHolds == Spec => []RowOrder
<1>1. Init => RowOrderInv
  BY DEF Init, RowOrderInv, StoredSoFar, RowsOrdered
<1>2. TypeOK /\ RowOrderInv /\ [Next]_vars => RowOrderInv'
  <2> SUFFICES ASSUME TypeOK, RowOrderInv, [Next]_vars, NEW d \in Chain
               PROVE  StoredSoFar(d)' /\ RowsOrdered(d)'
    BY DEF RowOrderInv
  <2>1. StoredSoFar(d) /\ RowsOrdered(d)
    BY DEF RowOrderInv
  <2>2. ASSUME OtherChainKept(d) PROVE StoredSoFar(d)' /\ RowsOrdered(d)'
    BY <2>1, <2>2 DEF OtherChainKept, StoredSoFar, RowsOrdered
  <2>3. ASSUME NEW c \in Chain, BatchStep(c) PROVE StoredSoFar(d)' /\ RowsOrdered(d)'
    BY <2>1, <2>2, <2>3, BatchStepIsLocal, BatchStepKeepsRowOrder
  <2>4. ASSUME UNCHANGED <<tables, stage, batch>>
        PROVE  StoredSoFar(d)' /\ RowsOrdered(d)'
    BY <2>1, <2>4 DEF tables, StoredSoFar, RowsOrdered
  <2>5. ASSUME NEW c \in Chain, CallStep(c) \/ NewBlock(c)
        PROVE  StoredSoFar(d)' /\ RowsOrdered(d)'
    BY <2>4, <2>5 DEF CallStep, NewBlock
  <2>6. CASE Health \/ Environment \/ Restart \/ UNCHANGED vars
    BY <2>4, <2>6 DEF Health, Environment, Restart, vars, engineVars
  <2>7. CASE Crash
    BY <2>1, <2>7 DEF Crash, tables, StoredSoFar, RowsOrdered
  <2> QED
    BY <2>3, <2>5, <2>6, <2>7 DEF Next
<1>3. RowOrderInv => RowOrder
  BY DEF RowOrderInv, RowOrder
<1> QED
  BY <1>1, <1>2, <1>3, TypeCorrect, PTL DEF Spec

-----------------------------------------------------------------------------
(* No gap below a stored position.                                         *)

\* Rows are only ever added, so what is covered stays covered.
LEMMA IngestedGrows ==
  ASSUME TypeOK, NEW c \in Chain, [Next]_vars
  PROVE  Ingested(c) \subseteq Ingested(c)'
<1> USE DEF TypeOK, Ingested, Local, AddTo, tables
<1>1. ASSUME NEW b \in Chain, BatchStep(b) PROVE Ingested(c) \subseteq Ingested(c)'
  BY <1>1 DEF BatchStep, Tick, PlanBatch, HeadFails, Loaded, Fetch, FetchFails, Extract,
              ExtractFails, StoreBlocks, StoreTransactions, StoreDexData, StoreFails,
              CommitBatch, EndBatch
<1>2. ASSUME NEW b \in Chain, CallStep(b) \/ NewBlock(b)
      PROVE  Ingested(c) \subseteq Ingested(c)'
  BY <1>2 DEF CallStep, NewBlock
<1>3. CASE Health \/ Environment \/ Restart \/ Crash \/ UNCHANGED vars
  BY <1>3 DEF Health, Environment, Restart, Crash, vars, engineVars
<1> QED
  BY <1>1, <1>2, <1>3 DEF Next

LEMMA ChainKept ==
  ASSUME NEW d \in Chain, ChainCovered(d), OtherChainKept(d)
  PROVE  ChainCovered(d)'
BY DEF OtherChainKept, ChainCovered, CallMatchesStage, Fetched, StoredSoFar,
       BelowBatchCovered, RecordsCovered, OriginIsStart, Covered, Ingested

\* The tables hold the whole range of a batch that reaches its commit.
LEMMA CommittedRangeCovered ==
  ASSUME TypeOK, NEW c \in Chain, ChainCovered(c), stage[c] \in {"commit", "save"}
  PROVE  Covered(c, batch[c].last)
<1>1. /\ (StartBlock[c] .. batch[c].first - 1) \subseteq Ingested(c)
      /\ (batch[c].first .. batch[c].last) \subseteq Ingested(c)
  BY DEF ChainCovered, BelowBatchCovered, Fetched, StoredSoFar, Ingested
<1>2. batch[c].first \in Nat /\ batch[c].last \in Nat /\ StartBlock[c] \in Nat
  BY StartBlockAssumption DEF TypeOK, Batch
<1> QED
  BY <1>1, <1>2 DEF Covered

\* A step of the batch leaves the call in the stage it belongs to.
LEMMA BatchStepMatches ==
  ASSUME TypeOK, NEW c \in Chain, CallMatchesStage(c), BatchStep(c)
  PROVE  CallMatchesStage(c)'
<1> USE DEF TypeOK, TrackerTypeOK, Local, Goto, GiveUp, tables, trackerVars, storeVars,
            CallMatchesStage, GetSteps, UpdateSteps, CallState
<1>1. CASE Tick(c)
  BY <1>1 DEF Tick, GetProgress, Step
<1>2. CASE PlanBatch(c) \/ HeadFails(c)
  BY <1>2 DEF PlanBatch, HeadFails, Loaded, NoCall
<1>3. CASE Fetch(c)
  BY <1>3 DEF Fetch
<1>4. CASE \/ FetchFails(c) \/ Extract(c) \/ ExtractFails(c) \/ StoreBlocks(c)
           \/ StoreTransactions(c) \/ StoreDexData(c) \/ StoreFails(c)
  BY <1>4 DEF FetchFails, Extract, ExtractFails, StoreBlocks, StoreTransactions,
              StoreDexData, StoreFails
<1>5. CASE CommitBatch(c)
  BY <1>5 DEF CommitBatch, UpdateProgress
<1>6. CASE EndBatch(c)
  BY <1>6 DEF EndBatch, NoCall
<1> QED
  BY <1>1, <1>2, <1>3, <1>4, <1>5, <1>6 DEF BatchStep

LEMMA BatchStepKeepsCover ==
  ASSUME "skip" \notin Faults, NEW c \in Chain, StartBlock[c] > 0,
         TypeOK, ChainCovered(c), BatchStep(c)
  PROVE  ChainCovered(c)'
<1> USE DEF TypeOK, TrackerTypeOK, Local, Goto, GiveUp, tables, trackerVars, storeVars
<1>0. Ingested(c) \subseteq Ingested(c)'
  BY IngestedGrows DEF Next
<1>1. CallMatchesStage(c)'
  BY BatchStepMatches DEF ChainCovered
<1>2. Fetched(c)' /\ BelowBatchCovered(c)'
  <2> USE DEF Fetched, BelowBatchCovered
  <2>0. Fetched(c) /\ BelowBatchCovered(c)
    BY DEF ChainCovered
  <2>1. CASE Tick(c)
    BY <2>1 DEF Tick
  <2>2. CASE PlanBatch(c) /\ stage'[c] = "fetch"
    <3>1. batch'[c].first = RangeStart(c, Progress(c), head[c])
      BY <2>2 DEF PlanBatch
    <3>2. Progress(c) = 0 => batch'[c].first = StartBlock[c]
      BY <3>1 DEF RangeStart
    <3>3. Progress(c) # 0 => batch'[c].first = Progress(c) + 1 /\ call[c].pc = "got"
      BY <3>1 DEF RangeStart, Progress
    <3>4. Progress(c) \in Nat /\ StartBlock[c] \in Nat
      BY StartBlockAssumption DEF Progress, CallState
    <3>5. Progress(c) # 0 => (StartBlock[c] .. Progress(c)) \subseteq Ingested(c)
      BY <3>3 DEF ChainCovered, RecordsCovered, Covered, Progress
    <3>6. (StartBlock[c] .. batch'[c].first - 1) \subseteq Ingested(c)
      BY <3>2, <3>3, <3>4, <3>5
    <3> QED
      BY <1>0, <2>2, <3>6
  <2>3. CASE (PlanBatch(c) /\ stage'[c] # "fetch") \/ HeadFails(c)
    BY <2>3 DEF PlanBatch, HeadFails, Loaded
  <2>4. CASE Fetch(c)
    <3>1. Fetchable(c) = {batch[c].first .. batch[c].last}
      BY DEF Fetchable
    <3>2. CASE stage'[c] = "idle"
      BY <3>2
    <3>3. CASE stage'[c] # "idle"
      <4>1. batch' = [batch EXCEPT ![c].fetched = batch[c].first .. batch[c].last]
        BY <2>4, <3>1, <3>3 DEF Fetch
      <4> QED
        BY <1>0, <2>0, <2>4, <4>1 DEF Fetch, Batch
    <3> QED
      BY <3>2, <3>3
  <2>5. CASE FetchFails(c) \/ ExtractFails(c) \/ StoreFails(c) \/ EndBatch(c)
    BY <2>5 DEF FetchFails, ExtractFails, StoreFails, EndBatch
  <2>6. CASE \/ Extract(c) \/ StoreBlocks(c) \/ StoreTransactions(c)
             \/ StoreDexData(c) \/ CommitBatch(c)
    BY <1>0, <2>0, <2>6
       DEF Extract, StoreBlocks, StoreTransactions, StoreDexData, CommitBatch
  <2> QED
    BY <2>1, <2>2, <2>3, <2>4, <2>5, <2>6 DEF BatchStep
<1>3. redis' = redis /\ db' = db /\ origin' = origin
  BY DEF BatchStep, Tick, GetProgress, PlanBatch, HeadFails, Loaded, Fetch, FetchFails,
         Extract, ExtractFails, StoreBlocks, StoreTransactions, StoreDexData, StoreFails,
         CommitBatch, UpdateProgress, EndBatch
<1>4. call'[c].pc \notin {"getMarkUp", "got"}
  <2>1. CASE Tick(c)
    BY <2>1 DEF Tick, GetProgress, Step
  <2>2. CASE ~Tick(c)
    <3>1. stage'[c] # "load"
      <4>1. CASE stage[c] = "load"
        BY <2>2, <4>1 DEF BatchStep, PlanBatch, HeadFails, Fetch, FetchFails, Extract,
             ExtractFails, StoreBlocks, StoreTransactions, StoreDexData, StoreFails,
             CommitBatch, EndBatch
      <4>2. CASE stage[c] # "load"
        BY <2>2, <4>2 DEF BatchStep, PlanBatch, HeadFails, Loaded, Fetch, FetchFails, Extract,
             ExtractFails, StoreBlocks, StoreTransactions, StoreDexData, StoreFails,
             CommitBatch, EndBatch
      <4> QED
        BY <4>1, <4>2
    <3> QED
      BY <1>1, <3>1 DEF CallMatchesStage, GetSteps
  <2> QED
    BY <2>1, <2>2
<1>5. RecordsCovered(c)'
  BY <1>0, <1>3, <1>4 DEF ChainCovered, RecordsCovered, Covered
<1>6. OriginIsStart(c)'
  <2>1. CASE origin[c] = StartBlock[c]
    BY <1>3, <2>1 DEF OriginIsStart
  <2>2. CASE origin[c] # StartBlock[c]
    <3>1. /\ origin[c] = 0 /\ redis[c] = 0 /\ db[c] = 0
          /\ call[c].pc \in {"getMarkUp", "got"} => call[c].block = 0
          /\ stage[c] \notin {"idle", "load"} => batch[c].first = StartBlock[c]
      BY <2>2 DEF ChainCovered, OriginIsStart
    <3>2. stage'[c] \notin {"idle", "load"} => batch'[c].first = StartBlock[c]
      <4>1. CASE PlanBatch(c)
        <5>1. Progress(c) = 0
          BY <3>1 DEF Progress
        <5> QED
          BY <4>1, <5>1 DEF PlanBatch, RangeStart
      <4>2. CASE Tick(c) \/ HeadFails(c)
        BY <4>2 DEF Tick, HeadFails
      <4>3. CASE Fetch(c)
        BY <3>1, <4>3 DEF Fetch, Batch
      <4>4. CASE FetchFails(c) \/ ExtractFails(c) \/ StoreFails(c) \/ EndBatch(c)
        BY <4>4 DEF FetchFails, ExtractFails, StoreFails, EndBatch
      <4>5. CASE \/ Extract(c) \/ StoreBlocks(c) \/ StoreTransactions(c)
                 \/ StoreDexData(c) \/ CommitBatch(c)
        BY <3>1, <4>5
           DEF Extract, StoreBlocks, StoreTransactions, StoreDexData, CommitBatch
      <4> QED
        BY <4>1, <4>2, <4>3, <4>4, <4>5 DEF BatchStep
    <3> QED
      BY <1>3, <1>4, <3>1, <3>2 DEF OriginIsStart
  <2> QED
    BY <2>1, <2>2
<1>7. StoredSoFar(c)'
  BY BatchStepKeepsRowOrder DEF ChainCovered
<1> QED
  BY <1>1, <1>2, <1>5, <1>6, <1>7 DEF ChainCovered

\* What one step of a call does to it: it stays a load, which may take over the
\* record of either store, or it stays the same save.
LEMMA CallMoves ==
  ASSUME TrackerTypeOK, NEW c \in Chain, TrackerStep(c)
  PROVE  \/ /\ call[c].pc \in GetSteps
            /\ call'[c].pc \in GetSteps \cup {"got", "gotErr"}
            /\ call'[c].pc \in {"getMarkUp", "got"} =>
                 \/ call'[c].block \in {redis[c], db[c]}
                 \/ /\ call'[c].block = call[c].block
                    /\ call[c].pc \in {"getMarkUp", "got"}
         \/ /\ call[c].pc \in UpdateSteps
            /\ call'[c].pc \in UpdateSteps \cup {"acked", "failed"}
            /\ call'[c].block = call[c].block
<1> USE DEF TrackerTypeOK, CallState, GetSteps, UpdateSteps
<1>1. CASE GetPrimary(c)
  <2>1. CASE redisUp
    BY <1>1, <2>1 DEF GetPrimary
  <2>2. CASE ~redisUp
    BY <1>1, <2>2 DEF GetPrimary
  <2> QED
    BY <2>1, <2>2
<1>0. ASSUME NEW from, NEW to, Step(c, from, to)
      PROVE  call[c].pc = from /\ call'[c].pc = to /\ call'[c].block = call[c].block
  BY <1>0 DEF Step
<1>2. CASE GetMark(c)
  <2>1. CASE Step(c, "getMarkUp", "got")
    BY <1>0, <2>1
  <2>2. CASE Step(c, "getMarkDown", "getSecondary")
    BY <1>0, <2>2
  <2> QED
    BY <1>2, <2>1, <2>2 DEF GetMark
<1>3. CASE GetSecondary(c)
  <2>1. CASE dbUp
    BY <1>3, <2>1 DEF GetSecondary
  <2>2. CASE ~dbUp
    BY <1>3, <2>2 DEF GetSecondary
  <2> QED
    BY <2>1, <2>2
<1>4. CASE UpdatePrimary(c)
  BY <1>4 DEF UpdatePrimary, Step
<1>5. CASE UpdateMark(c)
  <2>1. \/ \E to \in {"updSync", "acked"} : Step(c, "updMarkUp", to)
        \/ Step(c, "updMarkDown", "updSecondary")
    BY <1>5, Zenon DEF UpdateMark
  <2> QED
    BY <1>0, <2>1
<1>6. CASE UpdateSync(c)
  BY <1>6 DEF UpdateSync, Step
<1>7. CASE UpdateSecondary(c)
  BY <1>7 DEF UpdateSecondary, Step
<1> QED
  BY <1>1, <1>2, <1>3, <1>4, <1>5, <1>6, <1>7 DEF TrackerStep

LEMMA CallStepMatches ==
  ASSUME TypeOK, NEW c \in Chain, CallMatchesStage(c), CallStep(c)
  PROVE  CallMatchesStage(c)'
<1>1. GetSteps \cap (UpdateSteps \cup {"acked", "failed"}) = {}
      /\ UpdateSteps \cap (GetSteps \cup {"got", "gotErr"}) = {}
      /\ {"acked", "failed"} \cap (GetSteps \cup {"got", "gotErr"}) = {}
  BY DEF GetSteps, UpdateSteps
<1>2. UNCHANGED <<stage, batch>> /\ TrackerStep(c)
  BY DEF CallStep
<1> QED
  BY <1>1, <1>2, CallMoves DEF CallMatchesStage, TypeOK

LEMMA CallStepKeepsCover ==
  ASSUME NEW c \in Chain, StartBlock[c] > 0, TypeOK, ChainCovered(c), CallStep(c)
  PROVE  ChainCovered(c)'
<1> USE DEF TypeOK, TrackerTypeOK, storeVars, tables
<1>1. UNCHANGED <<tables, stage, batch>> /\ TrackerStep(c)
  BY DEF CallStep
<1>2. CallMatchesStage(c)'
  BY CallStepMatches DEF ChainCovered
<1>3. Fetched(c)' /\ BelowBatchCovered(c)' /\ StoredSoFar(c)'
  BY <1>1 DEF ChainCovered, Fetched, BelowBatchCovered, StoredSoFar, Ingested
<1>4. /\ redis'[c] # redis[c] => stage[c] = "save" /\ redis'[c] = batch[c].last
      /\ db'[c] # db[c] => stage[c] = "save" /\ db'[c] = batch[c].last
  <2>1. CASE GetPrimary(c) \/ GetMark(c) \/ GetSecondary(c)
    BY <2>1 DEF GetPrimary, GetMark, GetSecondary
  <2>2. CASE UpdatePrimary(c) \/ UpdateMark(c) \/ UpdateSync(c) \/ UpdateSecondary(c)
    BY <2>2 DEF ChainCovered, CallMatchesStage, UpdatePrimary, UpdateMark, UpdateSync,
                UpdateSecondary, Step, WriteInDoubt, UpdateSteps
  <2> QED
    BY <1>1, <2>1, <2>2 DEF TrackerStep
<1>5. call'[c].pc \in {"getMarkUp", "got"} =>
        \/ call'[c].block \in {redis[c], db[c]}
        \/ call'[c].block = call[c].block /\ call[c].pc \in {"getMarkUp", "got"}
  BY <1>1, CallMoves DEF UpdateSteps
<1>6. RecordsCovered(c)'
  <2>1. \A p : Covered(c, p) => Covered(c, p)'
    BY <1>1 DEF Covered, Ingested
  <2>2. stage[c] = "save" => Covered(c, batch[c].last)
    BY CommittedRangeCovered
  <2> QED
    BY <1>4, <1>5, <2>1, <2>2 DEF ChainCovered, RecordsCovered, Covered, Ingested
<1>7. OriginIsStart(c)'
  <2>1. origin'[c] = IF origin[c] = 0 /\ (redis'[c] # 0 \/ db'[c] # 0)
                     THEN batch[c].first ELSE origin[c]
    BY DEF CallStep
  <2> QED
    BY <1>1, <1>4, <1>5, <2>1 DEF ChainCovered, OriginIsStart
<1> QED
  BY <1>2, <1>3, <1>6, <1>7 DEF ChainCovered

\* Steps of the environment, the health check and a crash keep the cover: a
\* store may lose records or a call, never gain an uncovered position.
LEMMA OtherStepKeepsCover ==
  ASSUME NEW d \in Chain, TypeOK, ChainCovered(d),
         \/ Health \/ Environment \/ Restart \/ Crash \/ UNCHANGED vars
         \/ \E c \in Chain : NewBlock(c)
  PROVE  ChainCovered(d)'
<1> USE DEF ChainCovered, CallMatchesStage, Fetched, StoredSoFar, BelowBatchCovered,
            RecordsCovered, OriginIsStart, Covered, Ingested, tables, storeVars, envVars
<1>1. CASE Health
  BY <1>1 DEF Health, HealthProbe, HealthMark, engineVars
<1>2. CASE Environment
  BY <1>2 DEF Environment, TrackerEnv, RedisOutage, RedisLosesData, DBOutage, engineVars
<1>3. CASE Restart
  BY <1>3 DEF Restart, TrackerRestart, engineVars
<1>4. CASE Crash
  BY <1>4 DEF Crash, TrackerCrash, NoCall, GetSteps, UpdateSteps
<1>5. CASE UNCHANGED vars \/ \E c \in Chain : NewBlock(c)
  BY <1>5 DEF vars, NewBlock, trackerVars, engineVars
<1> QED
  BY <1>1, <1>2, <1>3, <1>4, <1>5

\* With a configured start block and a processor that fetches what it is asked
\* for, the tables cover whatever a store holds, a load brings or a batch is
\* about to record, in every step of every call and batch.
THEOREM CoverIsKept ==
  ASSUME "skip" \notin Faults, \A c \in Chain : StartBlock[c] > 0
  PROVE  Spec => []NoGapInv
<1>1. Init => NoGapInv
  <2> SUFFICES ASSUME Init, NEW c \in Chain PROVE ChainCovered(c)
    BY DEF NoGapInv
  <2>1. /\ call[c].pc = "none" /\ stage[c] = "idle"
        /\ redis[c] = 0 /\ db[c] = 0 /\ origin[c] = 0
    BY DEF Init, TrackerInit, NoCall
  <2> QED
    BY <2>1 DEF ChainCovered, CallMatchesStage, Fetched, StoredSoFar, BelowBatchCovered,
                RecordsCovered, OriginIsStart, Covered, GetSteps, UpdateSteps
<1>2. TypeOK /\ NoGapInv /\ [Next]_vars => NoGapInv'
  <2> SUFFICES ASSUME TypeOK, NoGapInv, [Next]_vars, NEW d \in Chain
               PROVE  ChainCovered(d)'
    BY DEF NoGapInv
  <2>1. ChainCovered(d)
    BY DEF NoGapInv
  <2>2. ASSUME NEW c \in Chain, BatchStep(c) PROVE ChainCovered(d)'
    BY <2>1, <2>2, BatchStepIsLocal, BatchStepKeepsCover, ChainKept
  <2>3. ASSUME NEW c \in Chain, CallStep(c) PROVE ChainCovered(d)'
    BY <2>1, <2>3, CallStepIsLocal, CallStepKeepsCover, ChainKept
  <2>4. CASE \/ Health \/ Environment \/ Restart \/ Crash \/ UNCHANGED vars
             \/ \E c \in Chain : NewBlock(c)
    BY <2>1, <2>4, OtherStepKeepsCover
  <2> QED
    BY <2>2, <2>3, <2>4 DEF Next
<1> QED
  BY <1>1, <1>2, TypeCorrect, PTL DEF Spec

\* So no crash, outage, loss of Redis's data or failing call ever leaves a gap
\* below a position that a progress store holds.
THEOREM NoGapHolds ==
  ASSUME "skip" \notin Faults, \A c \in Chain : StartBlock[c] > 0
  PROVE  Spec => []NoGap
<1>1. NoGapInv => NoGap
  BY DEF NoGapInv, NoGap, ChainCovered, RecordsCovered, OriginIsStart, Covered
<1> QED
  BY <1>1, CoverIsKept, PTL

-----------------------------------------------------------------------------
(* A Redis that answers and keeps its data: nothing is processed twice     *)
(* without a reason, and the tables cover what was recorded wherever the    *)
(* chain started.                                                           *)

Reliable == "redis" \notin Faults /\ "redisLoss" \notin Faults

HealthySteps == {"none", "getPrimary", "getMarkUp", "got",
                 "updPrimary", "updMarkUp", "updSync", "acked"}

\* The range in progress has not been recorded.
Unrecorded(c) ==
  \/ stage[c] \in {"fetch", "extract", "storeBlocks", "storeTxs", "storeDex", "commit"}
  \/ call[c].pc = "updPrimary"

\* A call reads the record as it is and writes the end of its range; a range
\* that is not recorded begins right behind the record.
BehindNext(c) ==
  /\ CallMatchesStage(c) /\ call[c].pc \in HealthySteps
  /\ call[c].pc \in {"getMarkUp", "got"} => call[c].block = redis[c]
  /\ call[c].pc \in {"updMarkUp", "updSync", "acked"} => call[c].block = redis[c]
  /\ Unrecorded(c) =>
       /\ redis[c] < batch[c].first /\ batch[c].first <= batch[c].last
       /\ redis[c] # 0 => batch[c].first = redis[c] + 1
  /\ batch[c].fetched \subseteq batch[c].first .. batch[c].last

RedisIsAhead ==
  /\ redisUp /\ primaryHealthy /\ probe # "down"
  /\ \A c \in Chain : BehindNext(c)

\* What was recorded, in either store, is covered from the first range on.
CoveredFromOrigin(c) ==
  /\ Fetched(c) /\ StoredSoFar(c)
  /\ origin[c] # 0 <=> redis[c] # 0
  /\ db[c] # 0 => redis[c] # 0
  /\ (origin[c] .. redis[c]) \subseteq Ingested(c) \/ redis[c] = 0
  /\ (origin[c] .. db[c]) \subseteq Ingested(c) \/ db[c] = 0

AllCoveredFromOrigin == \A c \in Chain : CoveredFromOrigin(c)

LEMMA OtherChainBehind ==
  ASSUME NEW d \in Chain, BehindNext(d), OtherChainKept(d)
  PROVE  BehindNext(d)'
BY DEF OtherChainKept, BehindNext, CallMatchesStage, Unrecorded

\* An unconfigured chain starts above block 0.
LEMMA RangeAhead ==
  ASSUME TypeOK, NEW c \in Chain, NEW p \in Nat
  PROVE  /\ RangeStart(c, p, head[c]) \in Nat
         /\ p < RangeStart(c, p, head[c])
         /\ p # 0 => RangeStart(c, p, head[c]) = p + 1
<1>1. head[c] \in Nat /\ FirstHead <= head[c]
  BY HeadAssumption DEF TypeOK
<1> QED
  BY <1>1, HeadAssumption, StartBlockAssumption DEF RangeStart

LEMMA BatchStepStaysBehind ==
  ASSUME TypeOK, NEW c \in Chain, primaryHealthy, BehindNext(c), BatchStep(c)
  PROVE  BehindNext(c)'
<1> USE DEF TypeOK, TrackerTypeOK, Local, Goto, GiveUp, tables, trackerVars, storeVars
<1>0. CallMatchesStage(c)' /\ CallMatchesStage(c)
  BY BatchStepMatches DEF BehindNext
<1>1. CASE Tick(c)
  <2>1. call'[c].pc = "getPrimary" /\ stage'[c] = "load" /\ batch' = batch
    BY <1>1 DEF Tick, GetProgress, Step
  <2> QED
    BY <1>0, <2>1 DEF BehindNext, HealthySteps, Unrecorded
<1>2. CASE PlanBatch(c) /\ stage'[c] = "fetch"
  <2>1. /\ call[c].pc = "got" /\ redis' = redis /\ call'[c] = NoCall
        /\ Progress(c) = redis[c]
    BY <1>2 DEF PlanBatch, Loaded, BehindNext, Progress, HealthySteps
  <2>2. /\ batch'[c].first = RangeStart(c, Progress(c), head[c])
        /\ batch'[c].first < batch'[c].last /\ batch'[c].fetched = {}
    BY <1>2 DEF PlanBatch
  <2>3. batch'[c].first \in Nat /\ batch'[c].last \in Int
    BY <2>1, <2>2, RangeAhead, BatchStepTyped DEF Batch
  <2>4. redis[c] \in Nat
    OBVIOUS
  <2>5. /\ redis[c] < batch'[c].first
        /\ redis[c] # 0 => batch'[c].first = redis[c] + 1
    BY <2>1, <2>2, <2>4, RangeAhead
  <2> QED
    BY <1>0, <2>1, <2>2, <2>3, <2>5 DEF BehindNext, HealthySteps, NoCall
<1>3. CASE \/ PlanBatch(c) /\ stage'[c] # "fetch"
           \/ HeadFails(c) \/ EndBatch(c)
  <2>1. stage'[c] = "idle" /\ batch'[c] = NoBatch /\ call'[c] = NoCall
    BY <1>3 DEF PlanBatch, HeadFails, EndBatch, Loaded
  <2> QED
    BY <1>0, <2>1 DEF BehindNext, HealthySteps, Unrecorded, NoBatch, NoCall
<1>4. CASE Fetch(c) /\ stage'[c] = "extract"
  <2>1. PICK got \in Fetchable(c) : batch' = [batch EXCEPT ![c].fetched = got]
    BY <1>4 DEF Fetch
  <2>2. /\ batch'[c].first = batch[c].first /\ batch'[c].last = batch[c].last
        /\ batch'[c].fetched \subseteq batch[c].first .. batch[c].last
    BY <2>1 DEF Fetchable, Batch
  <2>3. UNCHANGED <<redis, call>> /\ Unrecorded(c)
    BY <1>4 DEF Fetch, Unrecorded
  <2> QED
    BY <1>0, <2>2, <2>3 DEF BehindNext
<1>5. CASE \/ Fetch(c) /\ stage'[c] # "extract"
           \/ FetchFails(c) \/ ExtractFails(c) \/ StoreFails(c)
  <2>1. stage'[c] = "idle" /\ batch'[c] = NoBatch /\ UNCHANGED <<redis, call>>
    BY <1>5 DEF Fetch, FetchFails, ExtractFails, StoreFails
  <2>2. stage[c] \notin {"load", "save"}
    BY <1>5 DEF Fetch, FetchFails, ExtractFails, StoreFails
  <2> QED
    BY <1>0, <2>1, <2>2
       DEF BehindNext, HealthySteps, Unrecorded, NoBatch, CallMatchesStage, GetSteps, UpdateSteps
<1>6. CASE Extract(c) \/ StoreBlocks(c) \/ StoreTransactions(c) \/ StoreDexData(c)
  <2>1. UNCHANGED <<redis, call, batch>> /\ Unrecorded(c)
    BY <1>6 DEF Extract, StoreBlocks, StoreTransactions, StoreDexData, Unrecorded
  <2> QED
    BY <1>0, <2>1 DEF BehindNext
<1>7. CASE CommitBatch(c)
  <2>1. /\ call'[c].pc = "updPrimary" /\ UNCHANGED <<redis, batch>>
        /\ Unrecorded(c)
    BY <1>7 DEF CommitBatch, UpdateProgress, Unrecorded
  <2> QED
    BY <1>0, <2>1 DEF BehindNext, HealthySteps
<1> QED
  <2>1. PlanBatch(c) => stage'[c] \in {"fetch", "idle"}
    BY DEF PlanBatch
  <2> QED
    BY <1>1, <1>2, <1>3, <1>4, <1>5, <1>6, <1>7, <2>1 DEF BatchStep

LEMMA BatchStepKeepsHealth ==
  ASSUME NEW c \in Chain, BatchStep(c)
  PROVE  UNCHANGED <<redisUp, primaryHealthy, probe>>
BY DEF BatchStep, Tick, GetProgress, PlanBatch, HeadFails, Loaded, Fetch, FetchFails,
       Extract, ExtractFails, StoreBlocks, StoreTransactions, StoreDexData, StoreFails,
       CommitBatch, UpdateProgress, EndBatch, Local, trackerVars, envVars

\* A call only moves forward, and a save moves the record to the end of the
\* range it saves.
LEMMA CallStepStaysBehind ==
  ASSUME TypeOK, NEW c \in Chain, redisUp, primaryHealthy, BehindNext(c), CallStep(c)
  PROVE  /\ BehindNext(c)'
         /\ UNCHANGED <<redisUp, primaryHealthy, probe>>
         /\ \/ UNCHANGED <<redis, db>>
            \/ /\ call[c].pc = "updPrimary" /\ stage[c] = "save"
               /\ redis' = [redis EXCEPT ![c] = batch[c].last] /\ db' = db
            \/ /\ call[c].pc = "updSync" /\ redis' = redis
               /\ \/ db' = db
                  \/ db' = [db EXCEPT ![c] = redis[c]]
<1> USE DEF TypeOK, TrackerTypeOK, CallState, tables, storeVars, envVars
<1>0. CallMatchesStage(c)' /\ CallMatchesStage(c)
  BY CallStepMatches DEF BehindNext
<1>1. UNCHANGED <<stage, batch>> /\ TrackerStep(c)
  BY DEF CallStep
<1>2. CASE GetPrimary(c)
  BY <1>0, <1>1, <1>2 DEF GetPrimary, BehindNext, HealthySteps, Unrecorded
<1>3. CASE GetMark(c)
  <2>1. Step(c, "getMarkUp", "got") /\ Mark(TRUE)
        /\ UNCHANGED <<storeVars, envVars, updateCount, probe>>
    BY <1>3 DEF GetMark, Step, BehindNext, HealthySteps
  <2>2. call[c].pc = "getMarkUp" /\ call'[c].pc = "got" /\ call'[c].block = call[c].block
    BY <2>1 DEF Step
  <2>3. UNCHANGED <<redisUp, primaryHealthy, probe, redis, db>>
    BY <2>1 DEF Mark
  <2> QED
    BY <1>0, <1>1, <2>2, <2>3 DEF BehindNext, HealthySteps, Unrecorded
<1>4. CASE GetSecondary(c) \/ UpdateSecondary(c)
  BY <1>4 DEF GetSecondary, UpdateSecondary, Step, BehindNext, HealthySteps
<1>5. CASE UpdatePrimary(c)
  <2>1. /\ Step(c, "updPrimary", "updMarkUp")
        /\ redis' = [redis EXCEPT ![c] = call[c].block]
        /\ UNCHANGED <<db, envVars, primaryHealthy, updateCount, probe>>
    BY <1>5 DEF UpdatePrimary
  <2>2. call[c].pc = "updPrimary" /\ call'[c].pc = "updMarkUp" /\ call'[c].block = call[c].block
    BY <2>1 DEF Step
  <2>3. stage[c] = "save" /\ call[c].block = batch[c].last
    BY <1>0, <2>2 DEF CallMatchesStage, UpdateSteps
  <2>4. ~Unrecorded(c)'
    BY <1>1, <2>2, <2>3 DEF Unrecorded
  <2> QED
    BY <1>0, <1>1, <2>1, <2>2, <2>3, <2>4 DEF BehindNext, HealthySteps
<1>6. CASE UpdateMark(c)
  <2>1. /\ Step(c, "updMarkUp", IF call[c].sync THEN "updSync" ELSE "acked") /\ Mark(TRUE)
        /\ UNCHANGED <<storeVars, envVars, updateCount, probe>>
    BY <1>6 DEF UpdateMark, Step, BehindNext, HealthySteps
  <2>2. /\ call[c].pc = "updMarkUp" /\ call'[c].pc \in {"updSync", "acked"}
        /\ call'[c].block = call[c].block
    BY <2>1 DEF Step
  <2>3. UNCHANGED <<redisUp, primaryHealthy, probe, redis, db>>
    BY <2>1 DEF Mark
  <2>4. ~Unrecorded(c)'
    BY <1>0, <1>1, <2>2 DEF Unrecorded, CallMatchesStage, UpdateSteps
  <2> QED
    BY <1>0, <1>1, <2>2, <2>3, <2>4 DEF BehindNext, HealthySteps
<1>7. CASE UpdateSync(c)
  <2>1. /\ Step(c, "updSync", "acked")
        /\ \/ db' = db
           \/ db' = [db EXCEPT ![c] = call[c].block]
        /\ UNCHANGED <<redis, envVars, primaryHealthy, updateCount, probe>>
    BY <1>7 DEF UpdateSync, WriteInDoubt
  <2>2. call[c].pc = "updSync" /\ call'[c].pc = "acked" /\ call'[c].block = call[c].block
    BY <2>1 DEF Step
  <2>3. call[c].block = redis[c]
    BY <2>2 DEF BehindNext
  <2>4. ~Unrecorded(c)'
    BY <1>0, <1>1, <2>2 DEF Unrecorded, CallMatchesStage, UpdateSteps
  <2> QED
    BY <1>0, <1>1, <2>1, <2>2, <2>3, <2>4 DEF BehindNext, HealthySteps
<1> QED
  BY <1>1, <1>2, <1>3, <1>4, <1>5, <1>6, <1>7 DEF TrackerStep

LEMMA OtherStepStaysBehind ==
  ASSUME Reliable, TypeOK, RedisIsAhead,
         \/ Health \/ Environment \/ Restart \/ Crash \/ UNCHANGED vars
         \/ \E c \in Chain : NewBlock(c)
  PROVE  RedisIsAhead' /\ redis' = redis
<1> USE DEF RedisIsAhead, BehindNext, CallMatchesStage, Unrecorded, tables, storeVars, envVars
<1>1. CASE Health
  <2>1. /\ UNCHANGED <<redis, redisUp, call, stage, batch>>
        /\ primaryHealthy' /\ probe' # "down"
    <3>1. CASE HealthProbe
      BY <1>1, <3>1 DEF Health, HealthProbe, engineVars
    <3>2. CASE HealthMark
      <4>1. probe = "up"
        BY <3>2 DEF HealthMark, TypeOK, TrackerTypeOK
      <4> QED
        BY <1>1, <3>2, <4>1 DEF Health, HealthMark, Mark, engineVars
    <3> QED
      BY <1>1, <3>1, <3>2 DEF Health
  <2> QED
    BY <2>1
<1>2. CASE Environment
  BY <1>2 DEF Environment, TrackerEnv, RedisOutage, RedisLosesData, DBOutage, engineVars,
              Reliable
<1>3. CASE Restart
  BY <1>3 DEF Restart, TrackerRestart, Mark, engineVars
<1>4. CASE Crash
  BY <1>4 DEF Crash, TrackerCrash, NoCall, NoBatch, GetSteps, UpdateSteps, HealthySteps
<1>5. CASE UNCHANGED vars \/ \E c \in Chain : NewBlock(c)
  BY <1>5 DEF vars, NewBlock, trackerVars, engineVars
<1> QED
  BY <1>1, <1>2, <1>3, <1>4, <1>5

LEMMA RedisStaysAhead ==
  ASSUME Reliable
  PROVE  /\ Init => RedisIsAhead
         /\ TypeOK /\ RedisIsAhead /\ [Next]_vars => RedisIsAhead'
<1>1. Init => RedisIsAhead
  BY DEF Init, TrackerInit, RedisIsAhead, BehindNext, CallMatchesStage, Unrecorded, NoCall,
         NoBatch, GetSteps, UpdateSteps, HealthySteps
<1>2. ASSUME TypeOK, RedisIsAhead, [Next]_vars PROVE RedisIsAhead'
  <2>1. ASSUME NEW c \in Chain, BatchStep(c) PROVE RedisIsAhead'
    <3>1. UNCHANGED <<redisUp, primaryHealthy, probe>>
      BY <2>1, BatchStepKeepsHealth
    <3>2. ASSUME NEW d \in Chain PROVE BehindNext(d)'
      BY <1>2, <2>1, BatchStepStaysBehind, BatchStepIsLocal, OtherChainBehind DEF RedisIsAhead
    <3> QED
      BY <1>2, <3>1, <3>2 DEF RedisIsAhead
  <2>2. ASSUME NEW c \in Chain, CallStep(c) PROVE RedisIsAhead'
    <3>1. UNCHANGED <<redisUp, primaryHealthy, probe>> /\ BehindNext(c)'
      BY <1>2, <2>2, CallStepStaysBehind DEF RedisIsAhead
    <3>2. ASSUME NEW d \in Chain PROVE BehindNext(d)'
      BY <1>2, <2>2, <3>1, CallStepIsLocal, OtherChainBehind DEF RedisIsAhead
    <3> QED
      BY <1>2, <3>1, <3>2 DEF RedisIsAhead
  <2> QED
    BY <1>2, <2>1, <2>2, OtherStepStaysBehind DEF Next
<1> QED
  BY <1>1, <1>2

\* With a Redis that answers and keeps its data, what is stored a second time
\* lies above the saved position, whichever calls fail, whenever the process
\* dies, and whether or not the database answers.
THEOREM NothingIsReprocessed == Reliable => (Spec => NoReprocessing)
<1> SUFFICES ASSUME Reliable PROVE Spec => NoReprocessing
  OBVIOUS
<1>1. TypeOK /\ RedisIsAhead =>
        \A c \in Chain : StoreDexData(c) =>
          \A h \in batch[c].fetched \cap dex[c] : h > redis[c]
  <2> SUFFICES ASSUME TypeOK, RedisIsAhead, NEW c \in Chain, StoreDexData(c),
                      NEW h \in batch[c].fetched
               PROVE  h > redis[c]
    OBVIOUS
  <2>1. redis[c] < batch[c].first /\ h \in batch[c].first .. batch[c].last
    BY DEF StoreDexData, Local, RedisIsAhead, BehindNext, Unrecorded
  <2>2. redis[c] \in Nat /\ batch[c].first \in Nat
    BY DEF TypeOK, TrackerTypeOK, Batch
  <2> QED
    BY <2>1, <2>2
<1>2. Init => RedisIsAhead
  BY RedisStaysAhead
<1>3. TypeOK /\ RedisIsAhead /\ [Next]_vars => RedisIsAhead'
  BY RedisStaysAhead
<1> QED
  BY <1>1, <1>2, <1>3, TypeCorrect, PTL DEF Spec, NoReprocessing

LEMMA BatchStepKeepsFetched ==
  ASSUME "skip" \notin Faults, TypeOK, NEW c \in Chain, Fetched(c), BatchStep(c)
  PROVE  Fetched(c)'
<1> USE DEF TypeOK, Fetched, Local, Goto, GiveUp
<1>1. CASE Tick(c)
  BY <1>1 DEF Tick
<1>2. CASE PlanBatch(c) \/ HeadFails(c)
  BY <1>2 DEF PlanBatch, HeadFails, Loaded
<1>3. CASE Fetch(c)
  <2>1. Fetchable(c) = {batch[c].first .. batch[c].last}
    BY DEF Fetchable
  <2>2. CASE stage'[c] = "idle"
    BY <2>2
  <2>3. CASE stage'[c] # "idle"
    <3>1. batch' = [batch EXCEPT ![c].fetched = batch[c].first .. batch[c].last]
      BY <1>3, <2>1, <2>3 DEF Fetch
    <3> QED
      BY <3>1 DEF Batch
  <2> QED
    BY <2>2, <2>3
<1>4. CASE FetchFails(c) \/ ExtractFails(c) \/ StoreFails(c) \/ EndBatch(c)
  BY <1>4 DEF FetchFails, ExtractFails, StoreFails, EndBatch
<1>5. CASE \/ Extract(c) \/ StoreBlocks(c) \/ StoreTransactions(c)
           \/ StoreDexData(c) \/ CommitBatch(c)
  BY <1>5 DEF Extract, StoreBlocks, StoreTransactions, StoreDexData, CommitBatch
<1> QED
  BY <1>1, <1>2, <1>3, <1>4, <1>5 DEF BatchStep

LEMMA BatchStepKeepsRecords ==
  ASSUME NEW c \in Chain, BatchStep(c)
  PROVE  UNCHANGED <<redis, db, origin>>
BY DEF BatchStep, Tick, GetProgress, PlanBatch, HeadFails, Loaded, Fetch, FetchFails,
       Extract, ExtractFails, StoreBlocks, StoreTransactions, StoreDexData, StoreFails,
       CommitBatch, UpdateProgress, EndBatch, Local, trackerVars, storeVars

LEMMA OtherChainCovered ==
  ASSUME NEW d \in Chain, CoveredFromOrigin(d), OtherChainKept(d)
  PROVE  CoveredFromOrigin(d)'
BY DEF OtherChainKept, CoveredFromOrigin, Fetched, StoredSoFar, Ingested

\* A save extends what is covered by its own range, which begins right behind
\* it; the database repeats what Redis holds.
LEMMA CallStepKeepsOriginCover ==
  ASSUME TypeOK, RedisIsAhead, NEW c \in Chain, CoveredFromOrigin(c), CallStep(c)
  PROVE  CoveredFromOrigin(c)'
<1>1. /\ UNCHANGED <<tables, stage, batch>>
      /\ origin' = [origin EXCEPT ![c] = IF @ = 0 /\ (redis'[c] # 0 \/ db'[c] # 0)
                                         THEN batch[c].first ELSE @]
  BY DEF CallStep
<1>2. /\ Fetched(c)' /\ StoredSoFar(c)' /\ Ingested(c)' = Ingested(c)
  BY <1>1 DEF CoveredFromOrigin, Fetched, StoredSoFar, tables, Ingested
<1>3. /\ redis[c] \in Nat /\ db[c] \in Nat /\ origin[c] \in Nat
      /\ batch[c].first \in Nat /\ batch[c].last \in Nat
  BY DEF TypeOK, TrackerTypeOK, Batch
<1>4. origin'[c] = IF origin[c] = 0 /\ (redis'[c] # 0 \/ db'[c] # 0)
                   THEN batch[c].first ELSE origin[c]
  BY <1>1 DEF TypeOK
<1>5. /\ origin[c] # 0 <=> redis[c] # 0
      /\ db[c] # 0 => redis[c] # 0
      /\ (origin[c] .. redis[c]) \subseteq Ingested(c) \/ redis[c] = 0
      /\ (origin[c] .. db[c]) \subseteq Ingested(c) \/ db[c] = 0
  BY DEF CoveredFromOrigin
<1>6. CASE UNCHANGED <<redis, db>>
  BY <1>2, <1>4, <1>5, <1>6 DEF CoveredFromOrigin
<1>7. CASE /\ call[c].pc = "updPrimary" /\ stage[c] = "save"
           /\ redis' = [redis EXCEPT ![c] = batch[c].last] /\ db' = db
  <2>1. /\ redis[c] < batch[c].first /\ batch[c].first <= batch[c].last
        /\ redis[c] # 0 => batch[c].first = redis[c] + 1
    BY <1>7 DEF RedisIsAhead, BehindNext, Unrecorded
  <2>2. (batch[c].first .. batch[c].last) \subseteq Ingested(c)
    BY <1>7 DEF CoveredFromOrigin, Fetched, StoredSoFar, Ingested
  <2>3. redis'[c] = batch[c].last /\ db'[c] = db[c] /\ redis'[c] # 0
    BY <1>3, <1>7, <2>1 DEF TypeOK, TrackerTypeOK
  <2>4. CASE redis[c] = 0
    <3>1. origin'[c] = batch[c].first /\ origin'[c] # 0 /\ db'[c] = 0
      BY <1>3, <1>4, <1>5, <2>1, <2>3, <2>4
    <3> QED
      BY <1>2, <2>2, <2>3, <3>1 DEF CoveredFromOrigin
  <2>5. CASE redis[c] # 0
    <3>1. origin'[c] = origin[c] /\ origin'[c] # 0
      BY <1>4, <1>5, <2>5
    <3>2. (origin[c] .. batch[c].last) \subseteq Ingested(c)
      BY <1>3, <1>5, <2>1, <2>2, <2>5
    <3> QED
      BY <1>2, <1>5, <2>3, <3>1, <3>2 DEF CoveredFromOrigin
  <2> QED
    BY <2>4, <2>5
<1>8. CASE /\ redis' = redis
           /\ db' = [db EXCEPT ![c] = redis[c]]
  <2>1. db'[c] = redis[c] /\ redis'[c] = redis[c]
    BY <1>8 DEF TypeOK, TrackerTypeOK
  <2> QED
    BY <1>2, <1>4, <1>5, <2>1 DEF CoveredFromOrigin
<1> QED
  BY <1>6, <1>7, <1>8, CallStepStaysBehind DEF RedisIsAhead

LEMMA OriginStaysCovered ==
  ASSUME Reliable, "skip" \notin Faults
  PROVE  /\ Init => AllCoveredFromOrigin
         /\ TypeOK /\ RedisIsAhead /\ AllCoveredFromOrigin /\ [Next]_vars
              => AllCoveredFromOrigin'
<1>1. Init => AllCoveredFromOrigin
  BY DEF Init, TrackerInit, AllCoveredFromOrigin, CoveredFromOrigin, Fetched, StoredSoFar
<1>2. ASSUME TypeOK, RedisIsAhead, AllCoveredFromOrigin, [Next]_vars, NEW d \in Chain
      PROVE  CoveredFromOrigin(d)'
  <2>0. CoveredFromOrigin(d)
    BY <1>2 DEF AllCoveredFromOrigin
  <2>1. ASSUME NEW c \in Chain, BatchStep(c) PROVE CoveredFromOrigin(d)'
    <3>1. CASE d = c
      <4>1. Fetched(c)' /\ StoredSoFar(c)'
        BY <1>2, <2>0, <2>1, <3>1, BatchStepKeepsFetched, BatchStepKeepsRowOrder
           DEF CoveredFromOrigin
      <4>2. Ingested(c) \subseteq Ingested(c)' /\ UNCHANGED <<redis, db, origin>>
        BY <1>2, <2>1, IngestedGrows, BatchStepKeepsRecords
      <4> QED
        BY <2>0, <3>1, <4>1, <4>2 DEF CoveredFromOrigin
    <3>2. CASE d # c
      BY <1>2, <2>0, <2>1, <3>2, BatchStepIsLocal, OtherChainCovered
    <3> QED
      BY <3>1, <3>2
  <2>2. ASSUME NEW c \in Chain, CallStep(c) PROVE CoveredFromOrigin(d)'
    BY <1>2, <2>0, <2>2, CallStepKeepsOriginCover, CallStepIsLocal, OtherChainCovered
  <2>3. CASE \/ Health \/ Environment \/ Restart \/ Crash \/ UNCHANGED vars
             \/ \E c \in Chain : NewBlock(c)
    <3>1. redis' = redis
      BY <1>2, <2>3, OtherStepStaysBehind
    <3>2. db' = db /\ origin' = origin
      BY <2>3 DEF Health, HealthProbe, HealthMark, Environment, TrackerEnv, RedisOutage,
           RedisLosesData, DBOutage, Restart, TrackerRestart, Crash, TrackerCrash, vars,
           NewBlock, trackerVars, engineVars, storeVars
    <3>3. Ingested(d)' = Ingested(d)
      BY <2>3 DEF Health, Environment, Restart, Crash, vars, NewBlock, engineVars, tables,
           Ingested
    <3>4. Fetched(d)' /\ StoredSoFar(d)'
      <4>1. Fetched(d) /\ StoredSoFar(d)
        BY <2>0 DEF CoveredFromOrigin
      <4> QED
        BY <2>3, <4>1 DEF Health, Environment, Restart, Crash, vars, NewBlock, engineVars,
             tables, Fetched, StoredSoFar
    <3> QED
      BY <2>0, <3>1, <3>2, <3>3, <3>4 DEF CoveredFromOrigin
  <2> QED
    BY <1>2, <2>1, <2>2, <2>3 DEF Next
<1> QED
  BY <1>1, <1>2 DEF AllCoveredFromOrigin

\* Over such a Redis, and with a processor that skips no block, there is no gap
\* below a position either store holds, wherever a chain started: at its start
\* block or, unconfigured, behind the head it found.
THEOREM NoGapFromAnyStart ==
  ASSUME Reliable, "skip" \notin Faults
  PROVE  Spec => []NoGap
<1>1. AllCoveredFromOrigin => NoGap
  BY DEF AllCoveredFromOrigin, CoveredFromOrigin, NoGap
<1>2. Init => RedisIsAhead /\ AllCoveredFromOrigin
  BY RedisStaysAhead, OriginStaysCovered
<1>3. TypeOK /\ RedisIsAhead /\ AllCoveredFromOrigin /\ [Next]_vars
        => RedisIsAhead' /\ AllCoveredFromOrigin'
  BY RedisStaysAhead, OriginStaysCovered
<1> QED
  BY <1>1, <1>2, <1>3, TypeCorrect, PTL DEF Spec
=============================================================================
