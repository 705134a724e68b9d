---------------------------- MODULE TrackerProofs ----------------------------
(***************************************************************************)
(* Every operation of the progress tracker keeps its state well typed: the *)
(* lemmas the proofs about the tracker's callers start from.               *)
(***************************************************************************)
EXTENDS FallbackTracker, TLAPS

LEMMA StepKeepsCalls ==
  ASSUME call \in [Chain -> CallState], NEW c \in Chain,
         NEW from, NEW to \in {"none"} \cup GetSteps \cup UpdateSteps \cup Results,
         Step(c, from, to)
  PROVE  call' \in [Chain -> CallState]
BY DEF Step, CallState

LEMMA InDoubtWriteTyped ==
  ASSUME NEW c \in Chain, call \in [Chain -> CallState]
  PROVE  /\ redis \in [Chain -> Nat] /\ WriteInDoubt(redis, c) => redis' \in [Chain -> Nat]
         /\ db \in [Chain -> Nat] /\ WriteInDoubt(db, c) => db' \in [Chain -> Nat]
BY DEF WriteInDoubt, CallState

LEMMA TrackerStepTyped ==
  ASSUME TrackerTypeOK, NEW c \in Chain, TrackerStep(c)
  PROVE  TrackerTypeOK'
<1> USE DEF TrackerTypeOK, storeVars, envVars, Mark
<1>1. CASE GetPrimary(c)
  BY <1>1 DEF GetPrimary, CallState, GetSteps
<1>2. CASE GetMark(c)
  BY <1>2, StepKeepsCalls DEF GetMark, GetSteps, Results
<1>3. CASE GetSecondary(c)
  BY <1>3 DEF GetSecondary, CallState, Results
<1>4. CASE UpdatePrimary(c)
  <2>1. call' \in [Chain -> CallState]
    BY <1>4, StepKeepsCalls DEF UpdatePrimary, UpdateSteps
  <2>2. redis' \in [Chain -> Nat]
    BY <1>4, InDoubtWriteTyped DEF UpdatePrimary, CallState
  <2> QED
    BY <1>4, <2>1, <2>2 DEF UpdatePrimary
<1>5. CASE UpdateMark(c)
  BY <1>5, StepKeepsCalls DEF UpdateMark, UpdateSteps, Results
<1>6. CASE UpdateSync(c)
  <2>1. call' \in [Chain -> CallState]
    BY <1>6, StepKeepsCalls DEF UpdateSync, Results
  <2>2. db' \in [Chain -> Nat]
    BY <1>6, InDoubtWriteTyped DEF UpdateSync, CallState
  <2> QED
    BY <1>6, <2>1, <2>2 DEF UpdateSync
<1>7. CASE UpdateSecondary(c)
  <2>1. call' \in [Chain -> CallState]
    BY <1>7, StepKeepsCalls DEF UpdateSecondary, Results
  <2>2. db' \in [Chain -> Nat]
    BY <1>7, InDoubtWriteTyped DEF UpdateSecondary, CallState
  <2> QED
    BY <1>7, <2>1, <2>2 DEF UpdateSecondary
<1> QED
  BY <1>1, <1>2, <1>3, <1>4, <1>5, <1>6, <1>7 DEF TrackerStep

LEMMA NoCallTyped == NoCall \in CallState
BY DEF NoCall, CallState

LEMMA TrackerOtherTyped ==
  ASSUME TrackerTypeOK,
         HealthProbe \/ HealthMark \/ TrackerEnv \/ TrackerCrash \/ TrackerRestart
  PROVE  TrackerTypeOK'
<1> USE DEF TrackerTypeOK, storeVars, envVars, Mark
<1>1. CASE HealthProbe
  BY <1>1 DEF HealthProbe
<1>2. CASE HealthMark
  <2>1. primaryHealthy' \in BOOLEAN
    BY <1>2, Zenon DEF HealthMark
  <2> QED
    BY <1>2, <2>1 DEF HealthMark
<1>3. CASE TrackerEnv
  <2>1. redisUp' \in BOOLEAN /\ dbUp' \in BOOLEAN
    BY <1>3, Zenon DEF TrackerEnv, RedisOutage, RedisLosesData, DBOutage
  <2>2. redis' \in [Chain -> Nat]
    BY <1>3 DEF TrackerEnv, RedisOutage, RedisLosesData, DBOutage
  <2>3. /\ db' \in [Chain -> Nat] /\ up' \in BOOLEAN /\ primaryHealthy' \in BOOLEAN
        /\ updateCount' \in 0 .. SyncInterval - 1
        /\ probe' \in {"idle", "up", "down"} /\ call' \in [Chain -> CallState]
    BY <1>3, Zenon DEF TrackerEnv, RedisOutage, RedisLosesData, DBOutage
  <2> QED
    BY <2>1, <2>2, <2>3
<1>4. CASE TrackerCrash
  <2>1. call' \in [Chain -> CallState] /\ updateCount' \in 0 .. SyncInterval - 1
    BY <1>4, NoCallTyped, SyncIntervalAssumption DEF TrackerCrash
  <2> QED
    BY <1>4, <2>1, Zenon DEF TrackerCrash
<1>5. CASE TrackerRestart
  BY <1>5 DEF TrackerRestart
<1> QED
  BY <1>1, <1>2, <1>3, <1>4, <1>5

LEMMA GetProgressTyped ==
  ASSUME TrackerTypeOK, NEW c \in Chain, GetProgress(c)
  PROVE  TrackerTypeOK'
BY StepKeepsCalls DEF GetProgress, TrackerTypeOK, storeVars, envVars, GetSteps

LEMMA UpdateProgressTyped ==
  ASSUME TrackerTypeOK, NEW c \in Chain, NEW n \in Nat, UpdateProgress(c, n)
  PROVE  TrackerTypeOK'
<1>1. ShouldSync(updateCount + 1) \in BOOLEAN
  BY DEF ShouldSync
<1>2. updateCount' \in 0 .. SyncInterval - 1
  BY SyncIntervalAssumption DEF UpdateProgress, TrackerTypeOK
<1>3. call' \in [Chain -> CallState]
  BY <1>1 DEF UpdateProgress, TrackerTypeOK, CallState, UpdateSteps
<1> QED
  BY <1>2, <1>3 DEF UpdateProgress, TrackerTypeOK, storeVars, envVars
=============================================================================
