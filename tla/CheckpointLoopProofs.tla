------------------------- MODULE CheckpointLoopProofs -------------------------
(***************************************************************************)
(* Theorems about the tracker under its load - process - save loop, for    *)
(* every set of chains and every sync interval: its types, that it stays   *)
(* usable while Redis comes and goes and keeps its progress while Redis is *)
(* down, and that with a reliable Redis it is one durable register per     *)
(* chain.                                                                  *)
(***************************************************************************)
EXTENDS CheckpointLoop, TrackerProofs

-----------------------------------------------------------------------------
(* Types.                                                                  *)

LEMMA LoopTyped == TypeOK /\ [Next]_vars => TypeOK'
<1> SUFFICES ASSUME TypeOK, [Next]_vars PROVE TypeOK'
  OBVIOUS
<1> USE DEF TypeOK
<1>1. ASSUME NEW c \in Chain, Load(c) PROVE TypeOK'
  BY <1>1, GetProgressTyped DEF Load
<1>2. ASSUME NEW c \in Chain, EndLoad(c) PROVE TypeOK'
  <2>1. call' \in [Chain -> CallState]
    BY <1>2, NoCallTyped DEF EndLoad, TrackerTypeOK
  <2>2. pos' \in [Chain -> Nat \cup {None}] /\ kept' \in [Chain -> Nat]
    BY <1>2 DEF EndLoad, TrackerTypeOK, CallState
  <2> QED
    BY <1>2, <2>1, <2>2 DEF EndLoad, TrackerTypeOK, storeVars, envVars
<1>3. ASSUME NEW c \in Chain, Save(c) PROVE TypeOK'
  <2>1. pos[c] + 1 \in Nat
    BY <1>3 DEF Save
  <2> QED
    BY <1>3, <2>1, UpdateProgressTyped DEF Save
<1>4. ASSUME NEW c \in Chain, Abandon(c) PROVE TypeOK'
  BY <1>4 DEF Abandon, TrackerTypeOK, trackerVars
<1>5. ASSUME NEW c \in Chain, EndSave(c) PROVE TypeOK'
  <2>1. call' \in [Chain -> CallState]
    BY <1>5, NoCallTyped DEF EndSave, TrackerTypeOK
  <2>2. pos' \in [Chain -> Nat \cup {None}] /\ kept' \in [Chain -> Nat]
    BY <1>5 DEF EndSave, TrackerTypeOK, CallState
  <2> QED
    BY <1>5, <2>1, <2>2 DEF EndSave, TrackerTypeOK, storeVars, envVars
<1>6. CASE Internal /\ Beside
  <2>1. kept' \in [Chain -> Nat]
    BY <1>6 DEF Beside, NoteOutage, TrackerTypeOK, CallState
  <2> QED
    BY <1>6, <2>1, TrackerStepTyped, TrackerOtherTyped DEF Internal, Beside
<1>7. CASE Crash
  BY <1>7, TrackerOtherTyped DEF Crash
<1>8. CASE Restart
  BY <1>8, TrackerOtherTyped DEF Restart
<1>9. CASE UNCHANGED vars
  BY <1>9 DEF vars, trackerVars, TrackerTypeOK
<1> QED
  BY <1>1, <1>2, <1>3, <1>4, <1>5, <1>6, <1>7, <1>8, <1>9 DEF Next

LEMMA LoopInitTyped == Init => TypeOK
BY NoCallTyped, SyncIntervalAssumption DEF Init, TypeOK, TrackerInit, TrackerTypeOK

\* The state of tracker and loop is well typed under every mix of faults.
THEOREM LoopTypeCorrect == Spec => []TypeOK
BY LoopInitTyped, LoopTyped, PTL DEF Spec

-----------------------------------------------------------------------------
(* Where a step takes a call.                                              *)

LEMMA StepGoes ==
  ASSUME call \in [Chain -> CallState], NEW c \in Chain, NEW from, NEW to, Step(c, from, to)
  PROVE  /\ call[c].pc = from /\ call'[c].pc = to
         /\ call'[c].block = call[c].block /\ call'[c].sync = call[c].sync
         /\ \A d \in Chain \ {c} : call'[d] = call[d]
BY DEF Step, CallState

\* A chain's load ends, its save ends, or its batch is given up.
LEMMA EndsGo ==
  ASSUME call \in [Chain -> CallState], NEW c \in Chain, EndLoad(c) \/ EndSave(c)
  PROVE  /\ call'[c] = NoCall /\ NoCall.pc = "none"
         /\ \A d \in Chain \ {c} : call'[d] = call[d]
BY DEF EndLoad, EndSave, NoCall

LEMMA SaveGoes ==
  ASSUME call \in [Chain -> CallState], NEW c \in Chain, Save(c)
  PROVE  /\ call[c].pc = "none"
         /\ call'[c].pc = (IF primaryHealthy THEN "updPrimary" ELSE "updSecondary")
         /\ call'[c].block = pos[c] + 1
         /\ \A d \in Chain \ {c} : call'[d] = call[d]
BY DEF Save, UpdateProgress

LEMMA GetPrimaryGoes ==
  ASSUME call \in [Chain -> CallState], NEW c \in Chain, GetPrimary(c)
  PROVE  /\ call[c].pc = "getPrimary"
         /\ redisUp => call'[c].pc = "getMarkUp" /\ call'[c].block = redis[c]
         /\ ~redisUp => call'[c].pc = "getMarkDown"
         /\ \A d \in Chain \ {c} : call'[d] = call[d]
BY DEF GetPrimary, CallState

LEMMA GetSecondaryGoes ==
  ASSUME call \in [Chain -> CallState], NEW c \in Chain, GetSecondary(c)
  PROVE  /\ call[c].pc = "getSecondary"
         /\ dbUp => call'[c].pc = "got"
         /\ \A d \in Chain \ {c} : call'[d] = call[d]
BY DEF GetSecondary, CallState

LEMMA UpdateMarkGoes ==
  ASSUME call \in [Chain -> CallState], NEW c \in Chain, UpdateMark(c)
  PROVE  /\ \/ call[c].pc = "updMarkUp" /\ call'[c].pc \in {"updSync", "acked"} /\ primaryHealthy'
            \/ call[c].pc = "updMarkDown" /\ call'[c].pc = "updSecondary"
         /\ call'[c].block = call[c].block
         /\ \A d \in Chain \ {c} : call'[d] = call[d]
<1> DEFINE after == IF call[c].sync THEN "updSync" ELSE "acked"
<1>1. CASE Step(c, "updMarkUp", after) /\ Mark(TRUE)
  <2>1. after \in {"updSync", "acked"}
    OBVIOUS
  <2> HIDE DEF after
  <2> QED
    BY <1>1, <2>1, StepGoes DEF Mark
<1>2. CASE Step(c, "updMarkDown", "updSecondary")
  BY <1>2, StepGoes
<1> QED
  BY <1>1, <1>2 DEF UpdateMark

LEMMA CrashEndsAll ==
  ASSUME TrackerCrash PROVE \A c \in Chain : call'[c] = NoCall /\ NoCall.pc = "none"
BY DEF TrackerCrash, NoCall

-----------------------------------------------------------------------------
(* Outages of Redis.                                                       *)

TolerantInv == TypeOK /\ dbUp /\ RedisOutageTolerated

\* Redis may come, go and forget, and the process may die: as long as the DB
\* answers, whatever the health flag said and whenever it was written, no load
\* and no save fails.
THEOREM RedisOutagesAreTolerated == "db" \notin Faults => (Spec => []RedisOutageTolerated)
<1> SUFFICES ASSUME "db" \notin Faults PROVE Spec => []RedisOutageTolerated
  OBVIOUS
<1>1. Init => TolerantInv
  BY LoopInitTyped DEF Init, TrackerInit, NoCall, TolerantInv, RedisOutageTolerated
<1>2. TolerantInv /\ [Next]_vars => TolerantInv'
  <2> SUFFICES ASSUME TolerantInv, [Next]_vars PROVE dbUp' /\ RedisOutageTolerated'
    BY LoopTyped DEF TolerantInv
  <2>0. call \in [Chain -> CallState] /\ dbUp /\ \A c \in Chain : call[c].pc \notin {"gotErr", "failed"}
    BY DEF TolerantInv, TypeOK, TrackerTypeOK, RedisOutageTolerated
  <2>1. ASSUME NEW c \in Chain, Load(c) \/ EndLoad(c) PROVE dbUp' /\ RedisOutageTolerated'
    <3>1. CASE Load(c)
      <4>1. call'[c].pc \in {"getPrimary", "getSecondary"} /\ \A d \in Chain \ {c} : call'[d] = call[d]
        BY <2>0, <3>1, StepGoes DEF Load, GetProgress
      <4> QED
        BY <2>0, <3>1, <4>1 DEF Load, GetProgress, envVars, RedisOutageTolerated
    <3>2. CASE EndLoad(c)
      BY <2>0, <3>2, EndsGo DEF EndLoad, envVars, RedisOutageTolerated
    <3> QED
      BY <2>1, <3>1, <3>2
  <2>2. ASSUME NEW c \in Chain, Save(c) \/ Abandon(c) \/ EndSave(c)
        PROVE  dbUp' /\ RedisOutageTolerated'
    <3>1. CASE Save(c)
      BY <2>0, <3>1, SaveGoes DEF Save, UpdateProgress, envVars, RedisOutageTolerated
    <3>2. CASE Abandon(c)
      BY <2>0, <3>2 DEF Abandon, trackerVars, RedisOutageTolerated
    <3>3. CASE EndSave(c)
      BY <2>0, <3>3, EndsGo DEF EndSave, envVars, RedisOutageTolerated
    <3> QED
      BY <2>2, <3>1, <3>2, <3>3
  <2>3. ASSUME NEW c \in Chain, TrackerStep(c) PROVE dbUp' /\ RedisOutageTolerated'
    <3> USE <2>0, StepGoes DEF envVars, RedisOutageTolerated
    <3>1. CASE GetPrimary(c)
      BY <3>1, GetPrimaryGoes DEF GetPrimary
    <3>2. CASE GetMark(c)
      <4>1. UNCHANGED <<redisUp, dbUp, up>>
        BY <3>2 DEF GetMark
      <4>2. call'[c].pc \in {"got", "getSecondary"} /\ \A d \in Chain \ {c} : call'[d] = call[d]
        BY <3>2 DEF GetMark
      <4> QED
        BY <4>1, <4>2
    <3>3. CASE GetSecondary(c)
      BY <3>3, GetSecondaryGoes DEF GetSecondary
    <3>4. CASE UpdatePrimary(c)
      BY <3>4 DEF UpdatePrimary
    <3>5. CASE UpdateMark(c)
      BY <3>5, UpdateMarkGoes DEF UpdateMark
    <3>6. CASE UpdateSync(c)
      BY <3>6 DEF UpdateSync
    <3>7. CASE UpdateSecondary(c)
      BY <3>7 DEF UpdateSecondary
    <3> QED
      BY <2>3, <3>1, <3>2, <3>3, <3>4, <3>5, <3>6, <3>7 DEF TrackerStep
  <2>4. CASE HealthProbe \/ HealthMark \/ TrackerEnv
    BY <2>0, <2>4 DEF HealthProbe, HealthMark, TrackerEnv, RedisOutage, RedisLosesData, DBOutage,
       envVars, RedisOutageTolerated
  <2>5. CASE Crash
    BY <2>0, <2>5, CrashEndsAll DEF Crash, TrackerCrash, RedisOutageTolerated
  <2>6. CASE Restart \/ UNCHANGED vars
    BY <2>0, <2>6 DEF Restart, TrackerRestart, vars, trackerVars, RedisOutageTolerated
  <2> QED
    BY <2>1, <2>2, <2>3, <2>4, <2>5, <2>6 DEF Next, Internal
<1>3. TolerantInv => RedisOutageTolerated
  BY DEF TolerantInv
<1> QED
  BY <1>1, <1>2, <1>3, PTL DEF Spec

-----------------------------------------------------------------------------
(* A Redis that neither stops nor forgets: a register.                     *)

\* Where a goroutine's call is, what it holds and what the register has.
Holds(c) ==
  LET pc == call[c].pc
  IN  \/ pc = "none" /\ pos[c] \in {None, redis[c]}
      \/ pc = "getPrimary" /\ pos[c] = None
      \/ pc \in {"getMarkUp", "got"} /\ pos[c] = None /\ call[c].block = redis[c]
      \/ pc = "updPrimary" /\ pos[c] = redis[c] /\ call[c].block = redis[c] + 1
      \/ pc \in {"updMarkUp", "updSync", "acked"} /\ pos[c] # None /\ call[c].block = redis[c]

\* While Redis answers and forgets nothing, nobody ever marks it down.
RegisterInv ==
  /\ TypeOK
  /\ redisUp /\ primaryHealthy /\ probe # "down"
  /\ \A c \in Chain : Holds(c)

Reliable == "redis" \notin Faults /\ "redisLoss" \notin Faults

\* What the register's loop holds of a chain.
LoadedOf(c) ==
  IF call[c].pc \in {"getMarkUp", "got"} THEN call[c].block
  ELSE IF call[c].pc \in {"none", "updPrimary"} THEN pos[c] ELSE None

\* A step that leaves Redis and what every loop holds alone is a stutter, one
\* that changes a single chain a step of that chain.
LEMMA RegisterStutters ==
  ASSUME redis' = redis, \A c \in Chain : LoadedOf(c)' = LoadedOf(c)
  PROVE  UNCHANGED Register!rvars
BY DEF Register!rvars, LoadedOf

LEMMA RegisterLoads ==
  ASSUME NEW c \in Chain, redis' = redis, LoadedOf(c) = None, LoadedOf(c)' = redis[c],
         \A d \in Chain \ {c} : LoadedOf(d)' = LoadedOf(d)
  PROVE  Register!Next
BY DEF Register!Next, Register!Load, LoadedOf

LEMMA RegisterSaves ==
  ASSUME NEW c \in Chain, LoadedOf(c) # None, LoadedOf(c)' = None,
         redis' = [redis EXCEPT ![c] = LoadedOf(c) + 1],
         \A d \in Chain \ {c} : LoadedOf(d)' = LoadedOf(d)
  PROVE  Register!Next
BY DEF Register!Next, Register!Save, LoadedOf

LEMMA RegisterGivesUp ==
  ASSUME NEW S \in SUBSET Chain, redis' = redis, 
         \A c \in Chain : LoadedOf(c)' = IF c \in S THEN None ELSE LoadedOf(c)
  PROVE  Register!Next
BY DEF Register!Next, Register!GiveUp, LoadedOf

\* The other chains are where they were.
LEMMA OthersHold ==
  ASSUME NEW d \in Chain, call'[d] = call[d], pos'[d] = pos[d], redis'[d] = redis[d]
  PROVE  /\ LoadedOf(d)' = LoadedOf(d)
         /\ Holds(d) => Holds(d)'
BY DEF LoadedOf, Holds

LEMMA RegisterStep ==
  ASSUME Reliable, RegisterInv, [Next]_vars
  PROVE  RegisterInv' /\ [Register!Next]_(Register!rvars)
<1>0. /\ call \in [Chain -> CallState] /\ redis \in [Chain -> Nat]
      /\ pos \in [Chain -> Nat \cup {None}]
      /\ redisUp /\ primaryHealthy /\ probe # "down" /\ None \notin Nat
      /\ \A c \in Chain : Holds(c)
  BY NoneAssumption DEF RegisterInv, TypeOK, TrackerTypeOK
<1>1. TypeOK'
  BY LoopTyped DEF RegisterInv
<1> DEFINE Kept == /\ redisUp' /\ primaryHealthy' /\ probe' # "down"
                   /\ \A c \in Chain : Holds(c)'
           Mapped == [Register!Next]_(Register!rvars)
<1>2. ASSUME NEW c \in Chain, Load(c) PROVE Kept /\ Mapped
  <2>1. /\ call[c].pc = "none" /\ call'[c].pc = "getPrimary" /\ pos[c] = None
        /\ \A d \in Chain \ {c} : call'[d] = call[d]
    BY <1>0, <1>2, StepGoes DEF Load, GetProgress
  <2>2. UNCHANGED <<redis, redisUp, primaryHealthy, probe, pos>>
    BY <1>2 DEF Load, GetProgress, storeVars, envVars
  <2>3. LoadedOf(c)' = LoadedOf(c) /\ Holds(c)'
    BY <2>1, <2>2 DEF LoadedOf, Holds
  <2> QED
    BY <1>0, <2>1, <2>2, <2>3, OthersHold, RegisterStutters
<1>3. ASSUME NEW c \in Chain, EndLoad(c) PROVE Kept /\ Mapped
  <2>1. /\ call[c].pc = "got" /\ pos'[c] = call[c].block /\ call[c].block = redis[c]
        /\ call'[c].pc = "none"
        /\ \A d \in Chain \ {c} : call'[d] = call[d] /\ pos'[d] = pos[d]
    BY <1>0, <1>3, EndsGo DEF EndLoad, Holds
  <2>2. UNCHANGED <<redis, redisUp, primaryHealthy, probe>>
    BY <1>3 DEF EndLoad, storeVars, envVars
  <2>3. LoadedOf(c)' = LoadedOf(c) /\ Holds(c)'
    BY <2>1, <2>2 DEF LoadedOf, Holds
  <2> QED
    BY <1>0, <2>1, <2>2, <2>3, OthersHold, RegisterStutters
<1>4. ASSUME NEW c \in Chain, Save(c) PROVE Kept /\ Mapped
  <2>1. /\ call[c].pc = "none" /\ call'[c].pc = "updPrimary" /\ call'[c].block = pos[c] + 1
        /\ \A d \in Chain \ {c} : call'[d] = call[d]
    BY <1>0, <1>4, SaveGoes
  <2>2. UNCHANGED <<redis, redisUp, primaryHealthy, probe, pos>> /\ pos[c] # None
    BY <1>4 DEF Save, UpdateProgress, storeVars, envVars
  <2>3. LoadedOf(c)' = LoadedOf(c) /\ Holds(c)'
    BY <1>0, <2>1, <2>2 DEF LoadedOf, Holds
  <2> QED
    BY <1>0, <2>1, <2>2, <2>3, OthersHold, RegisterStutters
<1>5. ASSUME NEW c \in Chain, Abandon(c) PROVE Kept /\ Mapped
  <2>1. /\ call[c].pc = "none" /\ pos'[c] = None /\ call' = call
        /\ \A d \in Chain \ {c} : pos'[d] = pos[d]
        /\ UNCHANGED <<redis, redisUp, primaryHealthy, probe>>
    BY <1>0, <1>5 DEF Abandon, trackerVars
  <2>2. LoadedOf(c)' = None /\ Holds(c)'
    BY <2>1 DEF LoadedOf, Holds
  <2>3. \A d \in Chain : LoadedOf(d)' = IF d \in {c} THEN None ELSE LoadedOf(d)
    BY <2>1, <2>2, OthersHold
  <2> QED
    BY <1>0, <2>1, <2>2, <2>3, OthersHold, RegisterGivesUp
<1>6. ASSUME NEW c \in Chain, EndSave(c) PROVE Kept /\ Mapped
  <2>1. /\ call[c].pc = "acked" /\ call[c].block = redis[c]
        /\ call'[c].pc = "none" /\ pos'[c] = None
        /\ \A d \in Chain \ {c} : call'[d] = call[d] /\ pos'[d] = pos[d]
    BY <1>0, <1>6, EndsGo DEF EndSave, Holds
  <2>2. UNCHANGED <<redis, redisUp, primaryHealthy, probe>>
    BY <1>6 DEF EndSave, storeVars, envVars
  <2>3. LoadedOf(c)' = LoadedOf(c) /\ Holds(c)'
    BY <1>0, <2>1, <2>2 DEF LoadedOf, Holds
  <2> QED
    BY <1>0, <2>1, <2>2, <2>3, OthersHold, RegisterStutters
<1>7. ASSUME NEW c \in Chain, TrackerStep(c), UNCHANGED pos PROVE Kept /\ Mapped
  <2> DEFINE Others == \A d \in Chain \ {c} : call'[d] = call[d] /\ redis'[d] = redis[d]
             pc == call[c].pc
  <2>1. \/ pc = "none" \/ pc = "getPrimary" \/ pc \in {"getMarkUp", "got"} \/ pc = "updPrimary"
        \/ pc \in {"updMarkUp", "updSync", "acked"}
    BY <1>0 DEF Holds
  <2>2. redisUp' /\ primaryHealthy' /\ probe' # "down" /\ UNCHANGED <<redisUp, probe>>
    <3>1. UNCHANGED <<redisUp, probe>>
      BY <1>7 DEF TrackerStep, GetPrimary, GetMark, GetSecondary, UpdatePrimary, UpdateMark,
         UpdateSync, UpdateSecondary, envVars
    <3>2. CASE GetMark(c)
      BY <1>0, <2>1, <3>1, <3>2 DEF GetMark, Step, Mark
    <3>3. CASE UpdateMark(c)
      BY <1>0, <2>1, <3>1, <3>3, UpdateMarkGoes
    <3>4. CASE UNCHANGED primaryHealthy
      BY <1>0, <3>1, <3>4
    <3> QED
      BY <1>7, <3>2, <3>3, <3>4 DEF TrackerStep, GetPrimary, GetSecondary, UpdatePrimary,
         UpdateSync, UpdateSecondary
  <2>3. CASE GetPrimary(c)
    <3>1. /\ pc = "getPrimary" /\ call'[c].pc = "getMarkUp" /\ call'[c].block = redis[c]
          /\ Others /\ redis' = redis
      BY <1>0, <2>3, GetPrimaryGoes DEF GetPrimary, storeVars
    <3>2. LoadedOf(c) = None /\ LoadedOf(c)' = redis[c] /\ Holds(c)'
      BY <1>0, <1>7, <3>1 DEF LoadedOf, Holds
    <3> QED
      BY <1>0, <1>7, <2>2, <3>1, <3>2, OthersHold, RegisterLoads
  <2>4. CASE GetMark(c)
    <3>1. /\ pc = "getMarkUp" /\ call'[c].pc = "got" /\ call'[c].block = call[c].block
          /\ Others /\ redis' = redis
      <4>1. Step(c, "getMarkUp", "got") /\ redis' = redis
        BY <2>1, <2>4 DEF GetMark, Step, storeVars
      <4> QED
        BY <1>0, <4>1, StepGoes
    <3>2. LoadedOf(c)' = LoadedOf(c) /\ Holds(c)'
      BY <1>0, <1>7, <3>1 DEF LoadedOf, Holds
    <3> QED
      BY <1>0, <1>7, <2>2, <3>1, <3>2, OthersHold, RegisterStutters
  <2>5. CASE GetSecondary(c)
    BY <2>1, <2>5 DEF GetSecondary
  <2>6. CASE UpdatePrimary(c)
    <3>1. /\ pc = "updPrimary" /\ call'[c].pc = "updMarkUp" /\ call'[c].block = call[c].block
          /\ redis' = [redis EXCEPT ![c] = call[c].block]
          /\ \A d \in Chain \ {c} : call'[d] = call[d]
      BY <1>0, <2>6, StepGoes DEF UpdatePrimary
    <3>2. pos[c] = redis[c] /\ call[c].block = redis[c] + 1 /\ redis[c] \in Nat
      BY <1>0, <3>1 DEF Holds
    <3>3. /\ LoadedOf(c) = redis[c] /\ LoadedOf(c)' = None /\ Holds(c)' /\ redis'[c] = redis[c] + 1
      BY <1>0, <1>7, <3>1, <3>2 DEF LoadedOf, Holds
    <3>5. \A d \in Chain \ {c} : redis'[d] = redis[d] /\ LoadedOf(d)' = LoadedOf(d) /\ Holds(d)'
      BY <1>0, <1>7, <3>1, OthersHold
    <3>6. Register!Next
      BY <1>0, <3>1, <3>2, <3>3, <3>5, RegisterSaves
    <3> QED
      BY <2>2, <3>3, <3>5, <3>6
  <2>7. CASE UpdateMark(c)
    <3>1. /\ pc = "updMarkUp" /\ call'[c].pc \in {"updSync", "acked"}
          /\ call'[c].block = call[c].block /\ Others /\ redis' = redis
      BY <1>0, <2>1, <2>7, UpdateMarkGoes DEF UpdateMark, storeVars
    <3>2. LoadedOf(c)' = LoadedOf(c) /\ Holds(c)'
      BY <1>0, <1>7, <3>1 DEF LoadedOf, Holds
    <3> QED
      BY <1>0, <1>7, <2>2, <3>1, <3>2, OthersHold, RegisterStutters
  <2>8. CASE UpdateSync(c)
    <3>1. /\ pc = "updSync" /\ call'[c].pc = "acked" /\ call'[c].block = call[c].block
          /\ Others /\ redis' = redis
      BY <1>0, <2>8, StepGoes DEF UpdateSync
    <3>2. LoadedOf(c)' = LoadedOf(c) /\ Holds(c)'
      BY <1>0, <1>7, <3>1 DEF LoadedOf, Holds
    <3> QED
      BY <1>0, <1>7, <2>2, <3>1, <3>2, OthersHold, RegisterStutters
  <2>9. CASE UpdateSecondary(c)
    BY <1>0, <2>1, <2>9, StepGoes DEF UpdateSecondary
  <2> HIDE DEF Kept, Mapped
  <2> QED
    BY <1>7, <2>3, <2>4, <2>5, <2>6, <2>7, <2>8, <2>9 DEF TrackerStep
<1>8. ASSUME HealthProbe \/ HealthMark \/ TrackerEnv \/ Restart, UNCHANGED pos
      PROVE  Kept /\ Mapped
  <2>1. UNCHANGED <<call, redis>>
    BY <1>8 DEF HealthProbe, HealthMark, TrackerEnv, RedisOutage, RedisLosesData, DBOutage, Restart,
       TrackerRestart, storeVars, Reliable
  <2>2. redisUp' /\ primaryHealthy' /\ probe' # "down"
    BY <1>0, <1>8 DEF HealthProbe, HealthMark, TrackerEnv, RedisOutage, RedisLosesData, DBOutage,
       Restart, TrackerRestart, Mark, envVars, Reliable, RegisterInv, TypeOK, TrackerTypeOK
  <2> QED
    BY <1>0, <1>8, <2>1, <2>2, OthersHold, RegisterStutters
<1>9. ASSUME Crash PROVE Kept /\ Mapped
  <2>1. /\ \A c \in Chain : call'[c].pc = "none" /\ pos'[c] = None
        /\ UNCHANGED <<redis, redisUp, primaryHealthy>> /\ probe' = "idle"
    BY <1>9, CrashEndsAll DEF Crash, TrackerCrash, storeVars
  <2>2. \A c \in Chain : LoadedOf(c)' = None /\ Holds(c)'
    BY <2>1 DEF LoadedOf, Holds
  <2>3. Register!Next
    BY <2>1, <2>2, RegisterGivesUp
  <2>4. Kept
    BY <1>0, <2>1, <2>2
  <2> HIDE DEF Kept
  <2> QED
    BY <2>3, <2>4
<1>10. ASSUME UNCHANGED vars PROVE Kept /\ Mapped
  <2>1. /\ call' = call /\ redis' = redis /\ pos' = pos
        /\ redisUp' = redisUp /\ primaryHealthy' = primaryHealthy /\ probe' = probe
    BY <1>10 DEF vars, trackerVars
  <2>2. \A c \in Chain : LoadedOf(c)' = LoadedOf(c) /\ Holds(c)'
    BY <1>0, <2>1, OthersHold
  <2>3. UNCHANGED Register!rvars
    BY <2>1, <2>2, RegisterStutters
  <2>4. Kept
    BY <1>0, <2>1, <2>2
  <2> HIDE DEF Kept
  <2> QED
    BY <2>3, <2>4
<1>11. Kept /\ Mapped
  <2> HIDE DEF Kept, Mapped
  <2>1. ASSUME NEW c \in Chain, Load(c) \/ EndLoad(c) \/ Save(c) \/ Abandon(c) \/ EndSave(c)
        PROVE  Kept /\ Mapped
    BY <2>1, <1>2, <1>3, <1>4, <1>5, <1>6
  <2>2. CASE Internal /\ Beside
    BY <2>2, <1>7, <1>8 DEF Internal, Beside
  <2>3. CASE Restart
    BY <2>3, <1>8 DEF Restart
  <2> QED
    BY <2>1, <2>2, <2>3, <1>9, <1>10 DEF Next
<1> QED
  BY <1>1, <1>11 DEF RegisterInv

LEMMA RegisterStarts == Init => RegisterInv /\ Register!Init
<1> SUFFICES ASSUME Init PROVE RegisterInv /\ Register!Init
  OBVIOUS
<1>1. /\ redis = [c \in Chain |-> 0] /\ redisUp /\ primaryHealthy /\ probe = "idle"
      /\ \A c \in Chain : call[c].pc = "none" /\ pos[c] = None
  BY DEF Init, TrackerInit, NoCall
<1> QED
  BY <1>1, LoopInitTyped DEF RegisterInv, Holds, Register!Init

\* A tracker whose Redis neither stops nor forgets is, for its callers, one
\* durable register per chain, whatever the DB and the process go through.
THEOREM TrackerIsARegister == Reliable => (Spec => ImplementsRegister)
<1> SUFFICES ASSUME Reliable PROVE Spec => ImplementsRegister
  OBVIOUS
<1>1. RegisterInv /\ [Next]_vars => RegisterInv' /\ [Register!Next]_(Register!rvars)
  BY RegisterStep
<1> QED
  BY <1>1, RegisterStarts, PTL DEF Spec, ImplementsRegister, Register!Spec

-----------------------------------------------------------------------------
(* Progress in an outage of Redis.                                         *)

\* Where a chain with kept progress has it: in the DB, and in whatever the
\* goroutine has loaded or is about to write.
Keeps(c) ==
  kept[c] # 0 =>
    /\ db[c] >= kept[c]
    /\ call[c].pc # "getMarkUp"
    /\ call[c].pc = "none" /\ pos[c] # None => pos[c] >= kept[c]
    /\ call[c].pc \in UpdateSteps \cup {"got"} => call[c].block >= kept[c]

OutageInv ==
  /\ TypeOK
  /\ redisUp => \A c \in Chain : kept[c] = 0
  /\ \A c \in Chain : Keeps(c)

LEMMA KeepsAsItWas ==
  ASSUME NEW c \in Chain, Keeps(c), kept'[c] \in {0, kept[c]}, call'[c] = call[c],
         db'[c] = db[c], pos'[c] \in {pos[c], None}
  PROVE  Keeps(c)'
BY DEF Keeps

\* A step of another chain's call does not reach this one's row.
LEMMA OthersKeep ==
  ASSUME TypeOK, NEW c \in Chain, TrackerStep(c), Beside, NEW d \in Chain \ {c}
  PROVE  call'[d] = call[d] /\ db'[d] = db[d] /\ pos'[d] = pos[d] /\ kept'[d] \in {0, kept[d]}
<1>1. call \in [Chain -> CallState] /\ db \in [Chain -> Nat]
  BY DEF TypeOK, TrackerTypeOK
<1>2. call'[d] = call[d]
  BY <1>1 DEF TrackerStep, GetPrimary, GetMark, GetSecondary, UpdatePrimary, UpdateMark,
     UpdateSync, UpdateSecondary, Step
<1>3. db'[d] = db[d]
  BY <1>1 DEF TrackerStep, GetPrimary, GetMark, GetSecondary, UpdatePrimary, UpdateMark,
     UpdateSync, UpdateSecondary, WriteInDoubt, storeVars
<1>4. kept'[d] \in {0, kept[d]}
  BY <1>2 DEF Beside, NoteOutage
<1> QED
  BY <1>2, <1>3, <1>4 DEF Beside

\* The chain's own call: what it writes is not behind what is kept, and what it
\* reads is the DB's row.
LEMMA CallKeeps ==
  ASSUME OutageInv, NEW c \in Chain, TrackerStep(c), Beside
  PROVE  Keeps(c)'
<1>0. /\ call \in [Chain -> CallState] /\ db \in [Chain -> Nat] /\ kept \in [Chain -> Nat]
      /\ Keeps(c) /\ (redisUp => kept[c] = 0) /\ pos' = pos
      /\ call[c].block \in Nat
  BY DEF OutageInv, TypeOK, TrackerTypeOK, Beside, CallState
<1>1. redisUp' = redisUp
  BY DEF TrackerStep, GetPrimary, GetMark, GetSecondary, UpdatePrimary, UpdateMark, UpdateSync,
     UpdateSecondary, envVars
<1>2. kept'[c] = IF redisUp THEN 0
                 ELSE IF call[c].pc = "updSecondary" /\ call'[c].pc = "acked" THEN call[c].block
                 ELSE kept[c]
  BY <1>1 DEF Beside, NoteOutage
<1>3. CASE redisUp
  BY <1>2, <1>3 DEF Keeps
<1>4. CASE ~redisUp
  <2> USE <1>0, <1>2, <1>4 DEF Keeps, UpdateSteps
  <2>1. CASE GetPrimary(c)
    <3>1. call'[c].pc = "getMarkDown" /\ db' = db /\ call[c].pc = "getPrimary"
      BY <2>1, GetPrimaryGoes DEF GetPrimary, storeVars
    <3> QED
      BY <3>1
  <2>2. CASE GetMark(c)
    <3>1. /\ db' = db
          /\ \/ call[c].pc = "getMarkUp"
             \/ call[c].pc = "getMarkDown" /\ call'[c].pc = "getSecondary"
      BY <2>2, StepGoes DEF GetMark, storeVars
    <3> QED
      BY <3>1
  <2>3. CASE GetSecondary(c)
    <3>1. /\ db' = db /\ call[c].pc = "getSecondary"
          /\ \/ call'[c].pc = "gotErr"
             \/ call'[c].pc = "got" /\ call'[c].block = db[c]
      BY <2>3 DEF GetSecondary, storeVars, CallState
    <3> QED
      BY <3>1
  <2>4. CASE UpdatePrimary(c)
    <3>1. /\ db' = db /\ call[c].pc = "updPrimary" /\ call'[c].pc = "updMarkDown"
          /\ call'[c].block = call[c].block
      BY <2>4, StepGoes DEF UpdatePrimary
    <3> QED
      BY <3>1
  <2>5. CASE UpdateMark(c)
    <3>1. /\ db' = db /\ call[c].pc \in {"updMarkUp", "updMarkDown"}
          /\ call'[c].pc \in {"updSync", "acked", "updSecondary"} /\ call'[c].block = call[c].block
      BY <2>5, UpdateMarkGoes DEF UpdateMark, storeVars
    <3> QED
      BY <3>1
  <2>6. CASE UpdateSync(c)
    <3>1. /\ call[c].pc = "updSync" /\ call'[c].pc = "acked"
          /\ db'[c] \in {db[c], call[c].block}
      BY <2>6, StepGoes DEF UpdateSync, WriteInDoubt
    <3> QED
      BY <3>1
  <2>7. CASE UpdateSecondary(c)
    <3>1. call[c].pc = "updSecondary"
      BY <2>7, StepGoes DEF UpdateSecondary
    <3>2. \/ call'[c].pc = "acked" /\ db'[c] = call[c].block
          \/ call'[c].pc = "failed" /\ db'[c] \in {db[c], call[c].block}
      BY <2>7, StepGoes DEF UpdateSecondary, WriteInDoubt
    <3> QED
      BY <3>1, <3>2
  <2> QED
    BY <2>1, <2>2, <2>3, <2>4, <2>5, <2>6, <2>7 DEF TrackerStep
<1> QED
  BY <1>3, <1>4

LEMMA OutageStep == OutageInv /\ [Next]_vars => OutageInv'
<1> SUFFICES ASSUME OutageInv, [Next]_vars PROVE OutageInv'
  OBVIOUS
<1>0. /\ TypeOK /\ call \in [Chain -> CallState] /\ kept \in [Chain -> Nat]
      /\ pos \in [Chain -> Nat \cup {None}] /\ None \notin Nat
      /\ \A c \in Chain : Keeps(c)
      /\ redisUp => \A c \in Chain : kept[c] = 0
  BY NoneAssumption DEF OutageInv, TypeOK, TrackerTypeOK
<1>1. TypeOK'
  BY <1>0, LoopTyped
<1> DEFINE Kept == /\ redisUp' => \A c \in Chain : kept'[c] = 0
                   /\ \A c \in Chain : Keeps(c)'
<1>2. ASSUME NEW c \in Chain, Load(c) PROVE Kept
  <2>1. /\ call'[c].pc \in {"getPrimary", "getSecondary"}
        /\ \A d \in Chain \ {c} : call'[d] = call[d]
    BY <1>0, <1>2, StepGoes DEF Load, GetProgress
  <2>2. UNCHANGED <<db, redisUp, pos, kept>>
    BY <1>2 DEF Load, GetProgress, storeVars, envVars
  <2>3. Keeps(c)'
    BY <1>0, <2>1, <2>2 DEF Keeps, UpdateSteps
  <2> QED
    BY <1>0, <2>1, <2>2, <2>3, KeepsAsItWas
<1>3. ASSUME NEW c \in Chain, EndLoad(c) PROVE Kept
  <2>1. /\ call'[c].pc = "none" /\ \A d \in Chain \ {c} : call'[d] = call[d] /\ pos'[d] = pos[d]
        /\ \/ call[c].pc = "got" /\ kept' = kept /\ pos'[c] = call[c].block
           \/ kept'[c] = 0 /\ \A d \in Chain \ {c} : kept'[d] = kept[d]
    BY <1>0, <1>3, EndsGo DEF EndLoad
  <2>2. UNCHANGED <<db, redisUp>>
    BY <1>3 DEF EndLoad, storeVars, envVars
  <2>3. Keeps(c)'
    BY <1>0, <2>1, <2>2 DEF Keeps, UpdateSteps
  <2> QED
    BY <1>0, <2>1, <2>2, <2>3, KeepsAsItWas
<1>4. ASSUME NEW c \in Chain, Save(c) PROVE Kept
  <2>1. /\ call[c].pc = "none" /\ call'[c].pc \in UpdateSteps /\ call'[c].block = pos[c] + 1
        /\ \A d \in Chain \ {c} : call'[d] = call[d]
    BY <1>0, <1>4, SaveGoes DEF UpdateSteps
  <2>2. UNCHANGED <<db, redisUp, pos, kept>> /\ pos[c] # None
    BY <1>4 DEF Save, UpdateProgress, storeVars, envVars
  <2>3. Keeps(c)'
    BY <1>0, <2>1, <2>2 DEF Keeps, UpdateSteps
  <2> QED
    BY <1>0, <2>1, <2>2, <2>3, KeepsAsItWas
<1>5. ASSUME NEW c \in Chain, Abandon(c) PROVE Kept
  BY <1>0, <1>5, KeepsAsItWas DEF Abandon, trackerVars
<1>6. ASSUME NEW c \in Chain, EndSave(c) PROVE Kept
  <2>1. /\ call'[c].pc = "none" /\ pos'[c] = None
        /\ \A d \in Chain \ {c} : call'[d] = call[d] /\ pos'[d] = pos[d]
    BY <1>0, <1>6, EndsGo DEF EndSave
  <2>2. UNCHANGED <<db, redisUp, kept>>
    BY <1>6 DEF EndSave, storeVars, envVars
  <2>3. Keeps(c)'
    BY <1>0, <2>1, <2>2 DEF Keeps, UpdateSteps
  <2> QED
    BY <1>0, <2>1, <2>2, <2>3, KeepsAsItWas
<1>7. ASSUME NEW c \in Chain, TrackerStep(c), Beside PROVE Kept
  <2>1. redisUp' => \A d \in Chain : kept'[d] = 0
    BY <1>7 DEF Beside, NoteOutage
  <2>2. Keeps(c)'
    BY <1>7, CallKeeps
  <2> QED
    BY <1>0, <1>7, <2>1, <2>2, OthersKeep, KeepsAsItWas
<1>8. ASSUME HealthProbe \/ HealthMark \/ TrackerEnv, Beside PROVE Kept
  <2>1. UNCHANGED <<call, db, pos>>
    BY <1>8 DEF HealthProbe, HealthMark, TrackerEnv, RedisOutage, RedisLosesData, DBOutage,
       storeVars, Beside
  <2>2. kept' = [c \in Chain |-> IF redisUp' THEN 0 ELSE kept[c]]
    BY <1>8, <2>1 DEF Beside, NoteOutage
  <2> QED
    BY <1>0, <2>1, <2>2, KeepsAsItWas
<1>9. ASSUME Crash PROVE Kept
  <2>1. /\ \A c \in Chain : call'[c].pc = "none" /\ pos'[c] = None
        /\ UNCHANGED <<db, redisUp, kept>>
    BY <1>9, CrashEndsAll DEF Crash, TrackerCrash, storeVars
  <2>2. \A c \in Chain : Keeps(c)'
    BY <1>0, <2>1 DEF Keeps, UpdateSteps
  <2> QED
    BY <1>0, <2>1, <2>2
<1>10. ASSUME Restart \/ UNCHANGED vars PROVE Kept
  <2>1. UNCHANGED <<call, db, redisUp, pos, kept>>
    BY <1>10 DEF Restart, TrackerRestart, storeVars, vars, trackerVars
  <2> QED
    BY <1>0, <2>1, KeepsAsItWas
<1>11. Kept
  <2> HIDE DEF Kept
  <2> QED
    BY <1>2, <1>3, <1>4, <1>5, <1>6, <1>7, <1>8, <1>9, <1>10 DEF Next, Internal
<1> QED
  BY <1>1, <1>11 DEF OutageInv

\* While Redis is down no load returns less than the DB took of the chain in
\* that outage: whatever else fails, the DB and the process included, and
\* however often.  Nothing is assumed of the faults.
THEOREM OutageProgressIsKept == Spec => []ProgressKeptInOutage
<1>1. Init => OutageInv
  BY LoopInitTyped DEF Init, OutageInv, Keeps
<1>2. OutageInv => ProgressKeptInOutage
  <2> SUFFICES ASSUME OutageInv, NEW c \in Chain, call[c].pc = "got"
               PROVE  call[c].block >= kept[c]
    BY DEF ProgressKeptInOutage
  <2>1. call[c].block \in Nat /\ kept[c] \in Nat /\ Keeps(c)
    BY DEF OutageInv, TypeOK, TrackerTypeOK, CallState
  <2> QED
    BY <2>1 DEF Keeps
<1> QED
  BY <1>1, <1>2, OutageStep, PTL DEF Spec
=============================================================================
