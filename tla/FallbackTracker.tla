--------------------------- MODULE FallbackTracker ---------------------------
(***************************************************************************)
(* The progress tracker of the parser process: FallbackProgressTracker     *)
(* wrapping a Redis tracker (primary) and a database tracker (secondary),  *)
(* with its background health check, and the environment it survives.      *)
(*                                                                         *)
(* The module holds the tracker's state and one action per step of a call; *)
(* it has no caller of its own.  CheckpointLoop and Engine add the caller. *)
(*                                                                         *)
(* A progress record is abstracted to its LastProcessedBlock: 0 is both    *)
(* the record of a chain never processed and what either store returns     *)
(* when it has no record at all.                                           *)
(***************************************************************************)
EXTENDS Integers

CONSTANTS
  Chain,         \* chains the process handles, one goroutine each
  SyncInterval,  \* every SyncInterval-th UpdateProgress also writes the DB
  Faults         \* the kinds of failure the environment may produce

\* NewFallbackProgressTracker turns an interval of 0 into 10.
ASSUME SyncIntervalAssumption == SyncInterval \in Nat \ {0}

VARIABLES
  redis,           \* [Chain -> block] the record in Redis
  db,              \* [Chain -> block] the row in processing_progress
  redisUp,         \* Redis answers
  dbUp,            \* the database answers
  up,              \* the parser process is running
  primaryHealthy,  \* last known health of Redis (the cached flag)
  updateCount,     \* UpdateProgress calls so far, modulo SyncInterval
  probe,           \* what the health check saw and has not yet recorded
  call             \* [Chain -> call state] the goroutine's call in progress

trackerVars == <<redis, db, redisUp, dbUp, up, primaryHealthy, updateCount,
                 probe, call>>
storeVars   == <<redis, db>>
envVars     == <<redisUp, dbUp, up>>

-----------------------------------------------------------------------------
(* Calls.  pc names the next step; "got", "gotErr", "acked" and "failed"   *)
(* are the results the caller has not consumed yet.                        *)

GetSteps    == {"getPrimary", "getMarkUp", "getMarkDown", "getSecondary"}
UpdateSteps == {"updPrimary", "updMarkUp", "updMarkDown", "updSync",
                "updSecondary"}
Results     == {"got", "gotErr", "acked", "failed"}

CallState == [pc : {"none"} \cup GetSteps \cup UpdateSteps \cup Results,
              block : Nat, sync : BOOLEAN]
NoCall    == [pc |-> "none", block |-> 0, sync |-> FALSE]

Step(c, from, to) ==
  /\ call[c].pc = from
  /\ call' = [call EXCEPT ![c].pc = to]

\* A write whose reply never arrived may have been applied or not.
WriteInDoubt(store, c) ==
  \/ UNCHANGED store
  \/ store' = [store EXCEPT ![c] = call[c].block]

\* markPrimary
Mark(healthy) == primaryHealthy' = healthy

-----------------------------------------------------------------------------
(* GetProgress: Redis first if it is thought healthy, the DB otherwise.    *)

GetProgress(c) ==
  /\ Step(c, "none", IF primaryHealthy THEN "getPrimary" ELSE "getSecondary")
  /\ UNCHANGED <<storeVars, envVars, primaryHealthy, updateCount, probe>>

\* Mutant: the two stores are swapped when Redis is read.
SwappedGetPrimary(c) ==
  /\ call[c].pc = "getPrimary"
  /\ call' = [call EXCEPT ![c] = [@ EXCEPT !.pc = "getMarkUp", !.block = db[c]]]
  /\ UNCHANGED <<storeVars, envVars, primaryHealthy, updateCount, probe>>

GetPrimary(c) ==
  /\ call[c].pc = "getPrimary"
  /\ call' = [call EXCEPT ![c] =
                IF redisUp THEN [@ EXCEPT !.pc = "getMarkUp", !.block = redis[c]]
                           ELSE [@ EXCEPT !.pc = "getMarkDown"]]
  /\ UNCHANGED <<storeVars, envVars, primaryHealthy, updateCount, probe>>

\* Mutant: the error of Redis is returned instead of asking the DB.
GetMarkWithoutFallback(c) ==
  /\ \/ Step(c, "getMarkUp", "got") /\ Mark(TRUE)
     \/ Step(c, "getMarkDown", "gotErr") /\ Mark(FALSE)
  /\ UNCHANGED <<storeVars, envVars, updateCount, probe>>

GetMark(c) ==
  /\ \/ Step(c, "getMarkUp", "got") /\ Mark(TRUE)
     \/ Step(c, "getMarkDown", "getSecondary") /\ Mark(FALSE)
  /\ UNCHANGED <<storeVars, envVars, updateCount, probe>>

GetSecondary(c) ==
  /\ call[c].pc = "getSecondary"
  /\ call' = [call EXCEPT ![c] =
                IF dbUp THEN [@ EXCEPT !.pc = "got", !.block = db[c]]
                        ELSE [@ EXCEPT !.pc = "gotErr"]]
  /\ UNCHANGED <<storeVars, envVars, primaryHealthy, updateCount, probe>>

-----------------------------------------------------------------------------
(* UpdateProgress: Redis if it is thought healthy, with a DB write every   *)
(* SyncInterval calls; the DB on every call while Redis is down.           *)

ShouldSync(count) == count % SyncInterval = 0

\* Mutant: the counter is compared with the interval and never wraps.
UpdateProgressNoWrap(c, n) ==
  /\ call[c].pc = "none"
  /\ updateCount' = updateCount + 1
  /\ call' = [call EXCEPT ![c] =
                [pc    |-> IF primaryHealthy THEN "updPrimary" ELSE "updSecondary",
                 block |-> n,
                 sync  |-> updateCount + 1 >= SyncInterval]]
  /\ UNCHANGED <<storeVars, envVars, primaryHealthy, probe>>

UpdateProgress(c, n) ==
  /\ call[c].pc = "none"
  /\ updateCount' = (updateCount + 1) % SyncInterval
  /\ call' = [call EXCEPT ![c] =
                [pc    |-> IF primaryHealthy THEN "updPrimary" ELSE "updSecondary",
                 block |-> n,
                 sync  |-> ShouldSync(updateCount + 1)]]
  /\ UNCHANGED <<storeVars, envVars, primaryHealthy, probe>>

UpdatePrimary(c) ==
  /\ \/ /\ redisUp
        /\ Step(c, "updPrimary", "updMarkUp")
        /\ redis' = [redis EXCEPT ![c] = call[c].block]
     \/ /\ ~redisUp
        /\ Step(c, "updPrimary", "updMarkDown")
        /\ WriteInDoubt(redis, c)
  /\ UNCHANGED <<db, envVars, primaryHealthy, updateCount, probe>>

UpdateMark(c) ==
  /\ \/ /\ Step(c, "updMarkUp", IF call[c].sync THEN "updSync" ELSE "acked")
        /\ Mark(TRUE)
     \/ /\ Step(c, "updMarkDown", "updSecondary")
        /\ Mark(FALSE)
  /\ UNCHANGED <<storeVars, envVars, updateCount, probe>>

\* The periodic checkpoint; its failure is only logged.
UpdateSync(c) ==
  /\ Step(c, "updSync", "acked")
  /\ IF dbUp THEN db' = [db EXCEPT ![c] = call[c].block]
             ELSE WriteInDoubt(db, c)
  /\ UNCHANGED <<redis, envVars, primaryHealthy, updateCount, probe>>

\* Mutant: in DB-only mode, too, only every SyncInterval-th call writes the DB.
UpdateSecondarySyncOnly(c) ==
  /\ Step(c, "updSecondary", "acked")
  /\ db' = IF call[c].sync /\ dbUp THEN [db EXCEPT ![c] = call[c].block] ELSE db
  /\ UNCHANGED <<redis, envVars, primaryHealthy, updateCount, probe>>

UpdateSecondary(c) ==
  /\ \/ /\ dbUp
        /\ Step(c, "updSecondary", "acked")
        /\ db' = [db EXCEPT ![c] = call[c].block]
     \/ /\ ~dbUp
        /\ Step(c, "updSecondary", "failed")
        /\ WriteInDoubt(db, c)
  /\ UNCHANGED <<redis, envVars, primaryHealthy, updateCount, probe>>

TrackerStep(c) ==
  \/ GetPrimary(c) \/ GetMark(c) \/ GetSecondary(c)
  \/ UpdatePrimary(c) \/ UpdateMark(c) \/ UpdateSync(c) \/ UpdateSecondary(c)

-----------------------------------------------------------------------------
(* StartHealthCheck: probe Redis, then record what was seen.  The two      *)
(* halves are separate steps of its goroutine.                             *)

HealthProbe ==
  /\ up /\ probe = "idle"
  /\ probe' = IF redisUp THEN "up" ELSE "down"
  /\ UNCHANGED <<storeVars, envVars, primaryHealthy, updateCount, call>>

\* Mutant: the health check only ever takes Redis out of use.
HealthMarkDownOnly ==
  /\ probe # "idle"
  /\ Mark(primaryHealthy /\ probe = "up")
  /\ probe' = "idle"
  /\ UNCHANGED <<storeVars, envVars, updateCount, call>>

HealthMark ==
  /\ probe # "idle"
  /\ Mark(probe = "up")
  /\ probe' = "idle"
  /\ UNCHANGED <<storeVars, envVars, updateCount, call>>

-----------------------------------------------------------------------------
(* The environment: Redis and the DB come and go, Redis may come back      *)
(* empty, the process may die and be started again.                        *)

RedisOutage ==
  /\ "redis" \in Faults
  /\ redisUp' = ~redisUp
  /\ UNCHANGED <<storeVars, dbUp, up, primaryHealthy, updateCount, probe, call>>

RedisLosesData ==
  /\ "redisLoss" \in Faults
  /\ redis' = [c \in Chain |-> 0]
  /\ UNCHANGED <<db, envVars, primaryHealthy, updateCount, probe, call>>

DBOutage ==
  /\ "db" \in Faults
  /\ dbUp' = ~dbUp
  /\ UNCHANGED <<storeVars, redisUp, up, primaryHealthy, updateCount, probe, call>>

\* Everything but the two stores is in the process's memory.
TrackerCrash ==
  /\ "crash" \in Faults
  /\ up /\ up' = FALSE
  /\ call' = [c \in Chain |-> NoCall]
  /\ probe' = "idle"
  /\ updateCount' = 0
  /\ UNCHANGED <<storeVars, redisUp, dbUp, primaryHealthy>>

\* CreateProgressTracker: the DB must answer a ping or start-up fails; a
\* Redis that does not answer only starts the tracker in DB-only mode.
TrackerRestart ==
  /\ ~up /\ dbUp
  /\ up' = TRUE
  /\ Mark(redisUp)
  /\ UNCHANGED <<storeVars, redisUp, dbUp, updateCount, probe, call>>

TrackerEnv == RedisOutage \/ RedisLosesData \/ DBOutage

-----------------------------------------------------------------------------
TrackerInit ==
  /\ redis = [c \in Chain |-> 0]
  /\ db = [c \in Chain |-> 0]
  /\ redisUp = TRUE
  /\ dbUp = TRUE
  /\ up = TRUE
  /\ primaryHealthy = TRUE
  /\ updateCount = 0
  /\ probe = "idle"
  /\ call = [c \in Chain |-> NoCall]

TrackerTypeOK ==
  /\ redis \in [Chain -> Nat]
  /\ db \in [Chain -> Nat]
  /\ redisUp \in BOOLEAN
  /\ dbUp \in BOOLEAN
  /\ up \in BOOLEAN
  /\ primaryHealthy \in BOOLEAN
  /\ updateCount \in 0 .. SyncInterval - 1
  /\ probe \in {"idle", "up", "down"}
  /\ call \in [Chain -> CallState]
=============================================================================
