---------------------------- MODULE CheckpointLoop ----------------------------
(***************************************************************************)
(* The load - process - save loop of a chain goroutine, seen from the      *)
(* progress tracker.  A batch is one step of an ordinal position, so the   *)
(* distance between two records is a number of batches.                    *)
(***************************************************************************)
EXTENDS FallbackTracker

CONSTANTS None, MaxBatch  \* MaxBatch bounds the positions of a finite model

ASSUME NoneAssumption == None \notin Nat /\ MaxBatch \in Nat

VARIABLES
  pos,     \* [Chain -> position loaded by the batch in progress, or None]
  kept     \* history: [Chain -> position the DB last took while Redis is down,
           \*           0 once Redis is back or a load has failed too]

vars == <<trackerVars, pos, kept>>

Init ==
  /\ TrackerInit
  /\ pos = [c \in Chain |-> None]
  /\ kept = [c \in Chain |-> 0]

-----------------------------------------------------------------------------
Load(c) ==
  /\ up /\ pos[c] = None
  /\ GetProgress(c)
  /\ UNCHANGED <<pos, kept>>

\* getOrCreateProgress: a tracker that answers with an error counts as a
\* chain that was never processed.
EndLoad(c) ==
  /\ call[c].pc \in {"got", "gotErr"}
  /\ pos' = [pos EXCEPT ![c] = IF call[c].pc = "got" THEN call[c].block ELSE 0]
  /\ call' = [call EXCEPT ![c] = NoCall]
  /\ kept' = IF call[c].pc = "got" THEN kept ELSE [kept EXCEPT ![c] = 0]
  /\ UNCHANGED <<storeVars, envVars, primaryHealthy, updateCount, probe>>

Save(c) ==
  /\ pos[c] # None /\ pos[c] < MaxBatch
  /\ UpdateProgress(c, pos[c] + 1)
  /\ UNCHANGED <<pos, kept>>

\* The batch that fails or has nothing to do ends without a save.
Abandon(c) ==
  /\ pos[c] # None /\ call[c].pc = "none"
  /\ pos' = [pos EXCEPT ![c] = None]
  /\ UNCHANGED <<trackerVars, kept>>

EndSave(c) ==
  /\ call[c].pc \in {"acked", "failed"}
  /\ pos' = [pos EXCEPT ![c] = None]
  /\ call' = [call EXCEPT ![c] = NoCall]
  /\ UNCHANGED <<storeVars, envVars, primaryHealthy, updateCount, probe, kept>>

Crash ==
  /\ TrackerCrash
  /\ pos' = [c \in Chain |-> None]
  /\ UNCHANGED kept

Restart == TrackerRestart /\ UNCHANGED <<pos, kept>>

Internal == \/ \E c \in Chain : TrackerStep(c)
            \/ HealthProbe \/ HealthMark
            \/ TrackerEnv

\* The tracker's own steps leave the loop alone.
NoteOutage ==
  kept' = [c \in Chain |->
             IF redisUp' THEN 0
             ELSE IF call[c].pc = "updSecondary" /\ call'[c].pc = "acked" THEN call[c].block
             ELSE kept[c]]
Beside == NoteOutage /\ UNCHANGED pos

Next ==
  \/ \E c \in Chain : Load(c) \/ EndLoad(c) \/ Save(c) \/ Abandon(c) \/ EndSave(c)
  \/ Internal /\ Beside
  \/ Crash
  \/ Restart

Spec == Init /\ [][Next]_vars

\* A call in progress runs to its end, the health check's ticker fires again
\* and again, and a crashed process is started again.
Fairness ==
  /\ \A c \in Chain : WF_vars(TrackerStep(c) /\ Beside)
  /\ WF_vars(HealthProbe /\ Beside)
  /\ WF_vars(HealthMark /\ Beside)
  /\ WF_vars(Restart)

FairSpec == Spec /\ Fairness

-----------------------------------------------------------------------------
TypeOK ==
  /\ TrackerTypeOK
  /\ pos \in [Chain -> Nat \cup {None}]
  /\ kept \in [Chain -> Nat]

\* fallback_progress.go:5, "Redis unavailable -> system continues running,
\* progress written to DB only": as long as the DB answers, no outage of Redis,
\* however it falls between the flag's check, the call and the mark, makes a
\* load or a save fail.
RedisOutageTolerated == \A c \in Chain : call[c].pc \notin {"gotErr", "failed"}

\* fallback_progress.go:96-97, "If Redis is down, writes go directly to DB so
\* progress is never lost": as long as Redis is down, through late marks and
\* probes, the other chain, crashes and restarts, a load that succeeds returns
\* at least what the DB took of the chain in this outage.  Once Redis is back
\* its own record answers, which may be older: that is what kept leaves out.
ProgressKeptInOutage ==
  \A c \in Chain : call[c].pc = "got" => call[c].block >= kept[c]

\* Once Redis stays up, the tracker returns to it for good: no stale mark left
\* behind by a late call or a late probe can park it on the DB for ever.
ReturnsToPrimary == (<>[](up /\ redisUp)) => <>[]primaryHealthy

\* With a Redis that neither stops nor forgets, the tracker is one durable
\* register per chain: health marks, periodic syncs, DB outages and crashes
\* are invisible to the loop.
Register == INSTANCE CheckpointRegister WITH
  saved  <- redis,
  loaded <- [c \in Chain |->
               IF call[c].pc \in {"getMarkUp", "got"} THEN call[c].block
               ELSE IF call[c].pc \in {"none", "updPrimary"} THEN pos[c]
               ELSE None]
ImplementsRegister == Register!Spec
=============================================================================
