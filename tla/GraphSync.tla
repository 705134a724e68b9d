------------------------------- MODULE GraphSync -------------------------------
(***************************************************************************)
(* cmd/thegraph-sync: pages of pools from two subgraphs, each page stored, *)
(* then put into the cache in Redis, then stood for by a cursor.  The      *)
(* process runs once (from cron) or in a loop, over a relational store or  *)
(* over the buffering InfluxDB store; both choices are made at the start.  *)
(*                                                                         *)
(* Subgraphs, indexers and the two databases are external.  An indexer     *)
(* answers from the blocks it knows, which may be fewer than another has.  *)
(***************************************************************************)
EXTENDS InfluxBuffer

CONSTANTS
  Subgraph,   \* [{"v2", "v3"} -> set of pools], {} if it has no endpoint
  Since,      \* initial_since
  PageSize,   \* pageSize
  Stores,     \* the stores to look at, of "relational", "influx"
  Modes,      \* the modes to look at, of "once", "loop"
  Faults,     \* "lag", "query", "store", "points", "redis", "cursor", "stop", "crash"
  MaxFaults,  \* bound: how many things go wrong in a behaviour
  LastBlock   \* bound: the time of the newest block of a behaviour

ASSUME PageSizeAssumption == PageSize \in Nat \ {0}
ASSUME SubgraphAssumption ==
  /\ DOMAIN Subgraph = {"v2", "v3"}
  /\ \A v \in {"v2", "v3"} :
       /\ IsFiniteSet(Subgraph[v])
       /\ \A p \in Subgraph[v] : p.ts \in Nat /\ p.id \in Nat \ {0} /\ IsFiniteSet(p.tokens)
\* An id is the address of a pool.
ASSUME IdsAssumption ==
  \A v \in {"v2", "v3"} : \A p, q \in Subgraph[v] : p.id = q.id => p = q
ASSUME SinceAssumption == Since \in Nat
ASSUME ChoicesAssumption == Stores \subseteq {"relational", "influx"} /\ Modes \subseteq {"once", "loop"}
ASSUME BoundsAssumption == MaxFaults \in Nat /\ LastBlock \in Nat

VARIABLES
  store, mode,  \* what runs, fixed
  head,         \* time of the newest indexed block
  cursor,       \* [version -> the stored position]
  pc,           \* "down", "idle", "begin", "fetch", "store", "check", "warm", "cursor", "end"
  version,      \* the version being synced
  last,         \* lastTs and lastID of fetch...Since
  page,         \* the pools of the page in hand
  failed,       \* SyncOnce has an error to return
  warm,         \* rows in Redis
  faults        \* number of things that have gone wrong

fixed == <<store, mode>>
sync  == <<version, last, page, failed>>
vars  == <<fixed, head, cursor, pc, sync, warm, faults, buffer, db, lost>>

Versions == {"v2", "v3"}

\* The order of the queries.
Less(a, b) == a.ts < b.ts \/ (a.ts = b.ts /\ a.id < b.id)

\* A cursor is the pair of a time and an id; one that is missing or unreadable
\* stands for everything from Since on, and for what was created in the second
\* before: the empty id is less than any.
PositionOf(pool) == [ts |-> pool.ts, id |-> pool.id]
fallback == [ts |-> Since - 1, id |-> 0]

formatCursor(pool) == PositionOf(pool)

GoesWrong(fault) == fault \in Faults /\ faults < MaxFaults /\ faults' = faults + 1
Fine == UNCHANGED faults

\* Points arrive, or something goes wrong and nobody is told.
Arrive(arrives) == (arrives /\ Fine) \/ (~arrives /\ GoesWrong("points"))

\* The rows of a page: its pools, and their tokens.
Rows(v, pools) == {<<v, p.id>> : p \in pools} \cup UNION {{<<"token", t>> : t \in p.tokens} : p \in pools}

-----------------------------------------------------------------------------
(* The sync of a version.                                                  *)

Goto(place) == pc' = place
Running == pc \notin {"down", "idle"}

\* v2 is followed by v3 whatever became of it.
EndVersion ==
  /\ version' = "v3"
  /\ pc' = IF version = "v2" THEN "begin" ELSE "end"
  /\ page' = {} /\ last' = fallback

VersionFails == EndVersion /\ failed' = TRUE

resumeCursor ==
  /\ pc = "begin" /\ Goto("fetch")
  /\ (last' = cursor[version] /\ Fine) \/ (last' = fallback /\ GoesWrong("cursor"))
  /\ UNCHANGED <<fixed, head, cursor, version, page, failed, warm, buffer, db, lost>>

\* Mutant: the query goes on after the time of the last pool.
AfterTime(v, position, h) == {p \in Subgraph[v] : p.ts <= h /\ p.ts > position.ts}

\* What the query asks for, of an indexer that knows the blocks up to h: the
\* first PageSize pools after the position.
After(v, position, h) == {p \in Subgraph[v] : p.ts <= h /\ Less(position, p)}

\* Mutant: the page is ordered by id.
FetchedById(v, position, h) ==
  LET all == After(v, position, h)
  IN {p \in all : Cardinality({q \in all : q.id < p.id}) < PageSize}

Fetched(v, position, h) ==
  LET all == After(v, position, h)
  IN {p \in all : Cardinality({q \in all : Less(q, p)}) < PageSize}

lastOf(pools) == CHOOSE p \in pools : \A q \in pools : ~Less(p, q)

Query ==
  /\ pc = "fetch"
  /\ \E h \in 0..head :
       /\ (h = head /\ Fine) \/ (h # head /\ GoesWrong("lag"))
       /\ LET got == Fetched(version, last, h)
          IN IF got = {} THEN EndVersion
             ELSE page' = got /\ Goto("store") /\ UNCHANGED <<version, last>>
  /\ UNCHANGED <<fixed, head, cursor, failed, warm, buffer, db, lost>>

\* Four attempts, a permanent error or the end of the time allowed.
QueryFails ==
  /\ pc = "fetch" /\ GoesWrong("query") /\ VersionFails
  /\ UNCHANGED <<fixed, head, cursor, warm, buffer, db, lost>>

StorePage ==
  /\ pc = "store" /\ Fine
  /\ \/ /\ store = "relational" /\ Goto("warm")
        /\ db' = db \cup Rows(version, page)
        /\ UNCHANGED <<buffer, lost>>
     \/ /\ store = "influx" /\ Goto("check")
        /\ addToBatch(Rows(version, page))
        /\ UNCHANGED <<timer, db, lost>>
  /\ UNCHANGED <<fixed, head, cursor, sync, warm>>

\* A transaction that is reported as failed may have been committed.
StorePageFails ==
  /\ pc = "store" /\ store = "relational" /\ GoesWrong("store") /\ VersionFails
  /\ db' \in {db, db \cup Rows(version, page)}
  /\ UNCHANGED <<fixed, head, cursor, warm, buffer, lost>>

CheckBuffer ==
  /\ pc = "check" /\ Goto("warm")
  /\ \/ /\ shouldFlushBatch
        /\ \E arrives \in BOOLEAN : Arrive(arrives) /\ flushBatch(arrives)
        /\ UNCHANGED timer
     \/ ~shouldFlushBatch /\ Fine /\ UNCHANGED <<buffer, db, lost>>
  /\ UNCHANGED <<fixed, head, cursor, sync, warm>>

WarmCache ==
  /\ pc = "warm" /\ Goto("cursor")
  /\ (warm' = warm \cup Rows(version, page) /\ Fine) \/ (UNCHANGED warm /\ GoesWrong("redis"))
  /\ UNCHANGED <<fixed, head, cursor, sync, buffer, db, lost>>

\* Mutant: the position stays where it is within a sync.
NextPageAgain ==
  IF Cardinality(page) < PageSize THEN EndVersion
  ELSE Goto("fetch") /\ page' = {} /\ UNCHANGED <<last, version>>

\* A page that is not full is the last one.
NextPage ==
  IF Cardinality(page) < PageSize THEN EndVersion
  ELSE Goto("fetch") /\ page' = {} /\ last' = PositionOf(lastOf(page)) /\ UNCHANGED version

\* A cursor that cannot be written is not an error; it may have been written.
SetCursor ==
  /\ pc = "cursor"
  /\ LET moved == [cursor EXCEPT ![version] = formatCursor(lastOf(page))]
     IN (cursor' = moved /\ Fine) \/ (cursor' \in {cursor, moved} /\ GoesWrong("cursor"))
  /\ NextPage
  /\ UNCHANGED <<fixed, head, failed, warm, buffer, db, lost>>

-----------------------------------------------------------------------------
(* The process.                                                            *)

AtRest(place) ==
  pc' = place /\ version' = "v2" /\ last' = fallback /\ page' = {} /\ failed' = FALSE

BeginSync == pc' = "begin" /\ version' = "v2" /\ failed' = FALSE /\ UNCHANGED <<last, page>>

\* Started by the supervisor or by cron, it syncs at once; the loop then does
\* at every tick.
StartProcess ==
  /\ pc = "down" /\ BeginSync
  /\ UNCHANGED <<fixed, head, cursor, warm, faults, buffer, db, lost>>

Tick ==
  /\ pc = "idle" /\ BeginSync
  /\ UNCHANGED <<fixed, head, cursor, warm, faults, buffer, db, lost>>

\* main returns, and the deferred Close is run.
Exit ==
  /\ AtRest("down")
  /\ \E arrives \in BOOLEAN : Arrive(arrives) /\ Close(arrives)

EndOfSync ==
  /\ pc = "end"
  /\ \/ mode = "loop" /\ AtRest("idle") /\ Fine /\ UNCHANGED <<buffer, db, lost>>
     \/ mode = "once" /\ ~failed /\ Exit
     \/ mode = "once" /\ failed /\ AtRest("down") /\ Fine /\ GoneWithTheProcess
  /\ UNCHANGED <<fixed, head, cursor, warm>>

\* A signal cancels the context of the loop, whatever it is waiting for.
Stop ==
  /\ mode = "loop" /\ pc \in {"idle", "fetch", "warm", "cursor"}
  /\ GoesWrong("stop") /\ AtRest("down") /\ Close(TRUE)
  /\ UNCHANGED <<fixed, head, cursor, warm>>

Crash ==
  /\ pc # "down" /\ GoesWrong("crash") /\ AtRest("down") /\ GoneWithTheProcess
  /\ UNCHANGED <<fixed, head, cursor, warm>>

Timer ==
  /\ pc # "down"
  /\ \/ TimePasses /\ Fine
     \/ TimerReads /\ Fine
     \/ \E arrives \in BOOLEAN : Arrive(arrives) /\ TimerFlushes(arrives)
  /\ UNCHANGED <<fixed, head, cursor, pc, sync, warm>>

NewBlock ==
  /\ head < LastBlock /\ head' = head + 1
  /\ UNCHANGED <<fixed, cursor, pc, sync, warm, faults, buffer, db, lost>>

-----------------------------------------------------------------------------
Init ==
  /\ store \in Stores /\ mode \in Modes
  /\ head = 0 /\ cursor = [v \in Versions |-> fallback]
  /\ pc = "down" /\ version = "v2" /\ last = fallback /\ page = {} /\ failed = FALSE
  /\ warm = {} /\ faults = 0
  /\ BufferInit

SyncStep ==
  resumeCursor \/ Query \/ QueryFails \/ StorePage \/ StorePageFails \/ CheckBuffer
    \/ WarmCache \/ SetCursor \/ EndOfSync

Next ==
  SyncStep \/ StartProcess \/ Tick \/ Stop \/ Crash \/ Timer \/ NewBlock

Spec == Init /\ [][Next]_vars

\* The process runs, is started again, and its ticker and timer go on.
Fairness == WF_vars(SyncStep) /\ WF_vars(StartProcess) /\ WF_vars(Tick) /\ WF_vars(Timer)

FairSpec == Spec /\ Fairness

-----------------------------------------------------------------------------
(* Properties.                                                             *)

Wanted(v) == {p \in Subgraph[v] : p.ts >= Since}

\* What the store has taken, which a relational store has in the database.
taken == IF store = "relational" THEN db ELSE db \cup cache \cup lost

TypeOK ==
  /\ store \in {"relational", "influx"} /\ mode \in {"once", "loop"}
  /\ head \in 0..LastBlock /\ faults \in 0..MaxFaults
  /\ pc \in {"down", "idle", "begin", "fetch", "store", "check", "warm", "cursor", "end"}
  /\ version \in Versions /\ failed \in BOOLEAN /\ page \subseteq Subgraph[version]
  /\ (page # {}) = (pc \in {"store", "check", "warm", "cursor"})
  /\ store = "relational" => cache = {} /\ lost = {} /\ timer = "wait"
  /\ (totalCount = 0) = (cache = {}) /\ totalCount >= Cardinality(cache)
  /\ pc = "down" => cache = {}

\* A cursor stands only for what the store has taken: no pool at or below it,
\* not one with the same timestamp either, is skipped by the next sync
\* (sync.go:130-142), whatever failed in between.
CursorCovered ==
  \A v \in Versions : \A p \in Wanted(v) :
    ~Less(cursor[v], p) => Rows(v, {p}) \subseteq taken

\* The same, with the rows in the database (sync.go:213, "Pages before the
\* failure are already durably stored and their cursor already advanced").
DurablyStored ==
  \A v \in Versions : \A p \in Wanted(v) :
    ~Less(cursor[v], p) => Rows(v, {p}) \subseteq db

copied == [v \in Versions |-> {p \in Subgraph[v] : <<v, p.id>> \in taken}]

Copy == INSTANCE SubgraphCopy WITH First <- Since - 1

\* No pool is taken before an older one, and none twice except by repeating a
\* page: the sync is a copy in the order of creation.
ImplementsCopy == Copy!Spec

\* When things stop going wrong, everything that was created arrives in the
\* database, but for what the buffer lost on the way.
CopiedInTheEnd ==
  <>[](\A v \in Versions : \A p \in Wanted(v) :
         p.ts <= head => Rows(v, {p}) \subseteq db \cup lost)

=============================================================================
