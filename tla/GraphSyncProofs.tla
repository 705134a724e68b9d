---------------------------- MODULE GraphSyncProofs ----------------------------
(***************************************************************************)
(* Why no cursor of the graph sync stands for a pool that was not taken,   *)
(* why the sync is a copy in the order of creation, and its types, for     *)
(* every content of the two subgraphs, every page size, either store and   *)
(* any number of faults.                                                   *)
(*                                                                         *)
(* A page is all that follows a position up to its own last pool, pools of *)
(* the same time included; the position moves to that last pool only when  *)
(* the store has taken the page; and what a store has taken stays in the   *)
(* database, in the buffer or among what the buffer lost.                  *)
(***************************************************************************)
EXTENDS GraphSync, FiniteSetTheorems, WellFoundedInduction, TLAPS

Position == [ts : Int, id : Nat]

\* Up to position, everything that is asked for of version v has been taken.
Covered(v, position) ==
  /\ position.ts >= Since - 1
  /\ \A p \in Subgraph[v] :
       p.ts >= Since - 1 /\ ~Less(position, p) => Rows(v, {p}) \subseteq taken

WithPage == {"store", "check", "warm", "cursor"}

\* The page in hand is what some indexer answered.
PageAsked == page # {} /\ \E h \in Nat : page = Fetched(version, last, h)

SyncInv ==
  /\ head \in Nat /\ version \in Versions /\ last \in Position /\ cursor \in [Versions -> Position]
  /\ store = "relational" => cache = {}
  /\ \A v \in Versions : Covered(v, cursor[v])
  /\ pc \in WithPage \cup {"fetch"} => Covered(version, last)
  /\ pc \in WithPage => PageAsked
  /\ pc \in WithPage \ {"store"} => Rows(version, page) \subseteq taken

-----------------------------------------------------------------------------
(* The order of the queries.                                               *)

LEMMA PoolsTyped ==
  ASSUME NEW v \in Versions
  PROVE  IsFiniteSet(Subgraph[v]) /\ \A p \in Subgraph[v] : p.ts \in Nat /\ p.id \in Nat \ {0}
BY SubgraphAssumption DEF Versions

\* A page has a last pool.
LEMMA LastExists ==
  ASSUME NEW S, IsFiniteSet(S), S # {}, \A p \in S : p.ts \in Nat /\ p.id \in Nat
  PROVE  lastOf(S) \in S /\ \A q \in S : ~Less(lastOf(S), q)
<1> DEFINE above(p) == {q \in S : Less(p, q)}
           aboves == {above(p) : p \in S}
           R == StrictSubsetOrdering(S)
<1>1. PICK A \in aboves : \A B \in aboves : ~(<<B, A>> \in R)
  <2>1. IsWellFoundedOn(R, FiniteSubsetsOf(S))
    BY FS_StrictSubsetOrderingWellFounded
  <2>2. \A p \in S : above(p) \in FiniteSubsetsOf(S)
    BY FS_Subset DEF FiniteSubsetsOf
  <2>3. aboves \subseteq FiniteSubsetsOf(S) /\ aboves # {}
    BY <2>2
  <2> HIDE DEF aboves, R
  <2> QED
    BY <2>1, <2>3, WFMin
<1>2. PICK p \in S : A = above(p)
  BY <1>1
<1>3. ASSUME NEW q \in S, Less(p, q) PROVE FALSE
  <2>1. above(q) \subseteq above(p) /\ q \in above(p) /\ q \notin above(q)
    BY <1>3 DEF Less
  <2>2. <<above(q), above(p)>> \in R
    BY <2>1 DEF StrictSubsetOrdering
  <2> QED
    BY <1>1, <1>2, <2>2
<1>4. \E x \in S : \A q \in S : ~Less(x, q)
  BY <1>3
<1> QED
  BY <1>4 DEF lastOf

\* A page that is not empty follows its position without a hole.
LEMMA FetchedFollows ==
  ASSUME NEW v \in Versions, NEW position \in Position, NEW h \in Nat,
         Fetched(v, position, h) # {}
  PROVE  /\ Fetched(v, position, h) \subseteq Subgraph[v]
         /\ lastOf(Fetched(v, position, h)) \in Fetched(v, position, h)
         /\ \A p \in Subgraph[v] :
              Less(position, p) /\ ~Less(lastOf(Fetched(v, position, h)), p) => p \in Fetched(v, position, h)
<1> DEFINE all == After(v, position, h)
           below(p) == {q \in all : Less(q, p)}
           got == Fetched(v, position, h)
<1>1. /\ all \subseteq Subgraph[v] /\ IsFiniteSet(all)
      /\ \A p \in Subgraph[v] : p.ts \in Nat /\ p.id \in Nat
  BY PoolsTyped, FS_Subset DEF After
<1>2. got \subseteq all /\ IsFiniteSet(got)
  BY <1>1, FS_Subset DEF Fetched
<1>3. lastOf(got) \in got
  BY <1>1, <1>2, LastExists
<1>4. ASSUME NEW p \in Subgraph[v], Less(position, p), ~Less(lastOf(got), p) PROVE p \in got
  <2> DEFINE l == lastOf(got)
  <2>1. l \in all /\ Cardinality(below(l)) < PageSize
    BY <1>3 DEF Fetched
  <2> HIDE DEF l
  <2>2. l \in Subgraph[v] /\ l.ts <= h /\ ~Less(l, p)
    BY <1>1, <1>4, <2>1 DEF After, l
  <2>3. p.ts <= h /\ p \in all
    BY <1>1, <1>4, <2>2 DEF Less, After
  <2>4. below(p) \subseteq below(l)
    BY <1>1, <1>4, <2>2 DEF Less
  <2>5. /\ Cardinality(below(p)) <= Cardinality(below(l))
        /\ Cardinality(below(p)) \in Nat /\ Cardinality(below(l)) \in Nat
    BY <1>1, <2>4, FS_Subset, FS_CardinalityType
  <2>6. Cardinality(below(p)) < PageSize
    BY <2>1, <2>5, PageSizeAssumption
  <2> QED
    BY <2>3, <2>6 DEF Fetched
<1> HIDE DEF got
<1> QED
  BY <1>1, <1>2, <1>3, <1>4 DEF got

\* Of two pools one comes first.
LEMMA PoolsOrdered ==
  ASSUME NEW v \in Versions, NEW p \in Subgraph[v], NEW q \in Subgraph[v]
  PROVE  p = q \/ Less(p, q) \/ Less(q, p)
BY PoolsTyped, IdsAssumption DEF Versions, Less

\* A page is not longer than it may be.
LEMMA PageSmall ==
  ASSUME NEW v \in Versions, NEW position, NEW h \in Nat, Fetched(v, position, h) # {}
  PROVE  /\ IsFiniteSet(Fetched(v, position, h))
         /\ Cardinality(Fetched(v, position, h)) <= PageSize
<1> DEFINE all == After(v, position, h)
           below(p) == {q \in all : Less(q, p)}
           got == Fetched(v, position, h)
           l == lastOf(got)
<1>1. /\ all \subseteq Subgraph[v] /\ IsFiniteSet(all)
      /\ \A p \in Subgraph[v] : p.ts \in Nat /\ p.id \in Nat
  BY PoolsTyped, FS_Subset DEF After
<1>2. got \subseteq all /\ IsFiniteSet(got)
  BY <1>1, FS_Subset DEF Fetched
<1>3. l \in got /\ \A q \in got : ~Less(l, q)
  BY <1>1, <1>2, LastExists
<1>4. Cardinality(below(l)) < PageSize
  BY <1>3 DEF Fetched
<1>5. IsFiniteSet(below(l)) /\ Cardinality(below(l)) \in Nat
  BY <1>1, FS_Subset, FS_CardinalityType
<1>6. got \subseteq below(l) \cup {l}
  BY <1>1, <1>2, <1>3, PoolsOrdered
<1> HIDE DEF l, below, got
<1>7. /\ IsFiniteSet(below(l) \cup {l})
      /\ Cardinality(below(l) \cup {l}) \in {Cardinality(below(l)), Cardinality(below(l)) + 1}
  BY <1>5, FS_AddElement
<1>8. Cardinality(got) <= Cardinality(below(l) \cup {l}) /\ Cardinality(got) \in Nat
  BY <1>2, <1>6, <1>7, FS_Subset, FS_CardinalityType
<1>9. Cardinality(got) <= PageSize
  BY <1>4, <1>5, <1>7, <1>8, PageSizeAssumption
<1> QED
  BY <1>2, <1>9 DEF got

\* The page in hand is one the abstract copy may take.
LEMMA PageIsNext ==
  ASSUME SyncInv, pc \in WithPage
  PROVE  /\ IsFiniteSet(page) /\ Cardinality(page) <= PageSize
         /\ page \subseteq Subgraph[version] /\ lastOf(page) \in page
         /\ \A p \in page : p.ts >= Since - 1
         /\ \A p \in Subgraph[version] : Less(last, p) /\ ~Less(lastOf(page), p) => p \in page
         /\ \A p \in page : \A q \in Subgraph[version] :
              Less(q, p) /\ q.ts >= Since - 1 => Rows(version, {q}) \subseteq taken \/ q \in page
<1>1. PICK h \in Nat : page = Fetched(version, last, h)
  BY DEF SyncInv, PageAsked, WithPage
<1>2. page # {} /\ version \in Versions /\ Covered(version, last) /\ Since \in Nat
  BY SinceAssumption DEF SyncInv, PageAsked, WithPage
<1>3. last \in Position /\ last.ts \in Int /\ last.id \in Nat /\ last.ts >= Since - 1
  BY <1>2 DEF SyncInv, Covered, Position
<1>4. IsFiniteSet(page) /\ Cardinality(page) <= PageSize
  BY <1>1, <1>2, PageSmall
<1>5. /\ page \subseteq Subgraph[version] /\ lastOf(page) \in page
      /\ \A p \in Subgraph[version] : Less(last, p) /\ ~Less(lastOf(page), p) => p \in page
  BY <1>1, <1>2, <1>3, FetchedFollows
<1>6. \A p \in Subgraph[version] : p.ts \in Nat /\ p.id \in Nat
  BY <1>2, PoolsTyped
<1>7. \A p \in page : p.ts >= Since - 1
  <2>1. \A p \in page : Less(last, p)
    BY <1>1 DEF Fetched, After
  <2> QED
    BY <1>2, <1>3, <1>5, <1>6, <2>1 DEF Less
<1>8. \A p \in page : ~Less(lastOf(page), p)
  BY <1>2, <1>4, <1>5, <1>6, LastExists
<1>9. ASSUME NEW p \in page, NEW q \in Subgraph[version], Less(q, p), q.ts >= Since - 1,
             ~(Rows(version, {q}) \subseteq taken)
      PROVE  q \in page
  <2>1. Less(last, q)
    BY <1>2, <1>9 DEF Covered
  <2>2. ~Less(lastOf(page), q)
    BY <1>5, <1>6, <1>8, <1>9 DEF Less
  <2> QED
    BY <1>5, <2>1, <2>2
<1> QED
  BY <1>4, <1>5, <1>7, <1>9

\* Rows of a page, by the pools they are of.
LEMMA RowsOfPools ==
  ASSUME NEW u \in Versions, NEW pools \in SUBSET Subgraph[u],
         NEW v \in Versions, NEW p \in Subgraph[v]
  PROVE  <<v, p.id>> \in Rows(u, pools) <=> v = u /\ p \in pools
BY IdsAssumption DEF Rows, Versions

-----------------------------------------------------------------------------
(* What a store has taken it does not lose sight of, and only a page that  *)
(* is being stored adds to it.                                             *)

CacheOfInflux == store = "relational" => cache = {}

BufferKept ==
  /\ store = "relational" => cache' = {} /\ db' = db
  /\ db' \cup cache' \cup lost' = db \cup cache \cup lost

LEMMA FlushKeeps ==
  ASSUME CacheOfInflux, NEW arrives \in BOOLEAN, flushBatch(arrives)
  PROVE  BufferKept
<1>1. CASE arrives
  BY <1>1 DEF CacheOfInflux, flushBatch, BufferKept, clearBatchCache
<1>2. CASE ~arrives
  BY <1>2 DEF CacheOfInflux, flushBatch, BufferKept, clearBatchCache
<1> QED
  BY <1>1, <1>2

PageTaken == pc = "store" /\ taken' = taken \cup Rows(version, page)

LEMMA TakenGoes ==
  ASSUME CacheOfInflux, [Next]_vars
  PROVE  CacheOfInflux' /\ (taken' = taken \/ PageTaken)
<1> DEFINE Goal == CacheOfInflux' /\ (taken' = taken \/ PageTaken)
<1>1. store' = store
  BY DEF Next, SyncStep, resumeCursor, Query, QueryFails, StorePage, StorePageFails, CheckBuffer,
     WarmCache, SetCursor, EndOfSync, StartProcess, Tick, Stop, Crash, Timer, NewBlock, vars, fixed
<1>2. CASE BufferKept
  BY <1>1, <1>2 DEF BufferKept, CacheOfInflux, taken
<1>3. CASE StorePage
  BY <1>1, <1>3 DEF StorePage, addToBatch, taken, CacheOfInflux, PageTaken, buffer
<1>4. CASE StorePageFails
  BY <1>1, <1>4 DEF StorePageFails, taken, CacheOfInflux, PageTaken, buffer
<1>5. CASE UNCHANGED <<cache, db, lost>>
  BY <1>2, <1>5 DEF BufferKept, CacheOfInflux
<1>6. CASE GoneWithTheProcess
  BY <1>2, <1>6 DEF GoneWithTheProcess, clearBatchCache, BufferKept, CacheOfInflux
<1>7. ASSUME NEW arrives \in BOOLEAN, flushBatch(arrives) PROVE Goal
  BY <1>2, <1>7, FlushKeeps
<1> HIDE DEF Goal
<1>8. CASE CheckBuffer
  BY <1>5, <1>7, <1>8 DEF CheckBuffer, buffer, Goal
<1>9. CASE Timer
  <2>1. CASE TimePasses \/ TimerReads
    BY <1>5, <2>1 DEF TimePasses, TimerReads, Goal
  <2>2. ASSUME NEW arrives \in BOOLEAN, TimerFlushes(arrives) PROVE Goal
    BY <1>7, <2>2 DEF TimerFlushes
  <2> QED
    BY <1>9, <2>1, <2>2 DEF Timer, Goal
<1>10. CASE EndOfSync
  BY <1>5, <1>6, <1>7, <1>10 DEF EndOfSync, Exit, Close, buffer, Goal
<1>11. CASE Stop
  BY <1>7, <1>11 DEF Stop, Close, Goal
<1> QED
  BY <1>3, <1>4, <1>5, <1>6, <1>8, <1>9, <1>10, <1>11 DEF Next, SyncStep, resumeCursor, Query,
     QueryFails, WarmCache, SetCursor, StartProcess, Tick, Crash, NewBlock, vars, buffer, Goal

LEMMA TakenGrows ==
  ASSUME SyncInv, [Next]_vars
  PROVE  CacheOfInflux' /\ taken \subseteq taken'
<1>1. CacheOfInflux
  BY DEF SyncInv, CacheOfInflux
<1> QED
  BY <1>1, TakenGoes DEF PageTaken

LEMMA CoveredStays ==
  ASSUME NEW v, NEW position, Covered(v, position), taken \subseteq taken'
  PROVE  Covered(v, position)'
BY DEF Covered

-----------------------------------------------------------------------------
(* The steps.                                                              *)

\* A step that leaves the sync where it is.
LEMMA SyncStays ==
  ASSUME SyncInv, CacheOfInflux', taken \subseteq taken', head' \in Nat,
         version' = version, last' = last, page' = page, cursor' = cursor, pc' = pc
  PROVE  SyncInv'
BY CoveredStays DEF SyncInv, PageAsked, CacheOfInflux

\* A step that ends a version, a sync or the process, or begins a version.
LEMMA SyncLeaves ==
  ASSUME SyncInv, CacheOfInflux', taken \subseteq taken', cursor' = cursor, pc' \notin WithPage \cup {"fetch"},
         head' \in Nat, version' \in Versions, last' \in Position
  PROVE  SyncInv'
BY CoveredStays DEF SyncInv, CacheOfInflux, WithPage

\* A step that goes on with the page in hand, which the store has taken.
LEMMA PageGoesOn ==
  ASSUME SyncInv, CacheOfInflux', taken \subseteq taken', cursor' = cursor, head' = head,
         version' = version, last' = last, page' = page,
         pc \in WithPage, pc' \in WithPage, Rows(version, page) \subseteq taken'
  PROVE  SyncInv'
BY CoveredStays DEF SyncInv, PageAsked, CacheOfInflux, WithPage

LEMMA FallbackCovers ==
  ASSUME NEW v \in Versions
  PROVE  fallback \in Position /\ Covered(v, fallback)
<1>1. fallback = [ts |-> Since - 1, id |-> 0] /\ Since \in Nat
  BY SinceAssumption DEF fallback
<1>2. \A p \in Subgraph[v] : p.ts >= Since - 1 => Less(fallback, p)
  BY <1>1, PoolsTyped DEF Less
<1> QED
  BY <1>1, <1>2 DEF Position, Covered

LEMMA EndVersionLeaves ==
  ASSUME EndVersion
  PROVE  pc' \notin WithPage \cup {"fetch"} /\ version' \in Versions /\ last' \in Position
BY FallbackCovers DEF EndVersion, WithPage, Versions

\* With the page taken, everything up to its last pool is.
LEMMA LastCovered ==
  ASSUME SyncInv, pc = "cursor"
  PROVE  PositionOf(lastOf(page)) \in Position /\ Covered(version, PositionOf(lastOf(page)))
<1> DEFINE l == lastOf(page)
<1>1. /\ Covered(version, last) /\ Rows(version, page) \subseteq taken /\ version \in Versions
  BY DEF SyncInv, WithPage
<1>2. /\ l \in Subgraph[version] /\ l.ts >= Since - 1
      /\ \A p \in Subgraph[version] : Less(last, p) /\ ~Less(l, p) => p \in page
  BY PageIsNext DEF WithPage
<1>3. l.ts \in Nat /\ l.id \in Nat
  BY <1>1, <1>2, PoolsTyped
<1> HIDE DEF l
<1>4. PositionOf(l) \in Position /\ PositionOf(l).ts = l.ts /\ PositionOf(l).id = l.id
  BY <1>3 DEF PositionOf, Position
<1>5. ASSUME NEW p \in Subgraph[version], p.ts >= Since - 1, ~Less(PositionOf(l), p)
      PROVE  Rows(version, {p}) \subseteq taken
  <2>1. CASE ~Less(last, p)
    BY <1>1, <1>5, <2>1 DEF Covered
  <2>2. CASE Less(last, p)
    <3>1. p \in page
      BY <1>2, <1>4, <1>5, <2>2 DEF Less
    <3>2. Rows(version, {p}) \subseteq Rows(version, page)
      BY <3>1 DEF Rows
    <3> QED
      BY <1>1, <3>2
  <2> QED
    BY <2>1, <2>2
<1>6. Covered(version, PositionOf(l))
  BY <1>2, <1>4, <1>5 DEF Covered
<1> QED
  BY <1>4, <1>6 DEF l

LEMMA SyncKeeps == SyncInv /\ [Next]_vars => SyncInv'
<1> SUFFICES ASSUME SyncInv, [Next]_vars PROVE SyncInv'
  OBVIOUS
<1>0. /\ CacheOfInflux' /\ taken \subseteq taken' /\ head \in Nat /\ version \in Versions /\ last \in Position
      /\ "v2" \in Versions /\ fallback \in Position
  BY TakenGrows, FallbackCovers DEF SyncInv, Versions
<1>1. CASE resumeCursor
  <2>1. /\ pc' = "fetch" /\ last' \in {cursor[version], fallback}
        /\ UNCHANGED <<head, cursor, version>>
    BY <1>1 DEF resumeCursor, Goto
  <2>2. last' \in Position /\ Covered(version, last')
    BY <1>0, <2>1, FallbackCovers DEF SyncInv
  <2>3. Covered(version, last)'
    BY <1>0, <2>1, <2>2 DEF Covered
  <2> QED
    BY <1>0, <2>1, <2>2, <2>3, CoveredStays DEF SyncInv, WithPage, CacheOfInflux
<1>2. CASE Query
  <2>1. PICK h \in 0..head :
          LET got == Fetched(version, last, h)
          IN IF got = {} THEN EndVersion
             ELSE page' = got /\ pc' = "store" /\ UNCHANGED <<version, last>>
    BY <1>2 DEF Query, Goto
  <2>2. pc = "fetch" /\ UNCHANGED <<head, cursor>> /\ h \in Nat
    BY <1>0, <1>2 DEF Query
  <2>3. CASE Fetched(version, last, h) = {}
    BY <1>0, <2>1, <2>2, <2>3, EndVersionLeaves, SyncLeaves
  <2>4. CASE Fetched(version, last, h) # {}
    <3>1. page' = Fetched(version, last, h) /\ pc' = "store" /\ UNCHANGED <<version, last>>
      BY <2>1, <2>4
    <3>2. PageAsked'
      BY <2>2, <2>4, <3>1 DEF PageAsked
    <3>3. Covered(version, last)
      BY <2>2 DEF SyncInv
    <3> QED
      BY <1>0, <2>2, <3>1, <3>2, <3>3, CoveredStays DEF SyncInv, WithPage, CacheOfInflux
  <2> QED
    BY <2>3, <2>4
<1>3. CASE QueryFails \/ StorePageFails
  <2>1. EndVersion /\ UNCHANGED <<head, cursor>>
    BY <1>3 DEF QueryFails, StorePageFails, VersionFails
  <2> QED
    BY <1>0, <2>1, EndVersionLeaves, SyncLeaves
<1>4. CASE StorePage
  <2>1. /\ pc = "store" /\ pc' \in WithPage /\ UNCHANGED <<head, cursor, version, last, page, store>>
        /\ \/ store = "relational" /\ Rows(version, page) \subseteq db'
           \/ store = "influx" /\ Rows(version, page) \subseteq cache'
    BY <1>4 DEF StorePage, Goto, WithPage, addToBatch, sync, fixed
  <2>2. Rows(version, page) \subseteq taken'
    BY <2>1 DEF taken
  <2> QED
    BY <1>0, <2>1, <2>2, PageGoesOn DEF WithPage
<1>5. CASE CheckBuffer \/ WarmCache
  <2>1. /\ pc \in {"check", "warm"} /\ pc' \in WithPage
        /\ UNCHANGED <<head, cursor, version, last, page>>
    BY <1>5 DEF CheckBuffer, WarmCache, Goto, WithPage, sync
  <2>2. Rows(version, page) \subseteq taken'
    BY <1>0, <2>1 DEF SyncInv, WithPage, CacheOfInflux
  <2> QED
    BY <1>0, <2>1, <2>2, PageGoesOn DEF WithPage
<1>6. CASE SetCursor
  <2> DEFINE l == PositionOf(lastOf(page))
  <2>1. /\ pc = "cursor" /\ head' = head /\ NextPage
        /\ cursor' \in {cursor, [cursor EXCEPT ![version] = l]}
    BY <1>6 DEF SetCursor, formatCursor
  <2>2. l \in Position /\ Covered(version, l)
    BY <2>1, LastCovered
  <2>3. EndVersion \/ (pc' = "fetch" /\ page' = {} /\ last' = l /\ version' = version)
    <3>1. CASE Cardinality(page) < PageSize
      BY <2>1, <3>1 DEF NextPage
    <3>2. CASE ~(Cardinality(page) < PageSize)
      BY <2>1, <3>2 DEF NextPage, Goto
    <3> QED
      BY <3>1, <3>2
  <2> HIDE DEF l
  <2>4. /\ cursor' \in [Versions -> Position]
        /\ \A v \in Versions : Covered(v, cursor'[v])
    BY <1>0, <2>1, <2>2 DEF SyncInv
  <2>5. \A v \in Versions : Covered(v, cursor[v])'
    BY <1>0, <2>4 DEF Covered
  <2>6. CASE EndVersion
    BY <1>0, <2>1, <2>4, <2>5, <2>6, EndVersionLeaves DEF SyncInv, CacheOfInflux
  <2>7. CASE pc' = "fetch" /\ last' = l /\ version' = version
    <3>1. Covered(version, last)'
      BY <1>0, <2>2, <2>7 DEF Covered
    <3> QED
      BY <1>0, <2>1, <2>2, <2>4, <2>5, <2>7, <3>1 DEF SyncInv, WithPage, CacheOfInflux
  <2> QED
    BY <2>1, <2>3, <2>6, <2>7
<1>7. CASE EndOfSync \/ Stop \/ Crash
  <2>1. /\ pc' \in {"idle", "down"} /\ version' = "v2" /\ last' = fallback
        /\ UNCHANGED <<head, cursor>>
    BY <1>7 DEF EndOfSync, Exit, Stop, Crash, AtRest
  <2> QED
    BY <1>0, <2>1, SyncLeaves DEF WithPage
<1>8. CASE StartProcess \/ Tick
  <2>1. pc' = "begin" /\ version' = "v2" /\ UNCHANGED <<last, head, cursor>>
    BY <1>8 DEF StartProcess, Tick, BeginSync
  <2> QED
    BY <1>0, <2>1, SyncLeaves DEF WithPage
<1>9. CASE Timer \/ NewBlock \/ UNCHANGED vars
  <2>1. UNCHANGED <<cursor, pc, version, last, page>> /\ head' \in Nat
    BY <1>0, <1>9 DEF Timer, NewBlock, vars, sync
  <2> QED
    BY <1>0, <2>1, SyncStays
<1> QED
  BY <1>1, <1>2, <1>3, <1>4, <1>5, <1>6, <1>7, <1>8, <1>9 DEF Next, SyncStep

LEMMA SyncStarts == Init => SyncInv
BY FallbackCovers DEF Init, BufferInit, SyncInv, Versions, WithPage

\* No cursor stands for a pool that the store has not taken, however pages,
\* failures, indexers that lag and restarts of the process follow each other.
THEOREM CursorsAreCovered == Spec => []CursorCovered
<1>1. SyncInv => CursorCovered
  <2>1. \A v \in Versions : \A p \in Wanted(v) : p \in Subgraph[v] /\ p.ts >= Since - 1
    BY SinceAssumption, PoolsTyped DEF Wanted
  <2> QED
    BY <2>1 DEF SyncInv, Covered, CursorCovered
<1> QED
  BY <1>1, SyncStarts, SyncKeeps, PTL DEF Spec
-----------------------------------------------------------------------------
(* The sync is a copy in the order of creation.                            *)

\* A page that is taken is a page of the copy, or was taken before.
LEMMA PageIsCopied ==
  ASSUME SyncInv, PageTaken
  PROVE  [Copy!Next]_copied
<1> DEFINE new == {p \in page : <<version, p.id>> \notin taken}
<1>1. version \in Versions /\ DOMAIN Subgraph = Versions
  BY SubgraphAssumption DEF SyncInv, Versions
<1>2. /\ IsFiniteSet(page) /\ Cardinality(page) <= PageSize
      /\ page \subseteq Subgraph[version]
      /\ \A p \in page : p.ts >= Since - 1
      /\ \A p \in page : \A q \in Subgraph[version] :
           Less(q, p) /\ q.ts >= Since - 1 => Rows(version, {q}) \subseteq taken \/ q \in page
  BY PageIsNext DEF PageTaken, WithPage
<1>3. \A v \in Versions : copied'[v] = IF v = version THEN copied[v] \cup page ELSE copied[v]
  BY <1>1, <1>2, RowsOfPools DEF copied, PageTaken
<1>4. CASE new = {}
  <2>1. \A v \in Versions : copied'[v] = copied[v]
    BY <1>2, <1>3, <1>4 DEF copied
  <2> QED
    BY <2>1 DEF copied
<1>5. CASE new # {}
  <2>1. new \in SUBSET (Subgraph[version] \ copied[version])
    BY <1>1, <1>2 DEF copied
  <2>2. Cardinality(new) <= PageSize
    <3>1. Cardinality(new) <= Cardinality(page) /\ Cardinality(new) \in Nat /\ Cardinality(page) \in Nat
      BY <1>2, FS_Subset, FS_CardinalityType
    <3> QED
      BY <1>2, <3>1, PageSizeAssumption
  <2>3. ASSUME NEW p \in new, NEW q \in Subgraph[version], Less(q, p), q.ts >= Since - 1
        PROVE  q \in copied[version] \cup new
    <3>1. CASE Rows(version, {q}) \subseteq taken
      BY <1>1, <3>1 DEF copied, Rows
    <3>2. CASE q \in page
      BY <1>1, <3>2 DEF copied
    <3> QED
      BY <1>2, <2>3, <3>1, <3>2
  <2>4. copied' = [copied EXCEPT ![version] = @ \cup new]
    BY <1>1, <1>2, <1>3 DEF copied
  <2> HIDE DEF new
  <2>5. /\ new # {} /\ \A p \in new : p.ts >= Since - 1
        /\ \A p \in new : \A q \in Subgraph[version] :
             Copy!Less(q, p) /\ q.ts >= Since - 1 => q \in copied[version] \cup new
    BY <1>2, <1>5, <2>3 DEF Copy!Less, Less, new
  <2>6. Copy!CopyPage(version)
    <3>1. Copy!Cardinality(new) = Cardinality(new)
      BY Zenon DEF Copy!Cardinality, Cardinality
    <3> QED
      BY <2>1, <2>2, <2>4, <2>5, <3>1 DEF Copy!CopyPage
  <2> QED
    BY <1>1, <2>6 DEF Copy!Next
<1> QED
  BY <1>4, <1>5

LEMMA CopyStarts == Init => Copy!Init
<1> SUFFICES ASSUME Init PROVE Copy!Init
  OBVIOUS
<1>1. taken = {} /\ DOMAIN Subgraph = Versions
  BY SubgraphAssumption DEF Init, BufferInit, taken, Versions
<1>2. copied = [v \in Versions |-> {}]
  BY <1>1 DEF copied
<1> QED
  BY <1>1, <1>2 DEF Copy!Init

\* Whatever fails, over either store: each step of the sync copies the next
\* page in the order of creation, or none.
THEOREM SyncIsACopy == Spec => ImplementsCopy
<1>1. SyncInv /\ [Next]_vars => [Copy!Next]_copied
  <2> SUFFICES ASSUME SyncInv, [Next]_vars PROVE [Copy!Next]_copied
    OBVIOUS
  <2>1. taken' = taken \/ PageTaken
    BY TakenGoes DEF SyncInv, CacheOfInflux
  <2>2. CASE taken' = taken
    BY <2>2 DEF copied
  <2> QED
    BY <2>1, <2>2, PageIsCopied
<1> QED
  BY <1>1, CopyStarts, SyncStarts, SyncKeeps, PTL DEF Spec, ImplementsCopy, Copy!Spec

-----------------------------------------------------------------------------
(* Types.                                                                  *)

\* A page has finitely many rows, and one if it has a pool.
LEMMA RowsFinite ==
  ASSUME NEW v \in Versions, NEW pools \in SUBSET Subgraph[v]
  PROVE  IsFiniteSet(Rows(v, pools)) /\ (pools # {} => Rows(v, pools) # {})
<1> DEFINE ofPools == {<<v, p.id>> : p \in pools}
           ofTokens(p) == {<<"token", t>> : t \in p.tokens}
           tokenRows == {ofTokens(p) : p \in pools}
<1>1. IsFiniteSet(pools) /\ \A p \in pools : IsFiniteSet(p.tokens)
  BY SubgraphAssumption, FS_Subset DEF Versions
<1>2. IsFiniteSet(ofPools)
  <2>1. [p \in pools |-> <<v, p.id>>] \in Surjection(pools, ofPools)
    BY DEF Surjection
  <2> QED
    BY <1>1, <2>1, FS_Surjection
<1>3. ASSUME NEW p \in pools PROVE IsFiniteSet(ofTokens(p))
  <2>1. [t \in p.tokens |-> <<"token", t>>] \in Surjection(p.tokens, ofTokens(p))
    BY DEF Surjection
  <2> QED
    BY <1>1, <2>1, FS_Surjection
<1>4. IsFiniteSet(tokenRows)
  <2> HIDE DEF ofTokens
  <2>1. [p \in pools |-> ofTokens(p)] \in Surjection(pools, tokenRows)
    BY DEF Surjection
  <2> QED
    BY <1>1, <2>1, FS_Surjection
<1>5. IsFiniteSet(UNION tokenRows)
  <2> HIDE DEF ofTokens
  <2> QED
    BY <1>3, <1>4, FS_UNION
<1>6. Rows(v, pools) = ofPools \cup UNION tokenRows
  BY DEF Rows
<1>7. pools # {} => ofPools # {}
  OBVIOUS
<1> HIDE DEF ofPools, tokenRows
<1> QED
  BY <1>2, <1>5, <1>6, <1>7, FS_Union

\* The count of the buffer, which counts a row that is added twice twice, is
\* zero just when the buffer is empty; only the InfluxDB store has a buffer.
BufferTyped ==
  /\ IsFiniteSet(cache) /\ totalCount \in Nat
  /\ (totalCount = 0) = (cache = {}) /\ totalCount >= Cardinality(cache)
  /\ store = "relational" => cache = {} /\ lost = {} /\ timer = "wait"

LEMMA Counted ==
  ASSUME NEW S, IsFiniteSet(S)
  PROVE  Cardinality(S) \in Nat /\ (Cardinality(S) = 0 <=> S = {})
BY FS_CardinalityType, FS_EmptySet

LEMMA EmptiedTyped ==
  ASSUME BufferTyped, store' = store, clearBatchCache,
         timer' \in {timer, "wait"}, lost' \in {lost, lost \cup cache}
  PROVE  BufferTyped'
BY FS_EmptySet DEF BufferTyped, clearBatchCache

LEMMA AddedTyped ==
  ASSUME BufferTyped, store' = store, store # "relational",
         NEW rows, IsFiniteSet(rows), rows # {}, addToBatch(rows)
  PROVE  BufferTyped'
<1> USE DEF BufferTyped, addToBatch
<1>1. IsFiniteSet(cache \cup rows)
  BY FS_Union
<1>2. /\ Cardinality(cache \cup rows) = Cardinality(cache) + Cardinality(rows) - Cardinality(cache \cap rows)
      /\ IsFiniteSet(cache \cap rows)
  BY FS_Union, FS_Intersection
<1>3. /\ Cardinality(cache) \in Nat /\ Cardinality(rows) \in Nat \ {0}
      /\ Cardinality(cache \cap rows) \in Nat
  BY <1>2, Counted
<1> QED
  BY <1>1, <1>2, <1>3

LEMMA BufferKeeps ==
  ASSUME BufferTyped, version \in Versions, page \subseteq Subgraph[version],
         pc = "store" => page # {}, [Next]_vars
  PROVE  BufferTyped'
<1>1. store' = store
  BY DEF Next, SyncStep, resumeCursor, Query, QueryFails, StorePage, StorePageFails, CheckBuffer,
     WarmCache, SetCursor, EndOfSync, StartProcess, Tick, Stop, Crash, Timer, NewBlock, vars, fixed
<1>2. CASE UNCHANGED <<cache, totalCount, timer, lost>>
  BY <1>1, <1>2 DEF BufferTyped
<1>3. ASSUME NEW arrives \in BOOLEAN, flushBatch(arrives), timer' \in {timer, "wait"}
      PROVE  BufferTyped'
  <2>1. clearBatchCache /\ lost' \in {lost, lost \cup cache}
    BY <1>3 DEF flushBatch
  <2> QED
    BY <1>1, <1>3, <2>1, EmptiedTyped
<1>4. CASE GoneWithTheProcess
  BY <1>1, <1>4, EmptiedTyped DEF GoneWithTheProcess
<1>5. CASE StorePage
  <2>1. CASE store = "relational"
    BY <1>2, <1>5, <2>1 DEF StorePage, buffer
  <2>2. CASE store # "relational"
    <3>1. pc = "store" /\ addToBatch(Rows(version, page)) /\ UNCHANGED <<timer, lost>>
      BY <1>5, <2>2 DEF StorePage
    <3> QED
      BY <1>1, <2>2, <3>1, RowsFinite, AddedTyped
  <2> QED
    BY <2>1, <2>2
<1>6. CASE CheckBuffer
  BY <1>2, <1>3, <1>6 DEF CheckBuffer, buffer
<1>7. CASE EndOfSync
  BY <1>2, <1>3, <1>4, <1>7 DEF EndOfSync, Exit, Close, buffer
<1>8. CASE Stop
  BY <1>3, <1>8 DEF Stop, Close
<1>9. CASE Timer
  <2>1. CASE TimePasses
    BY <1>2, <2>1 DEF TimePasses
  <2>2. CASE TimerReads
    BY <1>1, <2>2 DEF TimerReads, BufferTyped
  <2>3. ASSUME NEW arrives \in BOOLEAN, TimerFlushes(arrives) PROVE BufferTyped'
    BY <1>3, <2>3 DEF TimerFlushes
  <2> QED
    BY <1>9, <2>1, <2>2, <2>3 DEF Timer
<1> QED
  BY <1>2, <1>4, <1>5, <1>6, <1>7, <1>8, <1>9 DEF Next, SyncStep, resumeCursor, Query, QueryFails,
     StorePageFails, WarmCache, SetCursor, StartProcess, Tick, Crash, NewBlock, vars, buffer

\* The run as a whole.
SettingTyped ==
  /\ store \in {"relational", "influx"} /\ mode \in {"once", "loop"}
  /\ head \in 0..LastBlock /\ faults \in 0..MaxFaults

\* The sync has a page in hand just between its query and its cursor.
PlaceTyped ==
  /\ pc \in {"down", "idle", "begin", "fetch", "store", "check", "warm", "cursor", "end"}
  /\ version \in Versions /\ failed \in BOOLEAN /\ page \subseteq Subgraph[version]
  /\ (page # {}) = (pc \in WithPage)

\* A process that is gone left nothing in its buffer.
DownEmpty == pc = "down" => cache = {}

LEMMA SettingKeeps ==
  ASSUME SettingTyped, [Next]_vars
  PROVE  SettingTyped'
<1>1. UNCHANGED <<store, mode>> /\ head' \in {head} \cup {h \in {head + 1} : head < LastBlock}
  BY DEF Next, SyncStep, resumeCursor, Query, QueryFails, StorePage, StorePageFails, CheckBuffer,
     WarmCache, SetCursor, EndOfSync, StartProcess, Tick, Stop, Crash, Timer, NewBlock, vars, fixed
<1>2. faults' = faults \/ (faults < MaxFaults /\ faults' = faults + 1)
  BY DEF Next, SyncStep, resumeCursor, Query, QueryFails, StorePage, StorePageFails, CheckBuffer,
     WarmCache, SetCursor, EndOfSync, Exit, StartProcess, Tick, Stop, Crash, Timer, NewBlock, vars,
     Fine, Arrive, GoesWrong
<1> QED
  BY <1>1, <1>2, BoundsAssumption DEF SettingTyped

LEMMA EndVersionTyped ==
  ASSUME EndVersion
  PROVE  /\ pc' \in {"begin", "end"} /\ version' \in Versions /\ page' = {}
BY DEF EndVersion, Versions

LEMMA PlaceKeeps ==
  ASSUME PlaceTyped, head \in Nat, [Next]_vars
  PROVE  PlaceTyped'
<1> USE DEF WithPage
<1>1. CASE UNCHANGED <<pc, version, failed, page>>
  BY <1>1 DEF PlaceTyped
<1>2. ASSUME NEW place \in {"down", "idle"}, AtRest(place) PROVE PlaceTyped'
  <2>1. pc' = place /\ version' = "v2" /\ page' = {} /\ failed' = FALSE
    BY <1>2 DEF AtRest
  <2>2. (page' # {}) = (pc' \in WithPage)
    BY <2>1
  <2> QED
    BY <2>1, <2>2 DEF PlaceTyped, Versions
<1>3. ASSUME EndVersion, failed' \in BOOLEAN PROVE PlaceTyped'
  BY <1>3, EndVersionTyped DEF PlaceTyped
<1>4. CASE resumeCursor
  BY <1>4 DEF resumeCursor, Goto, PlaceTyped
<1>5. CASE Query
  <2>1. PICK h \in 0..head :
          LET got == Fetched(version, last, h)
          IN IF got = {} THEN EndVersion
             ELSE page' = got /\ pc' = "store" /\ UNCHANGED <<version, last>>
    BY <1>5 DEF Query, Goto
  <2>2. failed' = failed
    BY <1>5 DEF Query
  <2>3. CASE Fetched(version, last, h) = {}
    BY <1>3, <2>1, <2>2, <2>3 DEF PlaceTyped
  <2>4. CASE Fetched(version, last, h) # {}
    <3>1. page' = Fetched(version, last, h) /\ pc' = "store" /\ version' = version
      BY <2>1, <2>4
    <3>2. Fetched(version, last, h) \subseteq Subgraph[version]
      BY DEF Fetched, After
    <3> QED
      BY <2>2, <2>4, <3>1, <3>2 DEF PlaceTyped
  <2> QED
    BY <2>3, <2>4
<1>6. CASE QueryFails \/ StorePageFails
  BY <1>3, <1>6 DEF QueryFails, StorePageFails, VersionFails
<1>7. CASE StorePage \/ CheckBuffer \/ WarmCache
  BY <1>7 DEF StorePage, CheckBuffer, WarmCache, Goto, sync, PlaceTyped
<1>8. CASE SetCursor
  <2>1. failed' = failed /\ pc = "cursor" /\ NextPage
    BY <1>8 DEF SetCursor
  <2>2. CASE EndVersion
    BY <1>3, <2>1, <2>2 DEF PlaceTyped
  <2>3. CASE pc' = "fetch" /\ page' = {} /\ version' = version
    BY <2>1, <2>3 DEF PlaceTyped
  <2>4. EndVersion \/ (pc' = "fetch" /\ page' = {} /\ version' = version)
    BY <2>1 DEF NextPage, Goto
  <2> QED
    BY <2>2, <2>3, <2>4
<1>9. CASE EndOfSync \/ Stop \/ Crash
  BY <1>2, <1>9 DEF EndOfSync, Exit, Stop, Crash
<1>10. CASE StartProcess \/ Tick
  <2>1. pc \in {"down", "idle"} /\ pc' = "begin" /\ version' = "v2" /\ page' = page /\ failed' = FALSE
    BY <1>10 DEF StartProcess, Tick, BeginSync
  <2>2. page' = {} /\ (page' # {}) = (pc' \in WithPage)
    BY <2>1 DEF PlaceTyped
  <2> QED
    BY <2>1, <2>2 DEF PlaceTyped, Versions
<1> QED
  BY <1>1, <1>4, <1>5, <1>6, <1>7, <1>8, <1>9, <1>10 DEF Next, SyncStep, Timer, NewBlock, vars, sync

LEMMA DownStaysEmpty ==
  ASSUME DownEmpty, [Next]_vars
  PROVE  DownEmpty'
<1>1. CASE UNCHANGED <<pc, cache>>
  BY <1>1 DEF DownEmpty
<1>2. CASE pc' # "down"
  BY <1>2 DEF DownEmpty
<1>3. CASE cache' = {}
  BY <1>3 DEF DownEmpty
<1>4. CASE EndOfSync
  BY <1>2, <1>3, <1>4 DEF EndOfSync, Exit, AtRest, Close, flushBatch, clearBatchCache,
     GoneWithTheProcess
<1>5. CASE Stop \/ Crash
  BY <1>3, <1>5 DEF Stop, Crash, Close, flushBatch, clearBatchCache, GoneWithTheProcess
<1>6. CASE Timer
  BY <1>2, <1>6 DEF Timer
<1>7. CASE resumeCursor \/ StorePage \/ CheckBuffer \/ WarmCache \/ StartProcess \/ Tick
  BY <1>2, <1>7 DEF resumeCursor, StorePage, CheckBuffer, WarmCache, StartProcess, Tick, Goto,
     BeginSync
<1>8. CASE Query \/ SetCursor
  BY <1>2, <1>8, EndVersionTyped DEF Query, SetCursor, NextPage, Goto
<1>9. CASE QueryFails \/ StorePageFails
  BY <1>2, <1>9, EndVersionTyped DEF QueryFails, StorePageFails, VersionFails
<1>10. CASE NewBlock \/ UNCHANGED vars
  BY <1>1, <1>10 DEF NewBlock, vars, buffer
<1> QED
  BY <1>4, <1>5, <1>6, <1>7, <1>8, <1>9, <1>10 DEF Next, SyncStep

\* The types of the sync and of its buffer: a page in hand is one of its
\* version, a relational store has no buffer, and a buffer that counts no rows
\* has none.
THEOREM SyncTypeCorrect == Spec => []TypeOK
<1> DEFINE Inv == SettingTyped /\ PlaceTyped /\ DownEmpty /\ BufferTyped
<1>1. Init => Inv
  <2> SUFFICES ASSUME Init PROVE Inv
    OBVIOUS
  <2>1. SettingTyped /\ DownEmpty
    BY ChoicesAssumption, BoundsAssumption DEF Init, BufferInit, SettingTyped, DownEmpty
  <2>2. PlaceTyped
    <3>1. pc = "down" /\ version = "v2" /\ page = {} /\ failed = FALSE
      BY DEF Init
    <3>2. (page # {}) = (pc \in WithPage)
      BY <3>1 DEF WithPage
    <3> QED
      BY <3>1, <3>2 DEF PlaceTyped, Versions
  <2>3. BufferTyped
    BY FS_EmptySet DEF Init, BufferInit, BufferTyped
  <2> QED
    BY <2>1, <2>2, <2>3
<1>2. Inv /\ [Next]_vars => Inv'
  <2> SUFFICES ASSUME Inv, [Next]_vars PROVE Inv'
    OBVIOUS
  <2>1. head \in Nat
    BY BoundsAssumption DEF SettingTyped
  <2>2. version \in Versions /\ page \subseteq Subgraph[version] /\ (pc = "store" => page # {})
    BY DEF PlaceTyped, WithPage
  <2> QED
    BY <2>1, <2>2, SettingKeeps, PlaceKeeps, DownStaysEmpty, BufferKeeps
<1>3. Inv => TypeOK
  BY DEF TypeOK, SettingTyped, PlaceTyped, DownEmpty, BufferTyped, WithPage
<1> QED
  BY <1>1, <1>2, <1>3, PTL DEF Spec

=============================================================================
