------------------------------- MODULE TokenMeta -------------------------------
(***************************************************************************)
(* Where the metadata of a token lives and who puts it there.  The         *)
(* scanning goroutine and the pending queue's worker of a parser look it   *)
(* up in the process's memory, in Redis and with the node, and store it    *)
(* with the pool they found it for; a warm-up fills memory and Redis from  *)
(* the tables when the process starts; another process, the graph sync,    *)
(* fills tables and Redis.  Memory and Redis keep an entry for 30 days.    *)
(*                                                                         *)
(* Of a token's metadata the model keeps whether it is the token's own or  *)
(* the default of 18 decimals.  An address is a token in one of two        *)
(* spellings: with a checksum, as the parser writes it, or in lower case,  *)
(* as the subgraphs do.  Memory and tables tell them apart (a table of     *)
(* PostgreSQL does), Redis does not.  Placeholder rows of pools are the    *)
(* business of SwapPipeline and left out here.                             *)
(***************************************************************************)
EXTENDS Integers, Sequences, FiniteSets

CONSTANTS
  Token, Pool,
  TokensOf,     \* [Pool -> <<token0, token1>>]
  Subgraph,     \* the pools that a subgraph has
  Batches,      \* Seq(Seq(event)): the Uniswap logs, batch by batch
  MaxAttempts,  \* of the pending queue
  Faults,       \* "rpc", "limit", "redis", "store", "crash", "expiry"
  MaxFaults     \* bound: how many things go wrong, or expire, in a behaviour

ASSUME TokensAssumption ==
  \A p \in Pool : TokensOf[p] \in Token \X Token /\ TokensOf[p][1] # TokensOf[p][2]
ASSUME SubgraphAssumption == Subgraph \subseteq Pool
\* A batch without such a log changes nothing here and is left out.
ASSUME LogsAssumption ==
  /\ Batches \in Seq(Seq([kind : {"swap", "created"}, pool : Pool]))
  /\ \A b \in DOMAIN Batches : Batches[b] # <<>>
ASSUME MaxAttemptsAssumption == MaxAttempts \in Nat \ {0}

VARIABLES
  up,         \* the parser is running
  memory,     \* [Address -> knowledge] tokenCache
  seen,       \* [Pool -> spelling] seenPools, "none" if not in it
  redis,      \* [Token -> knowledge] token_meta:*
  redisPool,  \* [Pool -> spelling] pool_meta:*
  row,        \* [Address -> knowledge] dex_tokens
  poolRow,    \* the rows of dex_pools with tokens, a pool and a spelling each
  at,         \* [Caller -> [pc, todo, value]] where each goroutine is
  got,        \* [Caller -> [Token -> knowledge]] the tokens it is to store
  event,      \* the scanning goroutine's place in its batch
  found,      \* the pools created in the batch
  done,       \* batches the saved progress covers
  waiting,    \* [Pool -> attempts] groups of the pending queue, -1 if none
  handed,     \* the pool the worker is at
  flight,     \* [Token -> caller] tokenSF, Nobody if there is no call
  warmUp,     \* warmRedisCacheAsync: its step and its tokens
  marker,     \* dexcache:warmup:marker
  graph,      \* [Pool -> "new", "stored", "done"] the graph sync's work on it
  calls,      \* history: [Token -> Nat] calls of this process to the node,
              \*          since the token last expired from memory
  warmed,     \* history: tokens this process knew when it started, but for
              \*          those that have expired from memory since
  wrong       \* history: what has gone wrong or expired, as a sequence

caches  == <<memory, seen, redis, redisPool>>
tables  == <<row, poolRow, done>>
scan    == <<event, found>>
queue   == <<waiting, handed>>
startUp == <<warmUp, marker, graph>>
history == <<calls, warmed>>
vars == <<up, caches, tables, at, got, scan, queue, flight, startUp, history, wrong>>

Caller == {"scan", "worker"}
Spelling == {"mixed", "lower"}
Knowledge == {"none", "default", "own"}
Nobody == "nobody"
Address == Token \X Spelling
FirstPool == CHOOSE p \in Pool : TRUE  \* where handed is when nothing is
Unknown == [t \in Token |-> "none"]

Has(kind) == \E i \in DOMAIN wrong : wrong[i] = kind
GoesWrong(kind) == kind \in Faults /\ Len(wrong) < MaxFaults /\ wrong' = Append(wrong, kind)
Fine == UNCHANGED wrong

\* A lookup of Redis that fails is a miss, a write that fails is not made.
Read(value, v) == (v = value /\ Fine) \/ (v = "none" /\ value # "none" /\ GoesWrong("redis"))

AtPc(c, pc) == up /\ at[c].pc = pc
Go(c, pc) == at' = [at EXCEPT ![c].pc = pc]
token(c) == Head(at[c].todo)
Idle == [pc |-> "idle", todo |-> <<>>, value |-> "none"]
Rest(c) == at' = [at EXCEPT ![c] = Idle] /\ got' = [got EXCEPT ![c] = Unknown]
At(pc, todo) == [pc |-> pc, todo |-> todo, value |-> "none"]
MoveOn(c, pc) == at' = [at EXCEPT ![c] = At(pc, Tail(@.todo))]

\* With its tokens in hand, the worker stores them; the scanning goroutine
\* looks at each before it asks.
WithTokens(c, todo) ==
  At(IF c = "scan" THEN "tokens" ELSE IF todo = <<>> THEN "store" ELSE "fetch", todo)

-----------------------------------------------------------------------------
(* fetchTokenMeta, called by both goroutines for the head of their todo.   *)

\* Mutant: nobody is told but the caller itself.
AnsweredAlone(c, value) ==
  /\ at' = [at EXCEPT ![c] = WithTokens(c, Tail(@.todo))]
  /\ got' = [got EXCEPT ![c][token(c)] = value]

\* The caller gets the answer, and so does one that waits for the same call.
Answered(c, value) ==
  LET all == {c} \cup {d \in Caller : at[d].pc = "wait" /\ token(d) = token(c)}
  IN /\ at' = [d \in Caller |-> IF d \in all
                 THEN WithTokens(d, Tail(at[d].todo)) ELSE at[d]]
     /\ got' = [d \in Caller |-> IF d \in all THEN [got[d] EXCEPT ![token(c)] = value] ELSE got[d]]

\* Mutant: the call is not taken off the table.
FinishKeepsFlight(c, value) == Answered(c, value) /\ UNCHANGED flight

Finish(c, value) == Answered(c, value) /\ flight' = [flight EXCEPT ![token(c)] = Nobody]

Known(c) == memory[<<token(c), "mixed">>]

fetchTokenMeta(c) ==
  /\ AtPc(c, "fetch")
  /\ IF Known(c) # "none"
     THEN /\ at' = [at EXCEPT ![c] = WithTokens(c, Tail(@.todo))]
          /\ got' = [got EXCEPT ![c][token(c)] = Known(c)]
     ELSE Go(c, "join") /\ UNCHANGED got
  /\ Fine /\ UNCHANGED <<up, caches, tables, scan, queue, flight, startUp, history>>

Do(c) ==
  /\ AtPc(c, "join")
  /\ IF flight[token(c)] = Nobody
     THEN flight' = [flight EXCEPT ![token(c)] = c] /\ Go(c, "recheck")
     ELSE Go(c, "wait") /\ UNCHANGED flight
  /\ Fine /\ UNCHANGED <<up, caches, tables, got, scan, queue, startUp, history>>

\* Mutant: the memory is not looked at again.
RecheckSkipped(c) ==
  /\ AtPc(c, "recheck")
  /\ Go(c, "redis") /\ UNCHANGED <<got, flight>>
  /\ Fine /\ UNCHANGED <<up, caches, tables, scan, queue, startUp, history>>

\* An earlier call may have ended between the lookup and Do.
Recheck(c) ==
  /\ AtPc(c, "recheck")
  /\ IF Known(c) # "none" THEN Finish(c, Known(c)) ELSE Go(c, "redis") /\ UNCHANGED <<got, flight>>
  /\ Fine /\ UNCHANGED <<up, caches, tables, scan, queue, startUp, history>>

getTokenMetaFromRedis(c) ==
  /\ AtPc(c, "redis")
  /\ \E v \in Knowledge :
       /\ Read(redis[token(c)], v)
       /\ at' = [at EXCEPT ![c].pc = IF v = "none" THEN "call" ELSE "keep", ![c].value = v]
  /\ UNCHANGED <<up, caches, tables, got, scan, queue, flight, startUp, history>>

\* The node answers; or it does not, and the default is as good an answer; or
\* the limiter lets no call through.
resolveTokenMeta(c) ==
  /\ AtPc(c, "call")
  /\ \/ /\ (Fine /\ at' = [at EXCEPT ![c].pc = "set", ![c].value = "own"])
             \/ (GoesWrong("rpc") /\ at' = [at EXCEPT ![c].pc = "set", ![c].value = "default"])
        /\ calls' = [calls EXCEPT ![token(c)] = @ + 1]
     \/ /\ GoesWrong("limit") /\ at' = [at EXCEPT ![c].pc = "keep", ![c].value = "default"]
        /\ UNCHANGED calls
  /\ UNCHANGED <<up, caches, tables, got, scan, queue, flight, startUp, warmed>>

\* What came from Redis, or from the limiter, stays in memory only.
SetInMemory(c) ==
  /\ up /\ at[c].pc \in {"keep", "set"}
  /\ memory' = [memory EXCEPT ![<<token(c), "mixed">>] = at[c].value]
  /\ IF at[c].pc = "keep" THEN Finish(c, at[c].value)
     ELSE Go(c, "write") /\ UNCHANGED <<got, flight>>
  /\ Fine /\ UNCHANGED <<up, seen, redis, redisPool, tables, scan, queue, startUp, history>>

setTokenMetaInRedis(c) ==
  /\ AtPc(c, "write")
  /\ (redis' = [redis EXCEPT ![token(c)] = at[c].value] /\ Fine)
       \/ (UNCHANGED redis /\ GoesWrong("redis"))
  /\ Finish(c, at[c].value)
  /\ UNCHANGED <<up, memory, seen, redisPool, tables, scan, queue, startUp, history>>

Fetch(c) ==
  \/ fetchTokenMeta(c) \/ Do(c) \/ Recheck(c) \/ getTokenMetaFromRedis(c)
  \/ resolveTokenMeta(c) \/ SetInMemory(c) \/ setTokenMetaInRedis(c)

-----------------------------------------------------------------------------
(* The scanning goroutine.                                                 *)

batch == Batches[done + 1]
log   == batch[event]

StartBatch ==
  /\ AtPc("scan", "idle") /\ done < Len(Batches)
  /\ Go("scan", "log")
  /\ Fine /\ UNCHANGED <<up, caches, tables, got, scan, queue, flight, startUp, history>>

NextLog ==
  IF event = Len(batch) THEN Go("scan", "store") /\ UNCHANGED event
  ELSE Go("scan", "log") /\ event' = event + 1

\* The tokens of a creation are gone through in the order of a Go map.
PoolCreated ==
  /\ AtPc("scan", "log") /\ log.kind = "created"
  /\ seen' = [seen EXCEPT ![log.pool] = "mixed"]
  /\ found' = found \cup {log.pool}
  /\ LET two == TokensOf[log.pool]
     IN \E todo \in {two, <<two[2], two[1]>>} :
          at' = [at EXCEPT !["scan"] = WithTokens("scan", todo)]
  /\ Fine /\ UNCHANGED <<up, memory, redis, redisPool, tables, got, event, queue, flight, startUp, history>>

\* Only a token that is not in memory is asked for, and stored.
TokenOfCreated ==
  /\ AtPc("scan", "tokens")
  /\ \/ /\ at["scan"].todo = <<>> /\ NextLog
     \/ /\ at["scan"].todo # <<>> /\ UNCHANGED event
        /\ IF Known("scan") # "none" THEN MoveOn("scan", "tokens") ELSE Go("scan", "fetch")
  /\ Fine /\ UNCHANGED <<up, caches, tables, got, found, queue, flight, startUp, history>>

\* resolvePoolTokens: memory, Redis, and the pending queue if both fail.
Swap ==
  /\ AtPc("scan", "log") /\ log.kind = "swap"
  /\ \/ /\ seen[log.pool] # "none" /\ Fine
        /\ at' = [at EXCEPT !["scan"] = At("decimals", TokensOf[log.pool])]
        /\ UNCHANGED <<seen, event, waiting>>
     \/ /\ seen[log.pool] = "none" /\ redisPool[log.pool] # "none" /\ Fine
        /\ seen' = [seen EXCEPT ![log.pool] = redisPool[log.pool]]
        /\ at' = [at EXCEPT !["scan"] = At("decimals", TokensOf[log.pool])]
        /\ UNCHANGED <<event, waiting>>
     \/ /\ seen[log.pool] = "none" /\ Read(redisPool[log.pool], "none")
        /\ waiting' = [waiting EXCEPT ![log.pool] = IF @ = -1 THEN 0 ELSE @]
        /\ NextLog /\ UNCHANGED seen
  /\ UNCHANGED <<up, memory, redis, redisPool, tables, got, found, handed, flight, startUp, history>>

\* cachedTokenDecimals, in the spelling in which the pool is known.
address == <<token("scan"), seen[log.pool]>>

CachedDecimals ==
  /\ AtPc("scan", "decimals")
  /\ IF at["scan"].todo = <<>> THEN NextLog /\ Fine
     ELSE /\ UNCHANGED event
          /\ \/ memory[address] # "none" /\ MoveOn("scan", "decimals") /\ Fine
             \/ /\ memory[address] = "none"
                /\ \E v \in Knowledge :
                     /\ Read(redis[token("scan")], v)
                     /\ IF v = "none" THEN MoveOn("scan", "decimals")
                        ELSE at' = [at EXCEPT !["scan"].pc = "backfill", !["scan"].value = v]
  /\ UNCHANGED <<up, caches, tables, got, found, queue, flight, startUp, history>>

BackfillDecimals ==
  /\ AtPc("scan", "backfill")
  /\ memory' = [memory EXCEPT ![address] = at["scan"].value]
  /\ MoveOn("scan", "decimals")
  /\ Fine /\ UNCHANGED <<up, seen, redis, redisPool, tables, got, scan, queue, flight, startUp, history>>

\* The rows after an upsert of pools and of the tokens in got, in one spelling.
Stored(pools, tokens, spelling) ==
  /\ poolRow' = poolRow \cup (pools \X {spelling})
  /\ row' = [a \in Address |->
               IF a[2] = spelling /\ tokens[a[1]] # "none" THEN tokens[a[1]] ELSE row[a]]

\* Mutant: the tokens of the batch are forgotten.
StoreBatchWithoutTokens ==
  /\ AtPc("scan", "store") /\ Stored(found, Unknown, "mixed") /\ Go("scan", "commit") /\ Fine
  /\ UNCHANGED <<up, caches, done, got, scan, queue, flight, startUp, history>>

EndBatch == Rest("scan") /\ event' = 1 /\ found' = {}

\* A batch whose store fails is given up and started again.
StoreBatch ==
  /\ AtPc("scan", "store")
  /\ \/ /\ Stored(found, got["scan"], "mixed") /\ Go("scan", "commit") /\ Fine
        /\ UNCHANGED <<got, scan>>
     \/ GoesWrong("store") /\ EndBatch /\ UNCHANGED <<row, poolRow>>
  /\ UNCHANGED <<up, caches, done, queue, flight, startUp, history>>

Commit ==
  /\ AtPc("scan", "commit") /\ done' = done + 1 /\ EndBatch
  /\ Fine /\ UNCHANGED <<up, caches, row, poolRow, queue, flight, startUp, history>>

Scan ==
  \/ StartBatch \/ PoolCreated \/ TokenOfCreated \/ Swap \/ CachedDecimals
  \/ BackfillDecimals \/ StoreBatch \/ Commit \/ Fetch("scan")

-----------------------------------------------------------------------------
(* The worker of the pending queue: resolvePendingPool.                    *)

WorkerTakes ==
  /\ AtPc("worker", "idle")
  /\ \E p \in Pool : waiting[p] # -1 /\ handed' = p
  /\ Go("worker", "resolve")
  /\ Fine /\ UNCHANGED <<up, caches, tables, got, scan, waiting, flight, startUp, history>>

\* The group stays for another attempt, unless it was the last.
WorkerFails ==
  /\ waiting' = [waiting EXCEPT ![handed] = IF @ + 1 >= MaxAttempts THEN -1 ELSE @ + 1]
  /\ Rest("worker") /\ handed' = FirstPool

ResolvePool ==
  /\ AtPc("worker", "resolve")
  /\ \/ /\ Fine /\ seen' = [seen EXCEPT ![handed] = "mixed"]
        /\ Go("worker", "cache") /\ UNCHANGED <<got, queue>>
     \/ /\ GoesWrong("rpc") \/ GoesWrong("limit")
        /\ WorkerFails /\ UNCHANGED seen
  /\ UNCHANGED <<up, memory, redis, redisPool, tables, scan, flight, startUp, history>>

CachePool ==
  /\ AtPc("worker", "cache")
  /\ (redisPool' = [redisPool EXCEPT ![handed] = "mixed"] /\ Fine)
       \/ (UNCHANGED redisPool /\ GoesWrong("redis"))
  /\ at' = [at EXCEPT !["worker"] = WithTokens("worker", TokensOf[handed])]
  /\ UNCHANGED <<up, memory, seen, redis, tables, got, scan, queue, flight, startUp, history>>

StoreResolved ==
  /\ AtPc("worker", "store")
  /\ \/ /\ Fine /\ Stored({handed}, got["worker"], "mixed")
        /\ waiting' = [waiting EXCEPT ![handed] = -1]
        /\ Rest("worker") /\ handed' = FirstPool
     \/ GoesWrong("store") /\ WorkerFails /\ UNCHANGED <<row, poolRow>>
  /\ UNCHANGED <<up, caches, done, scan, flight, startUp, history>>

\* A poll that finds nothing.
WorkerPolls ==
  AtPc("worker", "idle") /\ (\A p \in Pool : waiting[p] = -1) /\ UNCHANGED vars

Worker ==
  \/ WorkerTakes \/ ResolvePool \/ CachePool \/ StoreResolved \/ Fetch("worker") \/ WorkerPolls

-----------------------------------------------------------------------------
(* Start-up and its warm-ups, the end of a process, the graph sync.        *)

\* What the spellings of a token leave in a cache that does not tell them apart.
OfTable(t, table) == {table[<<t, s>>] : s \in Spelling} \ {"none"}

Snapshots == {f \in [Token -> Knowledge] : \A t \in Token :
                IF OfTable(t, row) = {} THEN f[t] = "none" ELSE f[t] \in OfTable(t, row)}

\* Mutant: the memory starts empty.
WarmNothing(read) ==
  /\ memory' = [a \in Address |-> "none"]
  /\ seen' = [p \in Pool |-> "none"]
  /\ warmed' = {t \in Token : "tokens" \in read /\ row[<<t, "mixed">>] # "none"}

\* WarmupTokenMeta and WarmupPoolTokens, before the engine starts, with what
\* could be read from the tables.  A pool in lower case is put where it is not
\* looked for.
WarmMemory(read) ==
  /\ memory' = [a \in Address |-> IF "tokens" \in read THEN row[a] ELSE "none"]
  /\ seen' = [p \in Pool |-> IF "pools" \in read /\ <<p, "mixed">> \in poolRow THEN "mixed" ELSE "none"]
  /\ warmed' = {t \in Token : "tokens" \in read /\ row[<<t, "mixed">>] # "none"}

StartProcess ==
  /\ ~up /\ up' = TRUE
  /\ \E read \in SUBSET {"pools", "tokens"} :
       /\ IF read = {"pools", "tokens"} THEN Fine ELSE GoesWrong("store")
       /\ WarmMemory(read)
       /\ IF marker THEN warmUp' = [pc |-> "done", tokens |-> Unknown]
          ELSE \E f \in IF "tokens" \in read THEN Snapshots ELSE {Unknown} :
                 warmUp' = [pc |-> IF f = Unknown THEN "pools" ELSE "tokens", tokens |-> f]
  /\ calls' = [t \in Token |-> 0]
  /\ UNCHANGED <<redis, redisPool, tables, at, got, scan, queue, flight, marker, graph>>

WarmPc(pc, next) == up /\ warmUp.pc = pc /\ warmUp' = [pc |-> next, tokens |-> Unknown]

\* The tokens the table had when the process started.
WarmTokens ==
  /\ WarmPc("tokens", "pools")
  /\ \/ Fine /\ redis' = [t \in Token |-> IF warmUp.tokens[t] = "none" THEN redis[t] ELSE warmUp.tokens[t]]
     \/ GoesWrong("redis") /\ UNCHANGED redis
  /\ UNCHANGED <<up, memory, seen, redisPool, tables, at, got, scan, queue, flight, marker, graph, history>>

SpellingsOf(p) == {s \in Spelling : <<p, s>> \in poolRow}

\* The pools it has now; then, whether or not anything failed, the marker.
WarmPools ==
  /\ WarmPc("pools", "done")
  /\ \E f \in [Pool -> Spelling \cup {"none"}] :
       /\ \A p \in Pool :
            IF SpellingsOf(p) = {} THEN f[p] = redisPool[p] ELSE f[p] \in SpellingsOf(p)
       /\ \/ Fine /\ redisPool' = f /\ marker' = TRUE
          \/ GoesWrong("redis") /\ redisPool' = redisPool /\ marker' = TRUE
          \/ GoesWrong("redis") /\ redisPool' = f /\ UNCHANGED marker
  /\ UNCHANGED <<up, memory, seen, redis, tables, at, got, scan, queue, flight, graph, history>>

WarmUp == WarmTokens \/ WarmPools

Crash ==
  /\ up /\ GoesWrong("crash") /\ up' = FALSE
  /\ memory' = [a \in Address |-> "none"] /\ seen' = [p \in Pool |-> "none"]
  /\ at' = [c \in Caller |-> Idle] /\ got' = [c \in Caller |-> Unknown]
  /\ event' = 1 /\ found' = {}
  /\ waiting' = [p \in Pool |-> -1] /\ handed' = FirstPool
  /\ flight' = [t \in Token |-> Nobody]
  /\ warmUp' = [pc |-> "done", tokens |-> Unknown]
  /\ UNCHANGED <<redis, redisPool, tables, marker, graph, history>>

TokenSet(p) == {TokensOf[p][1], TokensOf[p][2]}

GraphStores(p) ==
  /\ graph[p] = "new" /\ graph' = [graph EXCEPT ![p] = "stored"]
  /\ Stored({p}, [t \in Token |-> IF t \in TokenSet(p) THEN "own" ELSE "none"], "lower")
  /\ Fine /\ UNCHANGED <<up, caches, done, at, got, scan, queue, flight, warmUp, marker, history>>

GraphCaches(p) ==
  /\ graph[p] = "stored" /\ graph' = [graph EXCEPT ![p] = "done"]
  /\ redis' = [t \in Token |-> IF t \in TokenSet(p) THEN "own" ELSE redis[t]]
  /\ redisPool' = [redisPool EXCEPT ![p] = "lower"]
  /\ Fine /\ UNCHANGED <<up, memory, seen, tables, at, got, scan, queue, flight, warmUp, marker, history>>

Graph == \E p \in Pool : GraphStores(p) \/ GraphCaches(p)

-----------------------------------------------------------------------------
(* Expiry.  seenPools alone keeps what it has for good.                    *)

\* 30 days after they were written, entries of a token are not found any more:
\* in memory under either spelling, in Redis, or in several of them.
TokenExpires ==
  /\ GoesWrong("expiry")
  /\ \E t \in Token, old \in SUBSET Spelling, left \in Knowledge :
       /\ \A s \in old : memory[<<t, s>>] # "none"
       /\ left \in {redis[t], "none"} /\ (old = {} => left # redis[t])
       /\ memory' = [a \in Address |-> IF a[1] = t /\ a[2] \in old THEN "none" ELSE memory[a]]
       /\ redis' = [redis EXCEPT ![t] = left]
       /\ calls' = IF "mixed" \in old THEN [calls EXCEPT ![t] = 0] ELSE calls
       /\ warmed' = IF "mixed" \in old THEN warmed \ {t} ELSE warmed
  /\ UNCHANGED <<up, seen, redisPool, tables, at, got, scan, queue, flight, startUp>>

PoolExpires ==
  /\ GoesWrong("expiry")
  /\ \E p \in Pool : redisPool[p] # "none" /\ redisPool' = [redisPool EXCEPT ![p] = "none"]
  /\ UNCHANGED <<up, memory, seen, redis, tables, at, got, scan, queue, flight, startUp, history>>

MarkerExpires ==
  /\ GoesWrong("expiry") /\ marker /\ marker' = FALSE
  /\ UNCHANGED <<up, caches, tables, at, got, scan, queue, flight, warmUp, graph, history>>

Expiry == TokenExpires \/ PoolExpires \/ MarkerExpires

-----------------------------------------------------------------------------
Created == {p \in Pool : \E b \in DOMAIN Batches : \E i \in DOMAIN Batches[b] :
              Batches[b][i] = [kind |-> "created", pool |-> p]}

\* An earlier process may have left rows, whose entries in Redis have expired.
Init ==
  /\ up = FALSE
  /\ memory = [a \in Address |-> "none"] /\ seen = [p \in Pool |-> "none"]
  /\ redis = Unknown /\ redisPool = [p \in Pool |-> "none"]
  /\ done = 0
  /\ \E pools \in SUBSET (Pool \ Created) :
       /\ poolRow = pools \X {"mixed"}
       /\ row = [a \in Address |->
                   IF a[2] = "mixed" /\ \E p \in pools : a[1] \in TokenSet(p) THEN "own" ELSE "none"]
  /\ at = [c \in Caller |-> Idle] /\ got = [c \in Caller |-> Unknown]
  /\ event = 1 /\ found = {}
  /\ waiting = [p \in Pool |-> -1] /\ handed = FirstPool
  /\ flight = [t \in Token |-> Nobody]
  /\ warmUp = [pc |-> "done", tokens |-> Unknown] /\ marker = FALSE
  /\ graph = [p \in Pool |-> IF p \in Subgraph THEN "new" ELSE "done"]
  /\ calls = [t \in Token |-> 0] /\ warmed = {} /\ wrong = <<>>

Next == Scan \/ Worker \/ StartProcess \/ WarmUp \/ Crash \/ Graph \/ Expiry

Spec == Init /\ [][Next]_vars

\* The goroutines keep running and a dead process is started again.
Fairness == WF_vars(Scan) /\ WF_vars(Worker) /\ WF_vars(StartProcess)

FairSpec == Spec /\ Fairness

-----------------------------------------------------------------------------
(* Properties.                                                             *)

TypeOK ==
  /\ up \in BOOLEAN /\ marker \in BOOLEAN /\ done \in 0..Len(Batches)
  /\ memory \in [Address -> Knowledge] /\ row \in [Address -> Knowledge]
  /\ redis \in [Token -> Knowledge] /\ poolRow \subseteq Pool \X Spelling
  /\ seen \in [Pool -> Spelling \cup {"none"}] /\ redisPool \in [Pool -> Spelling \cup {"none"}]
  /\ waiting \in [Pool -> -1..MaxAttempts - 1]
  /\ flight \in [Token -> Caller \cup {Nobody}]
  /\ \A c \in Caller : at[c].pc = "wait" => flight[token(c)] \notin {c, Nobody}
  /\ \A t \in Token : flight[t] # Nobody =>
       at[flight[t]].pc \in {"recheck", "redis", "call", "keep", "set", "write"} /\ token(flight[t]) = t
  /\ ~up => \A c \in Caller : at[c] = Idle

\* uniswap.go:521-527, 536-539, "this is here so that stays true": however the
\* two goroutines come upon a token, a process asks the node for it once, and
\* once more each time memory has let go of it after the 30 days of
\* uniswap.go:58 and 177: never twice for one term in memory.
OneCallPerToken == \A t \in Token : calls[t] <= 1

\* uniswap.go:376-382, "a process restart reuses previously-resolved token
\* metadata": what the parser had stored is not asked for after a restart, until
\* its entry in memory expires.
KnownNotAskedAgain == \A t \in warmed : calls[t] = 0

\* cache-architecture.md, "L3 is the only source of truth": when neither
\* goroutine is at work, a pool's row has the rows of its tokens, in its
\* spelling.  A store that fails or a process that dies can lose them: the
\* goroutine that comes second leaves a token to the one that has it in memory.
Quiet == up /\ \A c \in Caller : at[c].pc = "idle"
TokensStored ==
  Quiet /\ ~Has("store") /\ ~Has("crash") =>
    \A p \in Pool, s \in Spelling :
      <<p, s>> \in poolRow => \A t \in TokenSet(p) : row[<<t, s>>] # "none"

\* Nobody waits for ever for an answer: the batches are processed and the
\* pools that were waiting are resolved or given up.
AllSettled == <>[](done = Len(Batches) /\ \A p \in Pool : waiting[p] = -1)
=============================================================================
