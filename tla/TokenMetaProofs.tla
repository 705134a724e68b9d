---------------------------- MODULE TokenMetaProofs ----------------------------
(***************************************************************************)
(* Why a process asks the node for a token at most once for as long as     *)
(* memory has the answer, and not at all for one that was stored before it *)
(* started, and why a stored pool has the rows of its tokens, for every    *)
(* set of tokens and pools, every sequence of logs and every number of     *)
(* faults and of entries that expire.                                      *)
(*                                                                         *)
(* A call under way owns its token's entry of flight; what it has been     *)
(* told is in memory before the entry is given back; and no step of a      *)
(* goroutine takes anything out of memory.  So whoever gets the entry next *)
(* finds the answer when it looks again, or the answer has expired and the *)
(* count starts anew.                                                      *)
(*                                                                         *)
(* A token that is in memory has its row, or one of the goroutines holds   *)
(* it and is to store it; whoever leaves a token out because it is in      *)
(* memory relies on that.                                                  *)
(***************************************************************************)
EXTENDS TokenMeta, TLAPS

InCall == {"recheck", "redis", "call", "keep", "set", "write"}
Asking == InCall \cup {"fetch", "join", "wait"}
Pcs    == Asking \cup {"idle", "log", "tokens", "decimals", "backfill", "store", "commit",
                       "resolve", "cache"}
Place  == [pc : Pcs, todo : Seq(Token), value : Knowledge]

\* A goroutine that asks has a token to ask for; a value it is to keep is one;
\* its call is the one on the table, and nobody has called the node before.
AtOK(c) ==
  /\ at[c].pc \in Asking => at[c].todo # <<>>
  /\ at[c].pc \in {"keep", "set", "write"} => at[c].value # "none"
  /\ at[c].pc = "backfill" => at[c].value # "none" /\ at[c].todo # <<>>
  /\ at[c].pc \in InCall => flight[token(c)] = c
  /\ at[c].pc \in {"redis", "call"} => calls[token(c)] = 0

BeingSet(t) == \E c \in Caller : at[c].pc = "set" /\ token(c) = t

InMemory(t) == memory[<<t, "mixed">>] # "none"

\* What the node was asked for is in memory or about to be.
CalledOK(t) == up /\ calls[t] = 1 => InMemory(t) \/ BeingSet(t)

FlightInv ==
  /\ at \in [Caller -> Place]
  /\ flight \in [Token -> Caller \cup {Nobody}]
  /\ calls \in [Token -> {0, 1}]
  /\ DOMAIN memory = Address
  /\ \A c \in Caller : AtOK(c)
  /\ \A t \in Token : CalledOK(t)

\* The scanning goroutine is within its batch, the worker has a pool.
ScanInv ==
  /\ done \in Nat /\ event \in Nat
  /\ IF at["scan"].pc = "idle" THEN event = 1
     ELSE done < Len(Batches) /\ event \in 1..Len(batch)

Resolving == at["worker"].pc \in {"resolve", "cache"}
HandedInv == Resolving => handed \in Pool

TokenInv == FlightInv /\ ScanInv /\ HandedInv

-----------------------------------------------------------------------------
(* Lists of tokens.                                                        *)

LEMMA TailOfTokens ==
  ASSUME NEW s \in Seq(Token), s # <<>>
  PROVE  Head(s) \in Token /\ Tail(s) \in Seq(Token)
OBVIOUS

LEMMA TokensOfPool ==
  ASSUME NEW p \in Pool
  PROVE  TokensOf[p] \in Seq(Token) /\ <<TokensOf[p][2], TokensOf[p][1]>> \in Seq(Token)
         /\ TokensOf[p] # <<>>
<1>1. PICK t0, t1 \in Token : TokensOf[p] = <<t0, t1>>
  BY TokensAssumption
<1>2. <<t0, t1>> \in Seq(Token) /\ <<t1, t0>> \in Seq(Token) /\ <<t0, t1>> # <<>>
  OBVIOUS
<1> QED
  BY <1>1, <1>2

LEMMA LogOfBatch ==
  ASSUME ScanInv, at["scan"].pc # "idle"
  PROVE  log.pool \in Pool /\ log.kind \in {"swap", "created"}
<1>1. done + 1 \in DOMAIN Batches /\ batch \in Seq([kind : {"swap", "created"}, pool : Pool])
  BY LogsAssumption DEF ScanInv, batch
<1>2. event \in 1..Len(batch)
  BY DEF ScanInv
<1> DEFINE Log == [kind : {"swap", "created"}, pool : Pool]
<1>3. log \in Log
  <2>1. batch \in Seq(Log)
    BY <1>1
  <2> HIDE DEF Log
  <2> QED
    BY <1>2, <2>1 DEF log
<1> QED
  BY <1>3

LEMMA WithTokensPlace ==
  ASSUME NEW c \in Caller, NEW todo \in Seq(Token)
  PROVE  /\ WithTokens(c, todo) \in Place
         /\ WithTokens(c, todo).pc \in {"tokens", "store", "fetch"}
         /\ WithTokens(c, todo).pc = "fetch" => WithTokens(c, todo).todo # <<>>
<1> DEFINE pc == IF c = "scan" THEN "tokens" ELSE IF todo = <<>> THEN "store" ELSE "fetch"
<1>1. WithTokens(c, todo) = [pc |-> pc, todo |-> todo, value |-> "none"]
  BY DEF WithTokens, At
<1>2. pc \in {"tokens", "store", "fetch"} /\ (pc = "fetch" => todo # <<>>)
  OBVIOUS
<1> HIDE DEF pc
<1> QED
  BY <1>1, <1>2 DEF Place, Pcs, Asking, Knowledge

-----------------------------------------------------------------------------
(* Frames.                                                                 *)

\* Nothing that was in memory has left it.
MemoryKept == DOMAIN memory' = Address /\ \A t \in Token : InMemory(t) => InMemory(t)'

\* A goroutine moves about outside of calls.
LEMMA MovesOutside ==
  ASSUME FlightInv, NEW c \in Caller, at[c].pc \notin InCall,
         at' \in [Caller -> Place], \A d \in Caller \ {c} : at'[d] = at[d],
         at'[c].pc \notin InCall,
         at'[c].pc \in Asking => at'[c].todo # <<>>,
         at'[c].pc = "backfill" => at'[c].value # "none" /\ at'[c].todo # <<>>,
         flight' = flight, calls' = calls, up' = up, MemoryKept
  PROVE  FlightInv'
<1>1. \A d \in Caller : AtOK(d)'
  BY DEF FlightInv, AtOK, token, InCall, Asking
<1>2. ASSUME NEW t \in Token PROVE CalledOK(t)'
  <2>1. BeingSet(t) => BeingSet(t)'
    BY DEF BeingSet, token, InCall
  <2> QED
    BY <2>1 DEF CalledOK, FlightInv, MemoryKept
<1> QED
  BY <1>1, <1>2 DEF FlightInv, MemoryKept

\* A goroutine in a call moves on in it.
LEMMA MovesInCall ==
  ASSUME FlightInv, NEW c \in Caller, at[c].pc \in InCall,
         at' \in [Caller -> Place], \A d \in Caller \ {c} : at'[d] = at[d],
         at'[c].pc \in InCall, at'[c].todo = at[c].todo,
         at'[c].pc \in {"keep", "set", "write"} => at'[c].value # "none",
         flight' = flight, up' = up, MemoryKept,
         calls' \in [Token -> {0, 1}],
         \A t \in Token \ {token(c)} : calls'[t] = calls[t],
         at'[c].pc \in {"redis", "call"} => calls'[token(c)] = 0,
         calls'[token(c)] = 1 => at'[c].pc = "set" \/ InMemory(token(c))'
  PROVE  FlightInv'
<1>1. token(c) \in Token /\ flight[token(c)] = c /\ token(c)' = token(c)
  BY TailOfTokens DEF FlightInv, AtOK, token, Place, Asking
<1>2. AtOK(c)'
  BY <1>1 DEF FlightInv, AtOK, InCall, Asking, token
<1>3. ASSUME NEW d \in Caller \ {c} PROVE AtOK(d)'
  <2>1. CASE at[d].pc \in InCall
    <3>1. token(d) \in Token /\ flight[token(d)] = d
      BY <2>1, TailOfTokens DEF FlightInv, AtOK, token, Place, Asking
    <3>2. token(d) # token(c)
      BY <1>1, <3>1
    <3> QED
      BY <3>1, <3>2 DEF FlightInv, AtOK, token
  <2>2. CASE at[d].pc \notin InCall
    BY <2>2 DEF FlightInv, AtOK, token, InCall
  <2> QED
    BY <2>1, <2>2
<1>4. ASSUME NEW t \in Token PROVE CalledOK(t)'
  <2>1. CASE t = token(c)
    BY <1>1, <2>1 DEF CalledOK, BeingSet
  <2>2. CASE t # token(c)
    <3>1. BeingSet(t) => BeingSet(t)'
      BY <2>2 DEF BeingSet, token
    <3> QED
      BY <2>2, <3>1 DEF CalledOK, FlightInv, MemoryKept
  <2> QED
    BY <2>1, <2>2
<1> QED
  BY <1>2, <1>3, <1>4 DEF FlightInv, MemoryKept

\* A call ends, with its answer in memory if it has been to the node.
LEMMA EndsCall ==
  ASSUME FlightInv, NEW c \in Caller, at[c].pc \in InCall, NEW value, Finish(c, value),
         calls' = calls, up' = up, MemoryKept,
         up /\ calls[token(c)] = 1 => memory'[<<token(c), "mixed">>] # "none"
  PROVE  /\ FlightInv'
         /\ \A d \in Caller : \/ at'[d] = at[d]
                              \/ at[d].pc \in Asking /\ at'[d].pc \in {"tokens", "store", "fetch"}
<1> DEFINE all == {c} \cup {d \in Caller : at[d].pc = "wait" /\ token(d) = token(c)}
<1>0. /\ at' = [d \in Caller |-> IF d \in all THEN WithTokens(d, Tail(at[d].todo)) ELSE at[d]]
      /\ flight' = [flight EXCEPT ![token(c)] = Nobody]
  BY DEF Finish, Answered
<1>1. token(c) \in Token /\ flight[token(c)] = c
  BY TailOfTokens DEF FlightInv, AtOK, token, Place, Asking
<1>2. ASSUME NEW d \in Caller, d \in all
      PROVE  /\ at[d].pc \in Asking /\ at'[d] \in Place
             /\ at'[d].pc \in {"tokens", "store", "fetch"}
             /\ at'[d].pc = "fetch" => at'[d].todo # <<>>
  <2>1. at[d].pc \in Asking /\ at[d].todo # <<>> /\ at[d].todo \in Seq(Token)
    BY <1>2 DEF FlightInv, AtOK, Place, Asking
  <2>2. Tail(at[d].todo) \in Seq(Token)
    BY <2>1, TailOfTokens
  <2>3. at'[d] = WithTokens(d, Tail(at[d].todo))
    BY <1>0, <1>2
  <2> HIDE DEF all
  <2> QED
    BY <2>1, <2>2, <2>3, WithTokensPlace
<1>3. \A d \in Caller : d \notin all => at'[d] = at[d]
  BY <1>0
<1> HIDE DEF all
<1>4. at' \in [Caller -> Place]
  BY <1>0, <1>2, <1>3 DEF FlightInv
<1>5. ASSUME NEW d \in Caller PROVE AtOK(d)'
  <2>1. CASE d \in all
    BY <1>2, <2>1 DEF AtOK, InCall, Asking
  <2>2. CASE d \notin all /\ at[d].pc \in InCall
    <3>1. token(d) \in Token /\ flight[token(d)] = d /\ d # c
      BY <2>2, TailOfTokens DEF FlightInv, AtOK, token, Place, Asking, all
    <3>2. token(d) # token(c) /\ at'[d] = at[d]
      BY <1>1, <1>3, <2>2, <3>1
    <3>3. flight'[token(d)] = flight[token(d)]
      BY <1>0, <1>1, <3>1, <3>2 DEF FlightInv
    <3> QED
      BY <3>2, <3>3 DEF FlightInv, AtOK, token
  <2>3. CASE d \notin all /\ at[d].pc \notin InCall
    BY <1>3, <2>3 DEF FlightInv, AtOK, token, InCall
  <2> QED
    BY <2>1, <2>2, <2>3
<1>6. ASSUME NEW t \in Token PROVE CalledOK(t)'
  <2>1. CASE t = token(c)
    BY <2>1 DEF CalledOK, InMemory
  <2>2. CASE t # token(c)
    <3>1. ASSUME NEW d \in Caller, at[d].pc = "set", token(d) = t
          PROVE  at'[d] = at[d]
      BY <1>3, <2>2, <3>1 DEF all
    <3>2. BeingSet(t) => BeingSet(t)'
      BY <3>1 DEF BeingSet, token
    <3> QED
      BY <2>2, <3>2 DEF CalledOK, FlightInv, MemoryKept
  <2> QED
    BY <2>1, <2>2
<1>7. flight' \in [Token -> Caller \cup {Nobody}]
  BY <1>0 DEF FlightInv
<1> QED
  BY <1>2, <1>3, <1>4, <1>5, <1>6, <1>7 DEF FlightInv, MemoryKept

-----------------------------------------------------------------------------
(* The steps of a call.                                                    *)

LEMMA MemorySame == FlightInv /\ memory' = memory => MemoryKept
BY DEF FlightInv, MemoryKept, InMemory

\* The goroutine's own step within its place in the batch and its pool.
LEMMA FetchStays ==
  ASSUME ScanInv, HandedInv, UNCHANGED <<done, event, handed>>,
         \A d \in Caller : \/ at'[d] = at[d]
                           \/ at[d].pc \in Asking /\ at'[d].pc \in Asking \cup {"tokens", "store"}
  PROVE  ScanInv' /\ HandedInv'
<1>1. /\ at'["scan"].pc = "idle" <=> at["scan"].pc = "idle"
      /\ Resolving' => Resolving
  BY DEF Caller, Asking, InCall, Resolving
<1> QED
  BY <1>1 DEF ScanInv, HandedInv, batch

LEMMA GoGoes ==
  ASSUME at \in [Caller -> Place], NEW c \in Caller, NEW pc \in Pcs, Go(c, pc)
  PROVE  /\ at' \in [Caller -> Place] /\ at'[c].pc = pc
         /\ at'[c].todo = at[c].todo /\ at'[c].value = at[c].value
         /\ \A d \in Caller \ {c} : at'[d] = at[d]
BY DEF Go, Place

\* A goroutine's place is replaced.
LEMMA PlaceGoes ==
  ASSUME at \in [Caller -> Place], NEW c \in Caller, NEW place \in Place,
         at' = [at EXCEPT ![c] = place]
  PROVE  at' \in [Caller -> Place] /\ at'[c] = place /\ \A d \in Caller \ {c} : at'[d] = at[d]
OBVIOUS

LEMMA FetchKeeps ==
  ASSUME TokenInv, NEW c \in Caller, Fetch(c)
  PROVE  TokenInv'
<1>0. /\ FlightInv /\ ScanInv /\ HandedInv /\ at \in [Caller -> Place] /\ AtOK(c)
      /\ UNCHANGED <<done, event, handed, up>>
  BY DEF TokenInv, FlightInv, Fetch, fetchTokenMeta, Do, Recheck, getTokenMetaFromRedis,
     resolveTokenMeta, SetInMemory, setTokenMetaInRedis, tables, scan, queue
<1> DEFINE Others == \A d \in Caller \ {c} : at'[d] = at[d]
<1>1. CASE fetchTokenMeta(c) /\ Known(c) # "none"
  <2>1. /\ at[c].pc = "fetch" /\ at[c].todo # <<>> /\ at[c].todo \in Seq(Token)
        /\ at' = [at EXCEPT ![c] = WithTokens(c, Tail(at[c].todo))]
        /\ flight' = flight /\ calls' = calls /\ memory' = memory
    BY <1>0, <1>1 DEF fetchTokenMeta, AtPc, AtOK, Asking, Place, caches, history
  <2>2. Tail(at[c].todo) \in Seq(Token)
    BY <2>1, TailOfTokens
  <2>3. /\ at' \in [Caller -> Place] /\ Others /\ at'[c].pc \in {"tokens", "store", "fetch"}
        /\ at'[c].pc = "fetch" => at'[c].todo # <<>>
    BY <1>0, <2>1, <2>2, WithTokensPlace, PlaceGoes
  <2>4. FlightInv'
    BY <1>0, <2>1, <2>3, MovesOutside, MemorySame DEF InCall, Asking
  <2> QED
    BY <1>0, <2>1, <2>3, <2>4, FetchStays DEF TokenInv, Asking, InCall
<1>2. CASE fetchTokenMeta(c) /\ Known(c) = "none"
  <2>1. /\ at[c].pc = "fetch" /\ at[c].todo # <<>> /\ Go(c, "join")
        /\ flight' = flight /\ calls' = calls /\ memory' = memory
    BY <1>0, <1>2 DEF fetchTokenMeta, AtPc, AtOK, Asking, caches, history
  <2>2. at' \in [Caller -> Place] /\ Others /\ at'[c].pc = "join" /\ at'[c].todo # <<>>
    BY <1>0, <2>1, GoGoes DEF Pcs, Asking, InCall
  <2>3. FlightInv'
    BY <1>0, <2>1, <2>2, MovesOutside, MemorySame DEF InCall, Asking
  <2> QED
    BY <1>0, <2>1, <2>2, <2>3, FetchStays DEF TokenInv, Asking, InCall
<1>3. CASE Do(c) /\ flight[token(c)] # Nobody
  <2>1. /\ at[c].pc = "join" /\ at[c].todo # <<>> /\ Go(c, "wait")
        /\ flight' = flight /\ calls' = calls /\ memory' = memory
    BY <1>0, <1>3 DEF Do, AtPc, AtOK, Asking, caches, history
  <2>2. at' \in [Caller -> Place] /\ Others /\ at'[c].pc = "wait" /\ at'[c].todo # <<>>
    BY <1>0, <2>1, GoGoes DEF Pcs, Asking, InCall
  <2>3. FlightInv'
    BY <1>0, <2>1, <2>2, MovesOutside, MemorySame DEF InCall, Asking
  <2> QED
    BY <1>0, <2>1, <2>2, <2>3, FetchStays DEF TokenInv, Asking, InCall
<1>4. CASE Do(c) /\ flight[token(c)] = Nobody
  <2>1. /\ at[c].pc = "join" /\ at[c].todo # <<>> /\ at[c].todo \in Seq(Token) /\ Go(c, "recheck")
        /\ flight' = [flight EXCEPT ![token(c)] = c] /\ calls' = calls /\ memory' = memory
    BY <1>0, <1>4 DEF Do, AtPc, AtOK, Asking, Place, caches, history
  <2>2. token(c) \in Token
    BY <2>1, TailOfTokens DEF token
  <2>3. at' \in [Caller -> Place] /\ Others /\ at'[c].pc = "recheck" /\ at'[c].todo = at[c].todo
    BY <1>0, <2>1, GoGoes DEF Pcs, Asking, InCall
  <2>4. ASSUME NEW d \in Caller PROVE AtOK(d)'
    <3>1. CASE d = c
      BY <1>0, <2>1, <2>2, <2>3, <3>1 DEF FlightInv, AtOK, token, Asking, InCall
    <3>2. CASE d # c /\ at[d].pc \in InCall
      <4>1. flight[token(d)] = d /\ token(d) # token(c)
        BY <1>0, <1>4, <3>2 DEF FlightInv, AtOK, Caller, Nobody
      <4> QED
        BY <1>0, <2>1, <2>3, <3>2, <4>1 DEF FlightInv, AtOK, token
    <3>3. CASE d # c /\ at[d].pc \notin InCall
      BY <1>0, <2>1, <2>3, <3>3 DEF FlightInv, AtOK, token, InCall
    <3> QED
      BY <3>1, <3>2, <3>3
  <2>5. ASSUME NEW t \in Token PROVE CalledOK(t)'
    <3>1. BeingSet(t) => BeingSet(t)'
      BY <2>1, <2>3 DEF BeingSet, token
    <3> QED
      BY <1>0, <2>1, <3>1 DEF CalledOK, FlightInv, InMemory
  <2>6. FlightInv'
    BY <1>0, <2>1, <2>2, <2>3, <2>4, <2>5 DEF FlightInv
  <2> QED
    BY <1>0, <2>1, <2>3, <2>6, FetchStays DEF TokenInv, Asking, InCall
<1>5. CASE Recheck(c) /\ Known(c) # "none"
  <2>1. /\ at[c].pc = "recheck" /\ Finish(c, Known(c))
        /\ calls' = calls /\ memory' = memory
    BY <1>5 DEF Recheck, AtPc, caches, history
  <2>2. memory'[<<token(c), "mixed">>] # "none"
    BY <1>5, <2>1 DEF Known
  <2>3. /\ FlightInv'
        /\ \A d \in Caller : \/ at'[d] = at[d]
                             \/ at[d].pc \in Asking /\ at'[d].pc \in {"tokens", "store", "fetch"}
    BY <1>0, <2>1, <2>2, EndsCall, MemorySame DEF InCall
  <2> QED
    BY <1>0, <2>3, FetchStays DEF TokenInv, Asking
<1>6. CASE Recheck(c) /\ Known(c) = "none"
  <2>1. /\ at[c].pc = "recheck" /\ Go(c, "redis") /\ up
        /\ flight' = flight /\ calls' = calls /\ memory' = memory
    BY <1>6 DEF Recheck, AtPc, caches, history
  <2>2. /\ at' \in [Caller -> Place] /\ Others /\ at'[c].pc = "redis" /\ at'[c].todo = at[c].todo
    BY <1>0, <2>1, GoGoes DEF Pcs, Asking, InCall
  <2>3. token(c) \in Token /\ flight[token(c)] = c
    BY <1>0, <2>1, TailOfTokens DEF FlightInv, AtOK, token, Place, Asking, InCall
  <2>4. ~BeingSet(token(c))
    <3> SUFFICES ASSUME NEW d \in Caller, at[d].pc = "set", token(d) = token(c) PROVE FALSE
      BY DEF BeingSet
    <3>1. flight[token(d)] = d
      BY <1>0 DEF FlightInv, AtOK, InCall
    <3> QED
      BY <2>1, <2>3, <3>1
  <2>5. calls[token(c)] = 0
    BY <1>0, <1>6, <2>1, <2>3, <2>4 DEF FlightInv, CalledOK, InMemory, Known
  <2>6. FlightInv'
    BY <1>0, <2>1, <2>2, <2>5, MovesInCall, MemorySame DEF InCall, FlightInv
  <2> QED
    BY <1>0, <2>1, <2>2, <2>6, FetchStays DEF TokenInv, Asking, InCall
<1>7. CASE getTokenMetaFromRedis(c)
  <2>1. PICK v \in Knowledge :
          at' = [at EXCEPT ![c].pc = IF v = "none" THEN "call" ELSE "keep", ![c].value = v]
    BY <1>7 DEF getTokenMetaFromRedis
  <2>2. /\ at[c].pc = "redis" /\ flight' = flight /\ calls' = calls /\ memory' = memory
    BY <1>7 DEF getTokenMetaFromRedis, AtPc, caches, history
  <2>3. /\ at' \in [Caller -> Place] /\ Others /\ at'[c].pc \in {"call", "keep"}
        /\ at'[c].pc = "keep" => at'[c].value # "none"
        /\ at'[c].todo = at[c].todo
    BY <1>0, <2>1 DEF Place, Knowledge, Pcs, Asking, InCall
  <2>4. calls[token(c)] = 0
    BY <1>0, <2>2 DEF AtOK
  <2>5. FlightInv'
    BY <1>0, <2>2, <2>3, <2>4, MovesInCall, MemorySame DEF InCall, FlightInv
  <2> QED
    BY <1>0, <2>2, <2>3, <2>5, FetchStays DEF TokenInv, Asking, InCall
<1>8. CASE resolveTokenMeta(c)
  <2>1. /\ at[c].pc = "call" /\ flight' = flight /\ memory' = memory
    BY <1>8 DEF resolveTokenMeta, AtPc, caches
  <2>2. /\ token(c) \in Token /\ calls \in [Token -> {0, 1}] /\ calls[token(c)] = 0
    BY <1>0, <2>1, TailOfTokens DEF FlightInv, AtOK, token, Place, Asking, InCall
  <2>3. PICK v \in {"own", "default"}, pc \in {"set", "keep"} :
          /\ at' = [at EXCEPT ![c].pc = pc, ![c].value = v]
          /\ calls' = IF pc = "set" THEN [calls EXCEPT ![token(c)] = @ + 1] ELSE calls
    BY <1>8 DEF resolveTokenMeta
  <2>4. /\ at' \in [Caller -> Place] /\ Others /\ at'[c].pc = pc /\ at'[c].value # "none"
        /\ at'[c].todo = at[c].todo
    BY <1>0, <2>3 DEF Place, Knowledge, Pcs, Asking, InCall
  <2>5. /\ calls' \in [Token -> {0, 1}] /\ \A t \in Token \ {token(c)} : calls'[t] = calls[t]
        /\ calls'[token(c)] = 1 => pc = "set"
    BY <2>2, <2>3
  <2>6. FlightInv'
    BY <1>0, <2>1, <2>4, <2>5, MovesInCall, MemorySame DEF InCall
  <2> QED
    BY <1>0, <2>1, <2>4, <2>6, FetchStays DEF TokenInv, Asking, InCall
<1>9. CASE SetInMemory(c)
  <2>1. /\ at[c].pc \in {"keep", "set"} /\ calls' = calls
        /\ memory' = [memory EXCEPT ![<<token(c), "mixed">>] = at[c].value]
        /\ at[c].value # "none"
    BY <1>0, <1>9 DEF SetInMemory, history, AtOK
  <2>2. token(c) \in Token
    BY <1>0, <2>1, TailOfTokens DEF AtOK, token, Place, Asking, InCall
  <2>3. <<token(c), "mixed">> \in Address /\ DOMAIN memory = Address
    BY <1>0, <2>2 DEF Address, Spelling, FlightInv
  <2>4. MemoryKept /\ memory'[<<token(c), "mixed">>] # "none"
    BY <2>1, <2>3 DEF MemoryKept, InMemory
  <2>5. CASE at[c].pc = "keep"
    <3>1. Finish(c, at[c].value)
      BY <1>9, <2>5 DEF SetInMemory
    <3>2. /\ FlightInv'
          /\ \A d \in Caller : \/ at'[d] = at[d]
                               \/ at[d].pc \in Asking /\ at'[d].pc \in {"tokens", "store", "fetch"}
      BY <1>0, <2>1, <2>4, <2>5, <3>1, EndsCall DEF InCall
    <3> QED
      BY <1>0, <3>2, FetchStays DEF TokenInv, Asking
  <2>6. CASE at[c].pc = "set"
    <3>1. Go(c, "write") /\ flight' = flight
      BY <1>9, <2>6 DEF SetInMemory
    <3>2. /\ at' \in [Caller -> Place] /\ Others /\ at'[c].pc = "write" /\ at'[c].todo = at[c].todo
          /\ at'[c].value # "none"
      BY <2>1, <1>0, <3>1, GoGoes DEF Pcs, Asking, InCall
    <3>3. token(c)' = token(c)
      BY <3>2 DEF token
    <3>4. FlightInv'
      BY <1>0, <2>1, <2>4, <2>6, <3>1, <3>2, <3>3, MovesInCall DEF InCall, FlightInv, InMemory
    <3> QED
      BY <1>0, <2>6, <3>2, <3>4, FetchStays DEF TokenInv, Asking, InCall
  <2> QED
    BY <2>1, <2>5, <2>6
<1>10. CASE setTokenMetaInRedis(c)
  <2>1. /\ at[c].pc = "write" /\ calls' = calls /\ memory' = memory /\ Finish(c, at[c].value)
    BY <1>10 DEF setTokenMetaInRedis, AtPc, history
  <2>2. token(c) \in Token /\ flight[token(c)] = c
    BY <1>0, <2>1, TailOfTokens DEF FlightInv, AtOK, token, Place, Asking, InCall
  <2>3. ~BeingSet(token(c))
    <3> SUFFICES ASSUME NEW d \in Caller, at[d].pc = "set", token(d) = token(c) PROVE FALSE
      BY DEF BeingSet
    <3>1. flight[token(d)] = d
      BY <1>0 DEF FlightInv, AtOK, InCall
    <3> QED
      BY <2>1, <2>2, <3>1
  <2>4. up /\ calls[token(c)] = 1 => memory'[<<token(c), "mixed">>] # "none"
    BY <1>0, <2>1, <2>2, <2>3 DEF FlightInv, CalledOK, InMemory
  <2>5. /\ FlightInv'
        /\ \A d \in Caller : \/ at'[d] = at[d]
                             \/ at[d].pc \in Asking /\ at'[d].pc \in {"tokens", "store", "fetch"}
    BY <1>0, <2>1, <2>4, EndsCall, MemorySame DEF InCall
  <2> QED
    BY <1>0, <2>5, FetchStays DEF TokenInv, Asking
<1> QED
  BY <1>1, <1>2, <1>3, <1>4, <1>5, <1>6, <1>7, <1>8, <1>9, <1>10 DEF Fetch

-----------------------------------------------------------------------------
(* The steps of the two goroutines outside of calls.                       *)

\* A step of the scanning goroutine is none of the worker's pool.
LEMMA ScanMoves ==
  ASSUME TokenInv, at["scan"].pc \notin InCall,
         at' \in [Caller -> Place], at'["worker"] = at["worker"],
         at'["scan"].pc \notin InCall,
         at'["scan"].pc \in Asking => at'["scan"].todo # <<>>,
         at'["scan"].pc = "backfill" => at'["scan"].value # "none" /\ at'["scan"].todo # <<>>,
         UNCHANGED <<flight, calls, up, handed>>, MemoryKept
  PROVE  FlightInv' /\ HandedInv'
<1>1. "scan" \in Caller /\ \A d \in Caller \ {"scan"} : at'[d] = at[d]
  BY DEF Caller
<1>2. FlightInv'
  BY <1>1, MovesOutside DEF TokenInv
<1> QED
  BY <1>2 DEF HandedInv, Resolving, TokenInv

LEMMA NextLogGoes ==
  ASSUME TokenInv, at["scan"].pc # "idle", NextLog, done' = done
  PROVE  /\ at' \in [Caller -> Place] /\ at'["worker"] = at["worker"]
         /\ at'["scan"].pc \in {"store", "log"}
         /\ ScanInv'
<1>0. at \in [Caller -> Place] /\ "scan" \in Caller /\ "worker" \in Caller \ {"scan"}
  BY DEF TokenInv, FlightInv, Caller
<1>1. \/ Go("scan", "store") /\ event' = event
      \/ event # Len(batch) /\ Go("scan", "log") /\ event' = event + 1
  <2>1. CASE event = Len(batch)
    BY <2>1 DEF NextLog
  <2>2. CASE event # Len(batch)
    BY <2>2 DEF NextLog
  <2> QED
    BY <2>1, <2>2
<1>2. at' \in [Caller -> Place] /\ at'["worker"] = at["worker"] /\ at'["scan"].pc \in {"store", "log"}
  BY <1>0, <1>1, GoGoes DEF Pcs
<1>3. batch' = batch /\ done \in Nat /\ done < Len(Batches) /\ event \in 1..Len(batch)
  BY DEF TokenInv, ScanInv, batch
<1>4. batch \in Seq([kind : {"swap", "created"}, pool : Pool])
  BY <1>3, LogsAssumption DEF batch
<1>5. event' \in 1..Len(batch)
  BY <1>1, <1>3, <1>4
<1> QED
  BY <1>2, <1>3, <1>5 DEF ScanInv

\* Within a log the goroutine stays at it.
LEMMA ScanStays ==
  ASSUME ScanInv, at["scan"].pc # "idle", at'["scan"].pc # "idle", UNCHANGED <<done, event>>
  PROVE  ScanInv'
BY DEF ScanInv, batch

LEMMA BatchStarts ==
  ASSUME TokenInv, at["scan"].pc = "idle", done < Len(Batches), at'["scan"].pc # "idle",
         UNCHANGED <<done, event>>
  PROVE  ScanInv'
<1>1. done + 1 \in DOMAIN Batches /\ event = 1
  BY LogsAssumption DEF TokenInv, ScanInv
<1>2. batch \in Seq([kind : {"swap", "created"}, pool : Pool]) /\ batch # <<>>
  BY <1>1, LogsAssumption DEF batch
<1>3. event \in 1..Len(batch)
  BY <1>1, <1>2
<1> QED
  BY <1>3 DEF TokenInv, ScanInv, batch

LEMMA ScanKeeps ==
  ASSUME TokenInv, Scan
  PROVE  TokenInv'
<1>0. /\ FlightInv /\ ScanInv /\ HandedInv /\ at \in [Caller -> Place] /\ AtOK("scan")
      /\ "scan" \in Caller /\ "worker" \in Caller \ {"scan"} /\ DOMAIN memory = Address
  BY DEF TokenInv, FlightInv, Caller
<1>a. memory' = memory => MemoryKept
  BY <1>0, MemorySame
<1> DEFINE Frame == UNCHANGED <<flight, calls, up, handed>>
           Typed == at' \in [Caller -> Place] /\ at'["worker"] = at["worker"]
<1>1. CASE StartBatch
  <2>1. /\ at["scan"].pc = "idle" /\ done < Len(Batches) /\ Go("scan", "log")
        /\ Frame /\ UNCHANGED <<memory, done, event>>
    BY <1>1 DEF StartBatch, AtPc, caches, tables, scan, queue, history
  <2>2. Typed /\ at'["scan"].pc = "log"
    BY <1>0, <2>1, GoGoes DEF Pcs
  <2>3. ScanInv'
    BY <2>1, <2>2, BatchStarts
  <2> QED
    BY <1>a, <2>1, <2>2, <2>3, ScanMoves DEF TokenInv, InCall, Asking
<1>2. CASE PoolCreated
  <2>1. /\ at["scan"].pc = "log" /\ Frame /\ UNCHANGED <<memory, done, event>>
    BY <1>2 DEF PoolCreated, AtPc, tables, queue, history
  <2>2. log.pool \in Pool
    BY <1>0, <2>1, LogOfBatch
  <2>3. PICK todo \in {TokensOf[log.pool], <<TokensOf[log.pool][2], TokensOf[log.pool][1]>>} :
          at' = [at EXCEPT !["scan"] = WithTokens("scan", todo)]
    BY <1>2 DEF PoolCreated
  <2>4. todo \in Seq(Token)
    BY <2>2, TokensOfPool
  <2>5. /\ Typed /\ at'["scan"].pc \in {"tokens", "store", "fetch"}
        /\ at'["scan"].pc = "fetch" => at'["scan"].todo # <<>>
    BY <1>0, <2>3, <2>4, WithTokensPlace, PlaceGoes
  <2>6. ScanInv'
    BY <1>0, <2>1, <2>5, ScanStays
  <2> QED
    BY <1>a, <2>1, <2>5, <2>6, ScanMoves DEF TokenInv, InCall, Asking
<1>3. CASE TokenOfCreated
  <2>1. at["scan"].pc = "tokens" /\ Frame /\ UNCHANGED <<memory, done>>
    BY <1>3 DEF TokenOfCreated, AtPc, caches, tables, queue, history
  <2>2. CASE at["scan"].todo = <<>>
    <3>1. Typed /\ at'["scan"].pc \in {"store", "log"} /\ ScanInv'
      BY <1>3, <2>1, <2>2, NextLogGoes DEF TokenOfCreated
    <3> QED
      BY <1>a, <2>1, <3>1, ScanMoves DEF TokenInv, InCall, Asking
  <2>3. CASE at["scan"].todo # <<>>
    <3>1. event' = event /\ (MoveOn("scan", "tokens") \/ Go("scan", "fetch"))
      BY <1>3, <2>3 DEF TokenOfCreated
    <3>2. At("tokens", Tail(at["scan"].todo)) \in Place
      BY <1>0, <2>3, TailOfTokens DEF At, Place, Pcs, Knowledge
    <3>3. /\ Typed /\ at'["scan"].pc \in {"tokens", "fetch"}
          /\ at'["scan"].pc = "fetch" => at'["scan"].todo # <<>>
      <4>1. CASE MoveOn("scan", "tokens")
        BY <1>0, <3>2, <4>1, PlaceGoes DEF MoveOn, At
      <4>2. CASE Go("scan", "fetch")
        BY <1>0, <2>3, <4>2, GoGoes DEF Pcs, Asking
      <4> QED
        BY <3>1, <4>1, <4>2
    <3>4. ScanInv'
      BY <1>0, <2>1, <3>1, <3>3, ScanStays
    <3> QED
      BY <1>a, <2>1, <3>3, <3>4, ScanMoves DEF TokenInv, InCall, Asking
  <2> QED
    BY <2>2, <2>3
<1>4. CASE Swap
  <2>1. at["scan"].pc = "log" /\ Frame /\ UNCHANGED <<memory, done>>
    BY <1>4 DEF Swap, AtPc, tables, queue, history
  <2>2. At("decimals", TokensOf[log.pool]) \in Place
    BY <1>0, <2>1, LogOfBatch, TokensOfPool DEF At, Place, Pcs, Knowledge
  <2>3. CASE event' = event /\ at' = [at EXCEPT !["scan"] = At("decimals", TokensOf[log.pool])]
    <3>1. Typed /\ at'["scan"].pc = "decimals"
      BY <1>0, <2>2, <2>3, PlaceGoes DEF At
    <3>2. ScanInv'
      BY <1>0, <2>1, <2>3, <3>1, ScanStays
    <3> QED
      BY <1>a, <2>1, <3>1, <3>2, ScanMoves DEF TokenInv, InCall, Asking
  <2>4. CASE NextLog
    <3>1. Typed /\ at'["scan"].pc \in {"store", "log"} /\ ScanInv'
      BY <2>1, <2>4, NextLogGoes
    <3> QED
      BY <1>a, <2>1, <3>1, ScanMoves DEF TokenInv, InCall, Asking
  <2> QED
    BY <1>4, <2>3, <2>4 DEF Swap
<1>5. CASE CachedDecimals
  <2>1. at["scan"].pc = "decimals" /\ Frame /\ UNCHANGED <<memory, done>>
    BY <1>5 DEF CachedDecimals, AtPc, caches, tables, queue, history
  <2>2. CASE at["scan"].todo = <<>>
    <3>1. Typed /\ at'["scan"].pc \in {"store", "log"} /\ ScanInv'
      BY <1>5, <2>1, <2>2, NextLogGoes DEF CachedDecimals
    <3> QED
      BY <1>a, <2>1, <3>1, ScanMoves DEF TokenInv, InCall, Asking
  <2>3. CASE at["scan"].todo # <<>>
    <3>1. At("decimals", Tail(at["scan"].todo)) \in Place
      BY <1>0, <2>3, TailOfTokens DEF At, Place, Pcs, Knowledge
    <3>2. /\ event' = event
          /\ \/ MoveOn("scan", "decimals")
             \/ \E v \in Knowledge \ {"none"} :
                  at' = [at EXCEPT !["scan"].pc = "backfill", !["scan"].value = v]
      BY <1>5, <2>3 DEF CachedDecimals
    <3>3. /\ Typed /\ at'["scan"].pc \in {"decimals", "backfill"}
          /\ at'["scan"].pc = "backfill" => at'["scan"].value # "none" /\ at'["scan"].todo # <<>>
      <4>1. CASE MoveOn("scan", "decimals")
        BY <1>0, <3>1, <4>1, PlaceGoes DEF MoveOn, At
      <4>2. ASSUME NEW v \in Knowledge \ {"none"},
                   at' = [at EXCEPT !["scan"].pc = "backfill", !["scan"].value = v]
            PROVE  /\ Typed /\ at'["scan"].pc = "backfill" /\ at'["scan"].value # "none"
                   /\ at'["scan"].todo # <<>>
        BY <1>0, <2>3, <4>2 DEF Place, Pcs
      <4> QED
        BY <3>2, <4>1, <4>2
    <3>4. ScanInv'
      BY <1>0, <2>1, <3>2, <3>3, ScanStays
    <3> QED
      BY <1>a, <2>1, <3>3, <3>4, ScanMoves DEF TokenInv, InCall, Asking
  <2> QED
    BY <2>2, <2>3
<1>6. CASE BackfillDecimals
  <2>1. /\ at["scan"].pc = "backfill" /\ Frame /\ UNCHANGED <<done, event>>
        /\ memory' = [memory EXCEPT ![address] = at["scan"].value] /\ MoveOn("scan", "decimals")
    BY <1>6 DEF BackfillDecimals, AtPc, tables, scan, queue, history
  <2>2. MemoryKept
    BY <1>0, <2>1 DEF AtOK, MemoryKept, InMemory, Address, Spelling
  <2>3. At("decimals", Tail(at["scan"].todo)) \in Place
    BY <1>0, <2>1, TailOfTokens DEF AtOK, At, Place, Pcs, Knowledge
  <2>4. Typed /\ at'["scan"].pc = "decimals"
    BY <1>0, <2>1, <2>3, PlaceGoes DEF MoveOn, At
  <2>5. ScanInv'
    BY <1>0, <2>1, <2>4, ScanStays
  <2> QED
    BY <2>1, <2>2, <2>4, <2>5, ScanMoves DEF TokenInv, InCall, Asking
<1>7. CASE StoreBatch /\ Go("scan", "commit")
  <2>1. at["scan"].pc = "store" /\ Frame /\ UNCHANGED <<memory, done>>
    BY <1>7 DEF StoreBatch, AtPc, caches, queue, history
  <2>2. Typed /\ at'["scan"].pc = "commit"
    BY <1>0, <1>7, GoGoes DEF Pcs
  <2>3. event' = event
    BY <1>0, <1>7, <2>2 DEF StoreBatch, EndBatch, Rest, Idle, scan
  <2>4. ScanInv'
    BY <1>0, <2>1, <2>2, <2>3, ScanStays
  <2> QED
    BY <1>a, <2>1, <2>2, <2>4, ScanMoves DEF TokenInv, InCall, Asking
<1>8. CASE (StoreBatch \/ Commit) /\ EndBatch
  <2>1. /\ at["scan"].pc \in {"store", "commit"} /\ Frame /\ UNCHANGED memory
        /\ done' \in {done, done + 1}
    BY <1>8 DEF StoreBatch, Commit, AtPc, caches, queue, history
  <2>2. Idle \in Place
    BY DEF Idle, Place, Pcs, Knowledge
  <2>3. Typed /\ at'["scan"].pc = "idle" /\ event' = 1
    BY <1>0, <1>8, <2>2, PlaceGoes DEF EndBatch, Rest, Idle
  <2>4. ScanInv'
    BY <1>0, <2>1, <2>3 DEF ScanInv
  <2> QED
    BY <1>a, <2>1, <2>3, <2>4, ScanMoves DEF TokenInv, InCall, Asking
<1>9. CASE Fetch("scan")
  BY <1>0, <1>9, FetchKeeps
<1> QED
  BY <1>1, <1>2, <1>3, <1>4, <1>5, <1>6, <1>7, <1>8, <1>9 DEF Scan, StoreBatch, Commit

LEMMA WorkerKeeps ==
  ASSUME TokenInv, Worker
  PROVE  TokenInv'
<1>0. /\ FlightInv /\ ScanInv /\ HandedInv /\ at \in [Caller -> Place]
      /\ "worker" \in Caller /\ "scan" \in Caller \ {"worker"} /\ DOMAIN memory = Address
  BY DEF TokenInv, FlightInv, Caller
<1>a. memory' = memory => MemoryKept
  BY <1>0, MemorySame
<1> DEFINE Typed == at' \in [Caller -> Place] /\ \A d \in Caller \ {"worker"} : at'[d] = at[d]
           Frame == UNCHANGED <<flight, calls, up, memory, done, event>>
<1>1. ASSUME at["worker"].pc \notin InCall, Typed, Frame,
             at'["worker"].pc \in {"idle", "resolve", "cache", "store", "fetch"},
             at'["worker"].pc = "fetch" => at'["worker"].todo # <<>>,
             Resolving' => handed' \in Pool
      PROVE  TokenInv'
  <2>1. FlightInv'
    BY <1>0, <1>a, <1>1, MovesOutside DEF InCall, Asking
  <2>2. ScanInv'
    BY <1>0, <1>1 DEF ScanInv, batch
  <2> QED
    BY <1>1, <2>1, <2>2 DEF TokenInv, HandedInv
<1>b. Idle \in Place
  BY DEF Idle, Place, Pcs, Knowledge
<1> HIDE DEF Frame
<1>2. CASE WorkerTakes
  <2>1. /\ at["worker"].pc = "idle" /\ Go("worker", "resolve") /\ handed' \in Pool /\ Frame
    BY <1>2 DEF WorkerTakes, AtPc, caches, tables, scan, history, Frame
  <2>2. Typed /\ at'["worker"].pc = "resolve"
    BY <1>0, <2>1, GoGoes DEF Pcs
  <2> QED
    BY <1>1, <2>1, <2>2 DEF InCall
<1>3. CASE ResolvePool
  <2>1. at["worker"].pc = "resolve" /\ Frame
    BY <1>3 DEF ResolvePool, AtPc, tables, scan, history, Frame
  <2>2. CASE Go("worker", "cache") /\ UNCHANGED queue
    <3>1. Typed /\ at'["worker"].pc = "cache"
      BY <1>0, <2>2, GoGoes DEF Pcs
    <3> QED
      BY <1>0, <1>1, <2>1, <2>2, <3>1 DEF InCall, HandedInv, Resolving, queue
  <2>3. CASE WorkerFails
    <3>1. Typed /\ at'["worker"].pc = "idle"
      BY <1>0, <1>b, <2>3, PlaceGoes DEF WorkerFails, Rest, Idle
    <3> QED
      BY <1>1, <2>1, <3>1 DEF InCall, Resolving
  <2> QED
    BY <1>3, <2>2, <2>3 DEF ResolvePool
<1>4. CASE CachePool
  <2>1. /\ at["worker"].pc = "cache" /\ Frame
        /\ at' = [at EXCEPT !["worker"] = WithTokens("worker", TokensOf[handed])]
    BY <1>4 DEF CachePool, AtPc, tables, scan, history, Frame
  <2>2. TokensOf[handed] \in Seq(Token)
    BY <1>0, <2>1, TokensOfPool DEF HandedInv, Resolving
  <2>3. WithTokens("worker", TokensOf[handed]).pc \in {"store", "fetch"}
    BY DEF WithTokens, At
  <2>4. /\ Typed /\ at'["worker"].pc \in {"store", "fetch"}
        /\ at'["worker"].pc = "fetch" => at'["worker"].todo # <<>>
    BY <1>0, <2>1, <2>2, <2>3, WithTokensPlace, PlaceGoes
  <2> QED
    BY <1>1, <2>1, <2>4 DEF InCall, Resolving
<1>5. CASE StoreResolved
  <2>1. at["worker"].pc = "store" /\ Frame /\ Rest("worker")
    BY <1>5 DEF StoreResolved, AtPc, caches, scan, history, WorkerFails, Frame
  <2>2. Typed /\ at'["worker"].pc = "idle"
    BY <1>0, <1>b, <2>1, PlaceGoes DEF Rest, Idle
  <2> QED
    BY <1>1, <2>1, <2>2 DEF InCall, Resolving
<1>6. CASE Fetch("worker")
  BY <1>0, <1>6, FetchKeeps
<1>7. CASE WorkerPolls
  <2>1. at["worker"].pc = "idle" /\ Frame /\ at' = at
    BY <1>7 DEF WorkerPolls, AtPc, vars, caches, tables, scan, history, Frame
  <2> QED
    BY <1>0, <1>1, <2>1 DEF InCall, Resolving
<1> QED
  BY <1>2, <1>3, <1>4, <1>5, <1>6, <1>7 DEF Worker

-----------------------------------------------------------------------------
(* The process, the warm-up and the graph sync; the theorem.               *)

LEMMA ProcessKeeps ==
  ASSUME TokenInv, StartProcess \/ Crash
  PROVE  TokenInv'
<1>0. /\ FlightInv /\ ScanInv /\ HandedInv /\ at \in [Caller -> Place]
  BY DEF TokenInv, FlightInv
<1>1. CASE StartProcess
  <2>1. /\ DOMAIN memory' = Address /\ calls' = [t \in Token |-> 0]
        /\ UNCHANGED <<at, flight, done, event, handed>>
    BY <1>1 DEF StartProcess, WarmMemory, tables, scan, queue
  <2>2. ASSUME NEW c \in Caller PROVE AtOK(c)'
    <3>1. at[c].pc \in {"redis", "call"} => token(c) \in Token
      BY <1>0, TailOfTokens DEF FlightInv, AtOK, token, Place, Asking, InCall
    <3> QED
      BY <1>0, <2>1, <3>1 DEF FlightInv, AtOK, token
  <2>3. calls' \in [Token -> {0, 1}] /\ \A t \in Token : CalledOK(t)'
    BY <2>1 DEF CalledOK
  <2>4. FlightInv'
    BY <1>0, <2>1, <2>2, <2>3 DEF FlightInv
  <2> QED
    BY <1>0, <2>1, <2>4 DEF TokenInv, ScanInv, HandedInv, Resolving, batch
<1>2. CASE Crash
  <2>1. /\ DOMAIN memory' = Address /\ calls' = calls /\ up' = FALSE /\ done' = done /\ event' = 1
        /\ at' = [c \in Caller |-> Idle] /\ flight' = [t \in Token |-> Nobody]
    BY <1>2 DEF Crash, tables, history
  <2>2. Idle \in Place /\ Idle.pc = "idle" /\ "scan" \in Caller /\ "worker" \in Caller
    BY DEF Idle, Place, Pcs, Knowledge, Caller
  <2>3. FlightInv'
    BY <1>0, <2>1, <2>2 DEF FlightInv, AtOK, CalledOK, Asking, InCall
  <2> QED
    BY <1>0, <2>1, <2>2, <2>3 DEF TokenInv, ScanInv, HandedInv, Resolving
<1> QED
  BY <1>1, <1>2

LEMMA OthersKeep ==
  ASSUME TokenInv, UNCHANGED <<at, flight, calls, memory, up, done, event, handed>>
  PROVE  TokenInv'
BY DEF TokenInv, FlightInv, ScanInv, HandedInv, Resolving, AtOK, CalledOK, BeingSet, InMemory,
   token, batch

\* What an expiry leaves alone, and that a token whose entry in memory it takes
\* counts from then on as one that has not been asked for.
LEMMA ExpiryForgets ==
  ASSUME FlightInv, Expiry
  PROVE  /\ UNCHANGED <<up, seen, tables, at, got, scan, queue, flight, warmUp>>
         /\ DOMAIN memory' = Address /\ \A a \in Address : memory'[a] \in {memory[a], "none"}
         /\ calls' \in [Token -> {0, 1}] /\ warmed' \subseteq warmed
         /\ \A t \in Token : calls'[t] # 0 \/ t \in warmed' =>
              memory'[<<t, "mixed">>] = memory[<<t, "mixed">>] /\ calls'[t] = calls[t]
<1>0. /\ DOMAIN memory = Address /\ calls \in [Token -> {0, 1}]
      /\ \A t \in Token : <<t, "mixed">> \in Address
  BY DEF FlightInv, Address, Spelling
<1>1. CASE TokenExpires
  <2>1. UNCHANGED <<up, seen, tables, at, got, scan, queue, flight, warmUp>>
    BY <1>1 DEF TokenExpires, startUp
  <2>2. PICK t \in Token, old \in SUBSET Spelling :
          /\ memory' = [a \in Address |-> IF a[1] = t /\ a[2] \in old THEN "none" ELSE memory[a]]
          /\ calls' = IF "mixed" \in old THEN [calls EXCEPT ![t] = 0] ELSE calls
          /\ warmed' = IF "mixed" \in old THEN warmed \ {t} ELSE warmed
    BY <1>1 DEF TokenExpires
  <2>3. CASE "mixed" \in old
    BY <1>0, <2>1, <2>2, <2>3
  <2>4. CASE "mixed" \notin old
    BY <1>0, <2>1, <2>2, <2>4
  <2> QED
    BY <2>3, <2>4
<1>2. CASE PoolExpires \/ MarkerExpires
  BY <1>0, <1>2 DEF PoolExpires, MarkerExpires, caches, startUp, history
<1> QED
  BY <1>1, <1>2 DEF Expiry

LEMMA ExpiryKeeps ==
  ASSUME TokenInv, Expiry
  PROVE  TokenInv'
<1>0. /\ FlightInv /\ ScanInv /\ HandedInv
      /\ UNCHANGED <<at, flight, up, done, event, handed>>
  BY ExpiryForgets DEF TokenInv, tables, scan, queue
<1>1. ASSUME NEW c \in Caller PROVE AtOK(c)'
  <2>1. AtOK(c) /\ (at[c].pc \in {"redis", "call"} => token(c) \in Token)
    BY <1>0, TailOfTokens DEF FlightInv, AtOK, token, Place, Asking, InCall
  <2> QED
    BY <1>0, <2>1, ExpiryForgets DEF AtOK, token
<1>2. ASSUME NEW t \in Token PROVE CalledOK(t)'
  <2>1. BeingSet(t) => BeingSet(t)'
    BY <1>0 DEF BeingSet, token
  <2>2. calls'[t] = 1 => calls[t] = 1 /\ (InMemory(t) => InMemory(t)')
    BY <1>0, ExpiryForgets DEF InMemory
  <2> QED
    BY <1>0, <2>1, <2>2 DEF CalledOK, FlightInv
<1>3. FlightInv'
  BY <1>0, <1>1, <1>2, ExpiryForgets DEF FlightInv
<1> QED
  BY <1>0, <1>3 DEF TokenInv, ScanInv, HandedInv, Resolving, batch

LEMMA TokenKeeps == TokenInv /\ [Next]_vars => TokenInv'
<1> SUFFICES ASSUME TokenInv, [Next]_vars PROVE TokenInv'
  OBVIOUS
<1>1. CASE Scan \/ Worker \/ StartProcess \/ Crash
  BY <1>1, ScanKeeps, WorkerKeeps, ProcessKeeps
<1>2. CASE WarmUp \/ Graph \/ UNCHANGED vars
  <2>1. UNCHANGED <<at, flight, calls, memory, up, done, event, handed>>
    BY <1>2 DEF WarmUp, WarmTokens, WarmPools, Graph, GraphStores, GraphCaches, vars, caches,
       tables, scan, queue, startUp, history
  <2> QED
    BY <2>1, OthersKeep
<1>3. CASE Expiry
  BY <1>3, ExpiryKeeps
<1> QED
  BY <1>1, <1>2, <1>3 DEF Next

LEMMA TokenStarts == Init => TokenInv
<1> SUFFICES ASSUME Init PROVE TokenInv
  OBVIOUS
<1>1. Idle \in Place /\ Idle.pc = "idle" /\ "scan" \in Caller /\ "worker" \in Caller
  BY DEF Idle, Place, Pcs, Knowledge, Caller
<1>2. /\ at = [c \in Caller |-> Idle] /\ flight = [t \in Token |-> Nobody]
      /\ calls = [t \in Token |-> 0] /\ DOMAIN memory = Address /\ done = 0 /\ event = 1
  BY DEF Init
<1>3. FlightInv
  BY <1>1, <1>2 DEF FlightInv, AtOK, CalledOK, Asking, InCall
<1> QED
  BY <1>1, <1>2, <1>3 DEF TokenInv, ScanInv, HandedInv, Resolving

\* However the scanning goroutine and the worker come upon a token, whatever
\* fails or expires, at whatever moment, and however often the process dies, a
\* process asks the node for it at most once for as long as memory has the
\* answer: it never asks twice between two expiries of the token's entry.
THEOREM AsksOncePerToken == Spec => []OneCallPerToken
<1>1. TokenInv => OneCallPerToken
  BY DEF TokenInv, FlightInv, OneCallPerToken
<1> QED
  BY <1>1, TokenStarts, TokenKeeps, PTL DEF Spec

-----------------------------------------------------------------------------
(* What was stored before the process started is not asked for.            *)

Asks(c) == at[c].pc \in {"redis", "call"}

WarmInv ==
  /\ warmed \subseteq Token
  /\ IF up THEN \A t \in warmed : InMemory(t) ELSE \A c \in Caller : ~Asks(c)
  /\ \A c \in Caller : Asks(c) => token(c) \notin warmed
  /\ KnownNotAskedAgain

\* A goroutine that is about to ask did not find the token when it looked again.
AskStays(c) ==
  Asks(c)' => /\ token(c)' = token(c)
              /\ Asks(c) \/ (at[c].pc = "recheck" /\ Known(c) = "none")

LEMMA PlaceAsks ==
  ASSUME TokenInv, NEW c \in Caller, NEW place, place.pc \notin {"redis", "call"},
         at' = [at EXCEPT ![c] = place]
  PROVE  \A d \in Caller : AskStays(d)
BY DEF TokenInv, FlightInv, AskStays, Asks, token

LEMMA GoAsks ==
  ASSUME TokenInv, NEW c \in Caller, NEW pc \in Pcs \ {"redis", "call"}, Go(c, pc)
  PROVE  \A d \in Caller : AskStays(d)
BY DEF TokenInv, FlightInv, Go, AskStays, Asks, Place, token

LEMMA WithTokensAsks ==
  ASSUME TokenInv, NEW c \in Caller, NEW todo, at' = [at EXCEPT ![c] = WithTokens(c, todo)]
  PROVE  \A d \in Caller : AskStays(d)
<1>1. WithTokens(c, todo).pc \notin {"redis", "call"}
  BY DEF WithTokens, At
<1> QED
  BY <1>1, PlaceAsks

LEMMA RestAsks ==
  ASSUME TokenInv, NEW c \in Caller, Rest(c)
  PROVE  \A d \in Caller : AskStays(d)
BY PlaceAsks DEF Rest, Idle

LEMMA MoveOnAsks ==
  ASSUME TokenInv, NEW c \in Caller, NEW pc \in Pcs \ {"redis", "call"}, MoveOn(c, pc)
  PROVE  \A d \in Caller : AskStays(d)
BY PlaceAsks DEF MoveOn, At

LEMMA FetchAsks ==
  ASSUME TokenInv, NEW c \in Caller, Fetch(c)
  PROVE  \A d \in Caller : AskStays(d)
<1>0. at \in [Caller -> Place]
  BY DEF TokenInv, FlightInv
<1>1. CASE fetchTokenMeta(c)
  <2>1. at' = [at EXCEPT ![c] = WithTokens(c, Tail(at[c].todo))] \/ Go(c, "join")
    BY <1>1 DEF fetchTokenMeta
  <2> QED
    BY <2>1, WithTokensAsks, GoAsks DEF Pcs, Asking
<1>2. CASE Do(c)
  BY <1>2, GoAsks DEF Do, Pcs, Asking, InCall
<1>3. ASSUME NEW value, Finish(c, value)
      PROVE  \A d \in Caller : AskStays(d)
  BY <1>0, <1>3 DEF Finish, Answered, WithTokens, At, AskStays, Asks, token
<1>4. CASE Recheck(c)
  BY <1>0, <1>3, <1>4 DEF Recheck, AtPc, Go, AskStays, Asks, Place, token
<1>5. CASE getTokenMetaFromRedis(c)
  BY <1>0, <1>5 DEF getTokenMetaFromRedis, AtPc, AskStays, Asks, Place, token
<1>6. CASE resolveTokenMeta(c)
  BY <1>0, <1>6 DEF resolveTokenMeta, AskStays, Asks, Place, token
<1>7. CASE SetInMemory(c)
  BY <1>3, <1>7, GoAsks DEF SetInMemory, Pcs, Asking, InCall
<1>8. CASE setTokenMetaInRedis(c)
  BY <1>3, <1>8 DEF setTokenMetaInRedis
<1> QED
  BY <1>1, <1>2, <1>4, <1>5, <1>6, <1>7, <1>8 DEF Fetch

LEMMA NextLogAsks ==
  ASSUME TokenInv, NextLog
  PROVE  \A d \in Caller : AskStays(d)
<1>1. Go("scan", "store") \/ Go("scan", "log")
  BY DEF NextLog
<1> QED
  BY <1>1, GoAsks DEF Pcs, Caller

LEMMA StepAsks ==
  ASSUME TokenInv, Scan \/ Worker
  PROVE  \A d \in Caller : AskStays(d)
<1> DEFINE Goal == \A d \in Caller : AskStays(d)
<1>0. {"scan", "worker"} = Caller
  BY DEF Caller
<1>1. CASE StartBatch \/ WorkerTakes
  BY <1>0, <1>1, GoAsks DEF StartBatch, WorkerTakes, Pcs
<1>2. CASE PoolCreated \/ CachePool
  BY <1>0, <1>2, WithTokensAsks DEF PoolCreated, CachePool
<1>3. CASE TokenOfCreated
  <2>1. NextLog \/ MoveOn("scan", "tokens") \/ Go("scan", "fetch")
    BY <1>3 DEF TokenOfCreated
  <2> QED
    BY <1>0, <2>1, NextLogAsks, MoveOnAsks, GoAsks DEF Pcs, Asking
<1>4. CASE Swap
  <2>1. NextLog \/ at' = [at EXCEPT !["scan"] = At("decimals", TokensOf[log.pool])]
    BY <1>4 DEF Swap
  <2> QED
    BY <1>0, <2>1, NextLogAsks, PlaceAsks DEF At
<1>5. CASE CachedDecimals
  <2>1. \/ NextLog \/ MoveOn("scan", "decimals")
        \/ \E v \in Knowledge :
             at' = [at EXCEPT !["scan"].pc = "backfill", !["scan"].value = v]
    BY <1>5 DEF CachedDecimals
  <2>2. ASSUME NEW v \in Knowledge, at' = [at EXCEPT !["scan"].pc = "backfill", !["scan"].value = v]
        PROVE  Goal
    BY <1>0, <2>2 DEF TokenInv, FlightInv, AskStays, Asks, Place, token
  <2> QED
    BY <1>0, <2>1, <2>2, NextLogAsks, MoveOnAsks DEF Pcs
<1>6. CASE BackfillDecimals
  BY <1>0, <1>6, MoveOnAsks DEF BackfillDecimals, Pcs
<1>7. CASE StoreBatch \/ Commit
  BY <1>0, <1>7, GoAsks, RestAsks DEF StoreBatch, Commit, EndBatch, Pcs
<1>8. CASE ResolvePool
  BY <1>0, <1>8, GoAsks, RestAsks DEF ResolvePool, WorkerFails, Pcs
<1>9. CASE StoreResolved
  BY <1>0, <1>9, RestAsks DEF StoreResolved, WorkerFails
<1>10. CASE WorkerPolls
  BY <1>10 DEF WorkerPolls, vars, AskStays, Asks, token
<1>11. CASE Fetch("scan") \/ Fetch("worker")
  BY <1>0, <1>11, FetchAsks
<1> QED
  BY <1>1, <1>2, <1>3, <1>4, <1>5, <1>6, <1>7, <1>8, <1>9, <1>10, <1>11 DEF Scan, Worker

\* A step of a goroutine forgets no token, and asks only where it is about to.
LEMMA StepRemembers ==
  ASSUME TokenInv, Scan \/ Worker
  PROVE  /\ MemoryKept /\ up /\ UNCHANGED <<up, warmed>>
         /\ \A t \in Token : calls'[t] = calls[t] \/ \E c \in Caller : Asks(c) /\ token(c) = t
<1>0. FlightInv /\ at \in [Caller -> Place] /\ {"scan", "worker"} = Caller /\ DOMAIN memory = Address
  BY DEF TokenInv, FlightInv, Caller
<1> DEFINE Goal == /\ MemoryKept /\ up /\ UNCHANGED <<up, warmed>>
                   /\ \A t \in Token : \/ calls'[t] = calls[t]
                                       \/ \E c \in Caller : Asks(c) /\ token(c) = t
<1>1. ASSUME NEW c \in Caller, Fetch(c) PROVE Goal
  <2>1. up /\ UNCHANGED <<up, warmed>>
    BY <1>1 DEF Fetch, fetchTokenMeta, Do, Recheck, getTokenMetaFromRedis, resolveTokenMeta,
       SetInMemory, setTokenMetaInRedis, AtPc, history
  <2>2. MemoryKept
    <3>1. CASE SetInMemory(c)
      <4>1. at[c].pc \in {"keep", "set"} /\ memory' = [memory EXCEPT ![<<token(c), "mixed">>] = at[c].value]
        BY <3>1 DEF SetInMemory
      <4>2. at[c].value # "none"
        BY <1>0, <4>1 DEF FlightInv, AtOK
      <4> QED
        BY <1>0, <4>1, <4>2 DEF MemoryKept, InMemory
    <3>2. CASE ~SetInMemory(c)
      <4>1. memory' = memory
        BY <1>1, <3>2 DEF Fetch, fetchTokenMeta, Do, Recheck, getTokenMetaFromRedis,
           resolveTokenMeta, setTokenMetaInRedis, caches
      <4> QED
        BY <1>0, <4>1, MemorySame
    <3> QED
      BY <3>1, <3>2
  <2>3. CASE resolveTokenMeta(c)
    <3>1. at[c].pc = "call" /\ \A t \in Token \ {token(c)} : calls'[t] = calls[t]
      BY <1>0, <2>3 DEF resolveTokenMeta, AtPc, FlightInv
    <3> QED
      BY <2>1, <2>2, <3>1 DEF Asks
  <2>4. CASE ~resolveTokenMeta(c)
    <3>1. calls' = calls
      BY <1>1, <2>4 DEF Fetch, fetchTokenMeta, Do, Recheck, getTokenMetaFromRedis,
         SetInMemory, setTokenMetaInRedis, history
    <3> QED
      BY <2>1, <2>2, <3>1
  <2> QED
    BY <2>3, <2>4
<1>2. CASE BackfillDecimals
  <2>1. /\ at["scan"].pc = "backfill" /\ up /\ UNCHANGED <<up, calls, warmed>>
        /\ memory' = [memory EXCEPT ![address] = at["scan"].value]
    BY <1>2 DEF BackfillDecimals, AtPc, history
  <2>2. at["scan"].value # "none"
    BY <1>0, <2>1 DEF FlightInv, AtOK
  <2>3. MemoryKept
    BY <1>0, <2>1, <2>2 DEF MemoryKept, InMemory
  <2> QED
    BY <2>1, <2>3
<1>3. ASSUME Scan \/ Worker, ~BackfillDecimals, \A c \in Caller : ~Fetch(c) PROVE Goal
  <2>1. up /\ UNCHANGED <<up, warmed, calls, memory>>
    BY <1>0, <1>3 DEF Scan, Worker, StartBatch, PoolCreated, TokenOfCreated, Swap, CachedDecimals,
       StoreBatch, Commit, WorkerTakes, ResolvePool, CachePool, StoreResolved, WorkerPolls, AtPc,
       caches, history, vars
  <2> QED
    BY <1>0, <2>1, MemorySame
<1> QED
  BY <1>1, <1>2, <1>3

LEMMA WarmKeeps == TokenInv /\ WarmInv /\ [Next]_vars => WarmInv'
<1> SUFFICES ASSUME TokenInv, WarmInv, [Next]_vars PROVE WarmInv'
  OBVIOUS
<1>1. CASE Scan \/ Worker
  <2>1. /\ MemoryKept /\ up /\ UNCHANGED <<up, warmed>> /\ \A c \in Caller : AskStays(c)
        /\ \A t \in Token : calls'[t] = calls[t] \/ \E c \in Caller : Asks(c) /\ token(c) = t
    BY <1>1, StepAsks, StepRemembers
  <2>2. /\ warmed \subseteq Token /\ \A t \in warmed : InMemory(t) /\ calls[t] = 0
        /\ \A c \in Caller : Asks(c) => token(c) \notin warmed
    BY <2>1 DEF WarmInv, KnownNotAskedAgain
  <2>3. \A t \in warmed : InMemory(t)'
    BY <2>1, <2>2 DEF MemoryKept
  <2>4. ASSUME NEW c \in Caller, Asks(c)' PROVE token(c)' \notin warmed
    BY <2>1, <2>2, <2>4 DEF AskStays, Known, InMemory
  <2>5. \A t \in warmed : calls'[t] = 0
    BY <2>1, <2>2
  <2> QED
    BY <2>1, <2>2, <2>3, <2>4, <2>5 DEF WarmInv, KnownNotAskedAgain
<1>2. CASE StartProcess
  <2>1. ~up /\ up' /\ at' = at /\ calls' = [t \in Token |-> 0]
    BY <1>2 DEF StartProcess
  <2>2. warmed' \subseteq Token /\ \A t \in warmed' : InMemory(t)'
    BY <1>2 DEF StartProcess, WarmMemory, InMemory, Address, Spelling
  <2>3. \A c \in Caller : ~Asks(c)'
    BY <2>1 DEF WarmInv, Asks
  <2> QED
    BY <2>1, <2>2, <2>3 DEF WarmInv, KnownNotAskedAgain
<1>3. CASE Crash
  <2>1. ~up' /\ at' = [c \in Caller |-> Idle] /\ UNCHANGED <<calls, warmed>>
    BY <1>3 DEF Crash, history
  <2>2. \A c \in Caller : ~Asks(c)'
    BY <2>1 DEF Asks, Idle
  <2> QED
    BY <2>1, <2>2 DEF WarmInv, KnownNotAskedAgain
<1>4. CASE WarmUp \/ Graph \/ UNCHANGED vars
  <2>1. UNCHANGED <<at, calls, memory, up, warmed>>
    BY <1>4 DEF WarmUp, WarmTokens, WarmPools, Graph, GraphStores, GraphCaches, vars, caches, history
  <2> QED
    BY <2>1 DEF WarmInv, KnownNotAskedAgain, Asks, InMemory, token
<1>5. CASE Expiry
  <2>1. /\ FlightInv /\ warmed \subseteq Token /\ UNCHANGED <<at, up>>
    BY <1>5, ExpiryForgets DEF TokenInv, WarmInv
  <2>2. /\ warmed' \subseteq warmed
        /\ \A t \in warmed' : calls'[t] = calls[t] /\ (InMemory(t)' <=> InMemory(t))
    BY <1>5, <2>1, ExpiryForgets DEF InMemory
  <2> QED
    BY <2>1, <2>2 DEF WarmInv, KnownNotAskedAgain, Asks, token
<1> QED
  BY <1>1, <1>2, <1>3, <1>4, <1>5 DEF Next

\* A token whose row a process read when it started is not asked of the node by
\* that process until its entry in memory expires.
THEOREM WarmTokensAreNotAsked == Spec => []KnownNotAskedAgain
<1>1. Init => WarmInv
  BY DEF Init, WarmInv, KnownNotAskedAgain, Asks, Idle
<1>2. WarmInv => KnownNotAskedAgain
  BY DEF WarmInv
<1> QED
  BY <1>1, <1>2, TokenStarts, TokenKeeps, WarmKeeps, PTL DEF Spec

-----------------------------------------------------------------------------
(* The steps of the two goroutines, for what follows.                      *)

ScanOwn == StartBatch \/ PoolCreated \/ TokenOfCreated \/ Swap \/ CachedDecimals
             \/ BackfillDecimals \/ StoreBatch \/ Commit
WorkerOwn == WorkerTakes \/ ResolvePool \/ CachePool \/ StoreResolved \/ WorkerPolls

LEMMA Steps ==
  ASSUME [Next]_vars
  PROVE  \/ \E c \in Caller : Fetch(c)
         \/ ScanOwn \/ WorkerOwn \/ StartProcess \/ Crash \/ WarmUp \/ Graph \/ Expiry
         \/ UNCHANGED vars
BY DEF Next, Scan, Worker, ScanOwn, WorkerOwn, Caller

\* Outside of calls a goroutine goes no further than to the start of the next.
OwnMove(c) ==
  /\ up /\ UNCHANGED <<up, flight>>
  /\ at[c].pc \notin Asking /\ at'[c].pc \notin Asking \ {"fetch"}
  /\ \A d \in Caller \ {c} : at'[d] = at[d]

LEMMA OwnGo ==
  ASSUME TokenInv, NEW c \in Caller, NEW pc \in Pcs, Go(c, pc), pc \notin Asking \ {"fetch"}
  PROVE  at'[c].pc \notin Asking \ {"fetch"} /\ \A d \in Caller \ {c} : at'[d] = at[d]
BY GoGoes DEF TokenInv, FlightInv

LEMMA OwnPlace ==
  ASSUME TokenInv, NEW c \in Caller, NEW place, place.pc \notin Asking \ {"fetch"},
         at' = [at EXCEPT ![c] = place]
  PROVE  at'[c].pc \notin Asking \ {"fetch"} /\ \A d \in Caller \ {c} : at'[d] = at[d]
BY DEF TokenInv, FlightInv

LEMMA OwnWithTokens ==
  ASSUME TokenInv, NEW c \in Caller, NEW todo, at' = [at EXCEPT ![c] = WithTokens(c, todo)]
  PROVE  at'[c].pc \notin Asking \ {"fetch"} /\ \A d \in Caller \ {c} : at'[d] = at[d]
<1>1. WithTokens(c, todo).pc \in {"tokens", "store", "fetch"}
  BY DEF WithTokens, At
<1> QED
  BY <1>1, OwnPlace DEF Asking, InCall

LEMMA ScanOwnMoves ==
  ASSUME TokenInv, ScanOwn
  PROVE  OwnMove("scan")
<1> DEFINE Goal == /\ at'["scan"].pc \notin Asking \ {"fetch"}
                   /\ \A d \in Caller \ {"scan"} : at'[d] = at[d]
<1>0. "scan" \in Caller
  BY DEF Caller
<1>1. up /\ UNCHANGED <<up, flight>> /\ at["scan"].pc \notin Asking
  BY DEF ScanOwn, StartBatch, PoolCreated, TokenOfCreated, Swap, CachedDecimals, BackfillDecimals,
     StoreBatch, Commit, AtPc, Asking, InCall
<1>2. ASSUME NEW pc \in {"log", "store", "commit", "fetch"}, Go("scan", pc) PROVE Goal
  BY <1>0, <1>2, OwnGo DEF Pcs, Asking, InCall
<1>3. ASSUME NEW pc, NEW todo, pc \in {"tokens", "decimals"},
             at' = [at EXCEPT !["scan"] = At(pc, todo)]
      PROVE  Goal
  BY <1>0, <1>3, OwnPlace DEF At, Asking, InCall
<1>4. NextLog => Goal
  BY <1>2 DEF NextLog
<1>5. EndBatch => Goal
  BY <1>0, OwnPlace DEF EndBatch, Rest, Idle, Asking, InCall
<1>6. CASE StartBatch \/ StoreBatch \/ Commit
  BY <1>1, <1>2, <1>5, <1>6 DEF StartBatch, StoreBatch, Commit, OwnMove
<1>7. CASE PoolCreated
  <2>1. PICK todo : at' = [at EXCEPT !["scan"] = WithTokens("scan", todo)]
    BY <1>7 DEF PoolCreated
  <2> QED
    BY <1>0, <1>1, <2>1, OwnWithTokens DEF OwnMove
<1>8. CASE TokenOfCreated
  <2>1. NextLog \/ MoveOn("scan", "tokens") \/ Go("scan", "fetch")
    BY <1>8 DEF TokenOfCreated
  <2> QED
    BY <1>1, <1>2, <1>3, <1>4, <2>1 DEF MoveOn, OwnMove
<1>9. CASE Swap
  BY <1>1, <1>3, <1>4, <1>9 DEF Swap, OwnMove
<1>10. CASE CachedDecimals
  <2>1. \/ NextLog \/ MoveOn("scan", "decimals")
        \/ \E v \in Knowledge :
             at' = [at EXCEPT !["scan"].pc = "backfill", !["scan"].value = v]
    BY <1>10 DEF CachedDecimals
  <2>2. ASSUME NEW v, at' = [at EXCEPT !["scan"].pc = "backfill", !["scan"].value = v]
        PROVE  Goal
    BY <1>0, <2>2 DEF TokenInv, FlightInv, Place, Asking, InCall
  <2> QED
    BY <1>1, <1>3, <1>4, <2>1, <2>2 DEF MoveOn, OwnMove
<1>11. CASE BackfillDecimals
  <2>1. MoveOn("scan", "decimals")
    BY <1>11 DEF BackfillDecimals
  <2>2. at' = [at EXCEPT !["scan"] = At("decimals", Tail(at["scan"].todo))]
    BY <2>1 DEF MoveOn
  <2>3. Goal
    BY <1>0, <2>2, OwnPlace DEF At, Asking, InCall
  <2> QED
    BY <1>1, <2>3 DEF OwnMove
<1> QED
  BY <1>6, <1>7, <1>8, <1>9, <1>10, <1>11 DEF ScanOwn

LEMMA WorkerOwnMoves ==
  ASSUME TokenInv, WorkerOwn
  PROVE  OwnMove("worker")
<1> DEFINE Goal == /\ at'["worker"].pc \notin Asking \ {"fetch"}
                   /\ \A d \in Caller \ {"worker"} : at'[d] = at[d]
<1>0. "worker" \in Caller
  BY DEF Caller
<1>1. up /\ UNCHANGED <<up, flight>> /\ at["worker"].pc \notin Asking
  BY DEF WorkerOwn, WorkerTakes, ResolvePool, CachePool, StoreResolved, WorkerPolls, vars,
     AtPc, Asking, InCall
<1>2. ASSUME NEW pc \in {"resolve", "cache"}, Go("worker", pc) PROVE Goal
  BY <1>0, <1>2, OwnGo DEF Pcs, Asking, InCall
<1>3. Rest("worker") => Goal
  BY <1>0, OwnPlace DEF Rest, Idle, Asking, InCall
<1>4. CASE WorkerTakes \/ ResolvePool \/ StoreResolved
  BY <1>1, <1>2, <1>3, <1>4 DEF WorkerTakes, ResolvePool, StoreResolved, WorkerFails, OwnMove
<1>5. CASE CachePool
  BY <1>0, <1>1, <1>5, OwnWithTokens DEF CachePool, OwnMove
<1>6. CASE WorkerPolls
  BY <1>1, <1>6 DEF WorkerPolls, vars, OwnMove
<1> QED
  BY <1>4, <1>5, <1>6 DEF WorkerOwn

-----------------------------------------------------------------------------
(* Who waits, waits for another's call.                                    *)

WaitInv ==
  /\ \A c \in Caller : at[c].pc = "wait" => flight[token(c)] \notin {c, Nobody}
  /\ \A t \in Token : flight[t] # Nobody => at[flight[t]].pc \in InCall /\ token(flight[t]) = t
  /\ ~up => \A c \in Caller : at[c] = Idle

LEMMA OwnMoveWaits ==
  ASSUME TokenInv, WaitInv, NEW c \in Caller, OwnMove(c)
  PROVE  WaitInv'
<1>1. ASSUME NEW d \in Caller, at'[d].pc = "wait"
      PROVE  flight'[token(d)'] \notin {d, Nobody}
  <2>1. d # c
    BY <1>1 DEF OwnMove, Asking
  <2> QED
    BY <1>1, <2>1 DEF OwnMove, WaitInv, token
<1>2. ASSUME NEW t \in Token, flight'[t] # Nobody
      PROVE  at'[flight'[t]].pc \in InCall /\ Head(at'[flight'[t]].todo) = t
  <2>1. flight[t] \in Caller /\ flight'[t] = flight[t] /\ flight[t] # c
    BY <1>2 DEF OwnMove, WaitInv, TokenInv, FlightInv, Asking
  <2> QED
    BY <2>1 DEF OwnMove, WaitInv, token, Nobody, Caller
<1> QED
  BY <1>1, <1>2 DEF WaitInv, OwnMove, token

LEMMA FinishWaits ==
  ASSUME TokenInv, WaitInv, up, up' = up, NEW c \in Caller, at[c].pc \in InCall,
         NEW value, Finish(c, value)
  PROVE  WaitInv'
<1> DEFINE all == {c} \cup {d \in Caller : at[d].pc = "wait" /\ token(d) = token(c)}
<1>1. /\ \A d \in Caller : at'[d] = IF d \in all THEN WithTokens(d, Tail(at[d].todo)) ELSE at[d]
      /\ flight' = [flight EXCEPT ![token(c)] = Nobody]
  BY DEF Finish, Answered
<1>2. flight \in [Token -> Caller \cup {Nobody}] /\ token(c) \in Token /\ flight[token(c)] = c
  BY TailOfTokens DEF TokenInv, FlightInv, AtOK, token, Place, Asking
<1>3. \A d \in Caller : WithTokens(d, Tail(at[d].todo)).pc \in {"tokens", "store", "fetch"}
  BY DEF WithTokens, At
<1>4. ASSUME NEW d \in Caller, at'[d].pc = "wait"
      PROVE  flight'[token(d)'] \notin {d, Nobody}
  <2>1. d \notin all /\ at'[d] = at[d]
    BY <1>1, <1>3, <1>4
  <2>2. token(d) # token(c) /\ token(d)' = token(d) /\ at[d].pc = "wait"
    BY <1>4, <2>1 DEF token
  <2>3. token(d) \in Token
    BY <2>2, TailOfTokens DEF TokenInv, FlightInv, AtOK, token, Place, Asking
  <2> QED
    BY <1>1, <1>2, <2>2, <2>3 DEF WaitInv
<1>5. ASSUME NEW t \in Token, flight'[t] # Nobody
      PROVE  at'[flight'[t]].pc \in InCall /\ Head(at'[flight'[t]].todo) = t
  <2>1. t # token(c) /\ flight'[t] = flight[t] /\ flight[t] \in Caller
    BY <1>1, <1>2, <1>5
  <2>2. at[flight[t]].pc \in InCall /\ token(flight[t]) = t
    BY <1>5, <2>1 DEF WaitInv
  <2>3. flight[t] \notin all
    BY <2>1, <2>2 DEF InCall
  <2> QED
    BY <1>1, <2>1, <2>2, <2>3 DEF token
<1> QED
  BY <1>4, <1>5 DEF WaitInv, token

LEMMA FetchWaits ==
  ASSUME TokenInv, WaitInv, NEW c \in Caller, Fetch(c)
  PROVE  WaitInv'
<1>0. /\ up /\ up' = up /\ at \in [Caller -> Place]
      /\ flight \in [Token -> Caller \cup {Nobody}]
  BY DEF TokenInv, FlightInv, Fetch, fetchTokenMeta, Do, Recheck, getTokenMetaFromRedis,
     resolveTokenMeta, SetInMemory, setTokenMetaInRedis, AtPc
<1>1. ASSUME NEW value, Finish(c, value), at[c].pc \in InCall PROVE WaitInv'
  BY <1>0, <1>1, FinishWaits
<1>2. ASSUME at[c].pc \in InCall, flight' = flight, at'[c].pc \in InCall,
             at'[c].todo = at[c].todo, \A d \in Caller \ {c} : at'[d] = at[d]
      PROVE  WaitInv'
  <2>1. \A d \in Caller : token(d)' = token(d)
    BY <1>2 DEF token
  <2>2. \A d \in Caller : at'[d].pc = "wait" => at[d].pc = "wait"
    BY <1>2 DEF InCall
  <2>3. \A d \in Caller : at[d].pc \in InCall => at'[d].pc \in InCall
    BY <1>2
  <2> QED
    BY <1>0, <1>2, <2>1, <2>2, <2>3 DEF WaitInv
<1>3. CASE fetchTokenMeta(c) \/ (Do(c) /\ flight[token(c)] # Nobody)
  <2>1. /\ at[c].pc \in {"fetch", "join"} /\ flight' = flight
        /\ \A d \in Caller \ {c} : at'[d] = at[d]
        /\ at'[c].pc \in {"tokens", "store", "fetch", "join", "wait"}
    BY <1>0, <1>3 DEF fetchTokenMeta, Do, AtPc, Go, WithTokens, At, Place
  <2>2. at'[c].pc = "wait" => flight[token(c)] # Nobody /\ token(c)' = token(c)
    BY <1>0, <1>3 DEF fetchTokenMeta, Do, Go, WithTokens, At, Place, token
  <2>3. token(c) \in Token
    BY <2>1, TailOfTokens DEF TokenInv, FlightInv, AtOK, token, Place, Asking
  <2>4. flight[token(c)] # c
    BY <2>1, <2>3 DEF WaitInv, InCall, Nobody, Caller
  <2>5. ASSUME NEW d \in Caller, at'[d].pc = "wait"
        PROVE  flight'[token(d)'] \notin {d, Nobody}
    <3>1. CASE d = c
      BY <2>1, <2>2, <2>4, <2>5, <3>1
    <3>2. CASE d # c
      BY <2>1, <2>5, <3>2 DEF WaitInv, token
    <3> QED
      BY <3>1, <3>2
  <2>6. ASSUME NEW t \in Token, flight'[t] # Nobody
        PROVE  at'[flight'[t]].pc \in InCall /\ Head(at'[flight'[t]].todo) = t
    <3>1. flight[t] \in Caller \ {c} /\ at[flight[t]].pc \in InCall
      BY <1>0, <2>1, <2>6 DEF WaitInv, InCall
    <3> QED
      BY <2>1, <2>6, <3>1 DEF WaitInv, token
  <2> QED
    BY <1>0, <2>5, <2>6 DEF WaitInv, token
<1>4. CASE Do(c) /\ flight[token(c)] = Nobody
  <2>1. /\ at[c].pc = "join" /\ at'[c].pc = "recheck" /\ at'[c].todo = at[c].todo
        /\ \A d \in Caller \ {c} : at'[d] = at[d]
        /\ flight' = [flight EXCEPT ![token(c)] = c]
    BY <1>0, <1>4 DEF Do, AtPc, Go, Place
  <2>2. token(c) \in Token /\ \A d \in Caller : token(d)' = token(d)
    BY <2>1, TailOfTokens DEF TokenInv, FlightInv, AtOK, token, Place, Asking
  <2>3. ASSUME NEW d \in Caller, at'[d].pc = "wait"
        PROVE  flight'[token(d)'] \notin {d, Nobody}
    <3>1. d # c /\ at[d].pc = "wait" /\ flight[token(d)] \notin {d, Nobody}
      BY <2>1, <2>3 DEF WaitInv
    <3>2. token(d) # token(c)
      BY <1>4, <3>1
    <3> QED
      BY <1>0, <2>1, <2>2, <3>1, <3>2
  <2>4. ASSUME NEW t \in Token, flight'[t] # Nobody
        PROVE  at'[flight'[t]].pc \in InCall /\ Head(at'[flight'[t]].todo) = t
    <3>1. CASE t = token(c)
      BY <1>0, <2>1, <2>2, <3>1 DEF InCall, token
    <3>2. CASE t # token(c)
      <4>1. flight'[t] = flight[t] /\ flight[t] \in Caller
        BY <1>0, <2>1, <2>4, <3>2
      <4>2. at[flight[t]].pc \in InCall /\ token(flight[t]) = t /\ flight[t] # c
        BY <2>1, <2>4, <4>1 DEF WaitInv, InCall
      <4> QED
        BY <2>1, <2>2, <4>1, <4>2 DEF token
    <3> QED
      BY <3>1, <3>2
  <2> QED
    BY <1>0, <2>3, <2>4 DEF WaitInv, token
<1>5. CASE Recheck(c) \/ SetInMemory(c) \/ setTokenMetaInRedis(c)
  <2>1. at[c].pc \in InCall
    BY <1>5 DEF Recheck, SetInMemory, setTokenMetaInRedis, AtPc, InCall
  <2>2. \/ \E value : Finish(c, value)
        \/ flight' = flight /\ (Go(c, "redis") \/ Go(c, "write"))
    BY <1>5 DEF Recheck, SetInMemory, setTokenMetaInRedis
  <2>3. ASSUME NEW pc \in InCall, Go(c, pc), flight' = flight PROVE WaitInv'
    BY <1>0, <1>2, <2>1, <2>3, GoGoes DEF Pcs, Asking
  <2> QED
    BY <1>1, <2>1, <2>2, <2>3 DEF InCall
<1>6. CASE getTokenMetaFromRedis(c) \/ resolveTokenMeta(c)
  <2>1. /\ at[c].pc \in InCall /\ flight' = flight /\ at'[c].pc \in InCall
        /\ at'[c].todo = at[c].todo /\ \A d \in Caller \ {c} : at'[d] = at[d]
    <3>1. CASE getTokenMetaFromRedis(c)
      BY <1>0, <3>1 DEF getTokenMetaFromRedis, AtPc, InCall, Place
    <3>2. CASE resolveTokenMeta(c)
      BY <1>0, <3>2 DEF resolveTokenMeta, AtPc, InCall, Place
    <3> QED
      BY <1>6, <3>1, <3>2
  <2> QED
    BY <1>2, <2>1
<1> QED
  BY <1>3, <1>4, <1>5, <1>6 DEF Fetch

LEMMA WaitKeeps == TokenInv /\ WaitInv /\ [Next]_vars => WaitInv'
<1> SUFFICES ASSUME TokenInv, WaitInv, [Next]_vars PROVE WaitInv'
  OBVIOUS
<1>1. CASE \E c \in Caller : Fetch(c)
  BY <1>1, FetchWaits
<1>2. CASE ScanOwn \/ WorkerOwn
  BY <1>2, ScanOwnMoves, WorkerOwnMoves, OwnMoveWaits DEF Caller
<1>3. CASE StartProcess
  BY <1>3 DEF StartProcess, WaitInv, token
<1>4. CASE Crash
  BY <1>4 DEF Crash, WaitInv, Idle
<1>5. CASE WarmUp \/ Graph \/ Expiry \/ UNCHANGED vars
  <2>1. UNCHANGED <<at, flight, up>>
    BY <1>5 DEF WarmUp, WarmTokens, WarmPools, Graph, GraphStores, GraphCaches, Expiry,
       TokenExpires, PoolExpires, MarkerExpires, vars
  <2> QED
    BY <2>1 DEF WaitInv, token
<1> QED
  BY <1>1, <1>2, <1>3, <1>4, <1>5, Steps

-----------------------------------------------------------------------------
(* Which steps write what.                                                 *)

LEMMA MemoryChanges ==
  ASSUME [Next]_vars, memory' # memory
  PROVE  \/ \E c \in Caller : SetInMemory(c)
         \/ BackfillDecimals
         \/ StartProcess
         \/ Crash
         \/ TokenExpires
BY DEF Next, Scan, Worker, Fetch, WarmUp, Graph, Expiry, TokenExpires, PoolExpires,
       MarkerExpires, fetchTokenMeta, Do, Recheck,
       getTokenMetaFromRedis, resolveTokenMeta, setTokenMetaInRedis, StartBatch,
       PoolCreated, TokenOfCreated, Swap, CachedDecimals, StoreBatch, Commit,
       WorkerTakes, ResolvePool, CachePool, StoreResolved, WorkerPolls, WarmTokens,
       WarmPools, GraphStores, GraphCaches, caches, tables, scan, queue, startUp,
       history, vars, Caller

LEMMA SeenChanges ==
  ASSUME [Next]_vars, seen' # seen
  PROVE  \/ PoolCreated
         \/ Swap
         \/ ResolvePool
         \/ StartProcess
         \/ Crash
BY DEF Next, Scan, Worker, Fetch, WarmUp, Graph, Expiry, TokenExpires, PoolExpires,
       MarkerExpires, fetchTokenMeta, Do, Recheck,
       getTokenMetaFromRedis, resolveTokenMeta, SetInMemory, setTokenMetaInRedis,
       StartBatch, TokenOfCreated, CachedDecimals, BackfillDecimals, StoreBatch, Commit,
       WorkerTakes, CachePool, StoreResolved, WorkerPolls, WarmTokens, WarmPools,
       GraphStores, GraphCaches, caches, tables, scan, queue, startUp, history, vars

LEMMA RedisChanges ==
  ASSUME [Next]_vars, redis' # redis
  PROVE  \/ \E c \in Caller : setTokenMetaInRedis(c)
         \/ WarmTokens
         \/ \E p \in Pool : GraphCaches(p)
         \/ TokenExpires
BY DEF Next, Scan, Worker, Fetch, WarmUp, Graph, Expiry, TokenExpires, PoolExpires,
       MarkerExpires, fetchTokenMeta, Do, Recheck,
       getTokenMetaFromRedis, resolveTokenMeta, SetInMemory, StartBatch, PoolCreated,
       TokenOfCreated, Swap, CachedDecimals, BackfillDecimals, StoreBatch, Commit,
       WorkerTakes, ResolvePool, CachePool, StoreResolved, WorkerPolls, StartProcess,
       WarmPools, Crash, GraphStores, caches, tables, scan, queue, startUp, history,
       vars, Caller

LEMMA RedisPoolChanges ==
  ASSUME [Next]_vars, redisPool' # redisPool
  PROVE  \/ CachePool
         \/ WarmPools
         \/ \E p \in Pool : GraphCaches(p)
         \/ PoolExpires
BY DEF Next, Scan, Worker, Fetch, WarmUp, Graph, Expiry, TokenExpires, PoolExpires,
       MarkerExpires, fetchTokenMeta, Do, Recheck,
       getTokenMetaFromRedis, resolveTokenMeta, SetInMemory, setTokenMetaInRedis,
       StartBatch, PoolCreated, TokenOfCreated, Swap, CachedDecimals, BackfillDecimals,
       StoreBatch, Commit, WorkerTakes, ResolvePool, StoreResolved, WorkerPolls,
       StartProcess, WarmTokens, Crash, GraphStores, caches, tables, scan, queue,
       startUp, history, vars, Caller

LEMMA RowsChanges ==
  ASSUME [Next]_vars, <<row, poolRow>>' # <<row, poolRow>>
  PROVE  \/ StoreBatch
         \/ StoreResolved
         \/ \E p \in Pool : GraphStores(p)
BY DEF Next, Scan, Worker, Fetch, WarmUp, Graph, Expiry, TokenExpires, PoolExpires,
       MarkerExpires, fetchTokenMeta, Do, Recheck,
       getTokenMetaFromRedis, resolveTokenMeta, SetInMemory, setTokenMetaInRedis,
       StartBatch, PoolCreated, TokenOfCreated, Swap, CachedDecimals, BackfillDecimals,
       Commit, WorkerTakes, ResolvePool, CachePool, WorkerPolls, StartProcess,
       WarmTokens, WarmPools, Crash, GraphCaches, caches, tables, scan, queue, startUp,
       history, vars

LEMMA FoundChanges ==
  ASSUME [Next]_vars, found' # found
  PROVE  \/ PoolCreated
         \/ StoreBatch
         \/ Commit
         \/ Crash
BY DEF Next, Scan, Worker, Fetch, WarmUp, Graph, Expiry, TokenExpires, PoolExpires,
       MarkerExpires, fetchTokenMeta, Do, Recheck,
       getTokenMetaFromRedis, resolveTokenMeta, SetInMemory, setTokenMetaInRedis,
       StartBatch, TokenOfCreated, Swap, CachedDecimals, BackfillDecimals, WorkerTakes,
       ResolvePool, CachePool, StoreResolved, WorkerPolls, StartProcess, WarmTokens,
       WarmPools, GraphStores, GraphCaches, caches, tables, scan, queue, startUp,
       history, vars

LEMMA WaitingChanges ==
  ASSUME [Next]_vars, waiting' # waiting
  PROVE  \/ Swap
         \/ ResolvePool
         \/ StoreResolved
         \/ Crash
BY DEF Next, Scan, Worker, Fetch, WarmUp, Graph, Expiry, TokenExpires, PoolExpires,
       MarkerExpires, fetchTokenMeta, Do, Recheck,
       getTokenMetaFromRedis, resolveTokenMeta, SetInMemory, setTokenMetaInRedis,
       StartBatch, PoolCreated, TokenOfCreated, CachedDecimals, BackfillDecimals,
       StoreBatch, Commit, WorkerTakes, CachePool, WorkerPolls, StartProcess,
       WarmTokens, WarmPools, GraphStores, GraphCaches, caches, tables, scan, queue,
       startUp, history, vars

-----------------------------------------------------------------------------
(* Types.                                                                  *)

\* What the goroutines and the warm-up carry has its type too.
TypeInv ==
  /\ TypeOK
  /\ got \in [Caller -> [Token -> Knowledge]]
  /\ found \subseteq Pool
  /\ at["worker"].pc # "idle" => handed \in Pool
  /\ warmUp.tokens \in [Token -> Knowledge]
  /\ wrong \in Seq(Faults)

LEMMA WrongGrows ==
  ASSUME wrong \in Seq(Faults), [Next]_vars
  PROVE  /\ wrong' = wrong \/ \E kind \in Faults : wrong' = Append(wrong, kind)
         /\ wrong' \in Seq(Faults)
         /\ \A kind : Has(kind) => Has(kind)'
<1>1. wrong' = wrong \/ \E kind \in Faults : wrong' = Append(wrong, kind)
  BY DEF Next, Scan, Worker, Fetch, WarmUp, Graph, Expiry, TokenExpires, PoolExpires,
       MarkerExpires, fetchTokenMeta, Do, Recheck,
         getTokenMetaFromRedis, resolveTokenMeta, SetInMemory, setTokenMetaInRedis,
         StartBatch, PoolCreated, TokenOfCreated, Swap, CachedDecimals,
         BackfillDecimals, StoreBatch, Commit, WorkerTakes, ResolvePool, CachePool,
         StoreResolved, WorkerPolls, StartProcess, WarmTokens, WarmPools, Crash,
         GraphStores, GraphCaches, caches, tables, scan, queue, startUp, history, vars,
         GoesWrong, Fine, Read
<1>2. ASSUME NEW kind \in Faults, wrong' = Append(wrong, kind)
      PROVE  wrong' \in Seq(Faults) /\ \A k : Has(k) => Has(k)'
  <2>1. /\ wrong' \in Seq(Faults) /\ DOMAIN wrong \subseteq DOMAIN wrong'
        /\ \A i \in DOMAIN wrong : wrong'[i] = wrong[i]
    BY <1>2
  <2> QED
    BY <2>1 DEF Has
<1>3. wrong' = wrong => \A k : Has(k) => Has(k)'
  BY DEF Has
<1> QED
  BY <1>1, <1>2, <1>3

LEMMA UnknownTyped == Unknown \in [Token -> Knowledge]
BY DEF Unknown, Knowledge

LEMMA AnswerTyped ==
  ASSUME got \in [Caller -> [Token -> Knowledge]], NEW c \in Caller, NEW value \in Knowledge,
         Answered(c, value)
  PROVE  got' \in [Caller -> [Token -> Knowledge]]
BY DEF Answered

LEMMA RestTyped ==
  ASSUME got \in [Caller -> [Token -> Knowledge]], NEW c \in Caller, Rest(c)
  PROVE  got' \in [Caller -> [Token -> Knowledge]]
BY UnknownTyped DEF Rest

LEMMA GotTyped ==
  ASSUME TokenInv, TypeInv, [Next]_vars
  PROVE  got' \in [Caller -> [Token -> Knowledge]]
<1>0. got \in [Caller -> [Token -> Knowledge]] /\ at \in [Caller -> Place]
  BY DEF TypeInv, TokenInv, FlightInv
<1>1. ASSUME NEW c \in Caller, Fetch(c) PROVE got' \in [Caller -> [Token -> Knowledge]]
  <2>1. at[c].pc \in Asking /\ token(c) \in Token
    <3>1. at[c].pc \in Asking
      BY <1>1 DEF Fetch, fetchTokenMeta, Do, Recheck, getTokenMetaFromRedis, resolveTokenMeta,
         SetInMemory, setTokenMetaInRedis, AtPc, Asking, InCall
    <3> QED
      BY <3>1, TailOfTokens DEF TokenInv, FlightInv, AtOK, token, Place
  <2>2. Known(c) \in Knowledge /\ at[c].value \in Knowledge
    BY <1>0, <2>1 DEF Known, TypeInv, TypeOK, Address, Spelling, Place
  <2>3. \/ got' = got \/ got' = [got EXCEPT ![c][token(c)] = Known(c)]
        \/ Finish(c, Known(c)) \/ Finish(c, at[c].value)
    BY <1>1 DEF Fetch, fetchTokenMeta, Do, Recheck, getTokenMetaFromRedis, resolveTokenMeta,
       SetInMemory, setTokenMetaInRedis
  <2>4. CASE got' = [got EXCEPT ![c][token(c)] = Known(c)]
    BY <1>0, <2>2, <2>4
  <2>5. CASE Finish(c, Known(c)) \/ Finish(c, at[c].value)
    BY <1>0, <2>2, <2>5, AnswerTyped DEF Finish
  <2> QED
    BY <1>0, <2>3, <2>4, <2>5
<1>2. CASE ScanOwn \/ WorkerOwn
  <2>1. got' = got \/ \E c \in Caller : Rest(c)
    BY <1>2 DEF ScanOwn, StartBatch, PoolCreated, TokenOfCreated, Swap, CachedDecimals,
       BackfillDecimals, StoreBatch, Commit, EndBatch, WorkerOwn, WorkerTakes, ResolvePool,
       CachePool, StoreResolved, WorkerFails, WorkerPolls, vars, Caller
  <2> QED
    BY <1>0, <2>1, RestTyped
<1>3. CASE Crash
  BY <1>3, UnknownTyped DEF Crash
<1>4. CASE StartProcess \/ WarmUp \/ Graph \/ Expiry \/ UNCHANGED vars
  BY <1>0, <1>4 DEF StartProcess, WarmUp, WarmTokens, WarmPools, Graph, GraphStores, GraphCaches,
     Expiry, TokenExpires, PoolExpires, MarkerExpires, vars
<1> QED
  BY <1>1, <1>2, <1>3, <1>4, Steps

LEMMA StoredTyped ==
  ASSUME row \in [Address -> Knowledge], poolRow \subseteq Pool \X Spelling,
         NEW pools \in SUBSET Pool, NEW tokens \in [Token -> Knowledge], NEW s \in Spelling,
         Stored(pools, tokens, s)
  PROVE  row' \in [Address -> Knowledge] /\ poolRow' \subseteq Pool \X Spelling
<1>1. \A a \in Address : a[1] \in Token
  BY DEF Address
<1> QED
  BY <1>1 DEF Stored

LEMMA RowsTyped ==
  ASSUME TypeInv, [Next]_vars
  PROVE  row' \in [Address -> Knowledge] /\ poolRow' \subseteq Pool \X Spelling
<1>0. /\ row \in [Address -> Knowledge] /\ poolRow \subseteq Pool \X Spelling
      /\ "mixed" \in Spelling /\ "lower" \in Spelling
  BY DEF TypeInv, TypeOK, Spelling
<1>1. CASE StoreBatch
  <2>1. got["scan"] \in [Token -> Knowledge] /\ found \in SUBSET Pool
    BY DEF TypeInv, Caller
  <2>2. Stored(found, got["scan"], "mixed") \/ UNCHANGED <<row, poolRow>>
    BY <1>1 DEF StoreBatch
  <2> QED
    BY <1>0, <2>1, <2>2, StoredTyped
<1>2. CASE StoreResolved
  <2>1. got["worker"] \in [Token -> Knowledge] /\ {handed} \in SUBSET Pool
    BY <1>2 DEF TypeInv, Caller, StoreResolved, AtPc
  <2>2. Stored({handed}, got["worker"], "mixed") \/ UNCHANGED <<row, poolRow>>
    BY <1>2 DEF StoreResolved
  <2> QED
    BY <1>0, <2>1, <2>2, StoredTyped
<1>3. ASSUME NEW p \in Pool, GraphStores(p)
      PROVE  row' \in [Address -> Knowledge] /\ poolRow' \subseteq Pool \X Spelling
  <2> DEFINE own == [t \in Token |-> IF t \in TokenSet(p) THEN "own" ELSE "none"]
  <2>1. own \in [Token -> Knowledge]
    BY DEF Knowledge
  <2>2. Stored({p}, own, "lower")
    BY <1>3 DEF GraphStores
  <2> HIDE DEF own
  <2> QED
    BY <1>0, <2>1, <2>2, StoredTyped
<1> QED
  BY <1>0, <1>1, <1>2, <1>3, RowsChanges

LEMMA CachesTyped ==
  ASSUME TokenInv, TypeInv, [Next]_vars
  PROVE  /\ memory' \in [Address -> Knowledge] /\ redis' \in [Token -> Knowledge]
         /\ seen' \in [Pool -> Spelling \cup {"none"}]
         /\ redisPool' \in [Pool -> Spelling \cup {"none"}]
<1>0. /\ memory \in [Address -> Knowledge] /\ redis \in [Token -> Knowledge]
      /\ row \in [Address -> Knowledge]
      /\ seen \in [Pool -> Spelling \cup {"none"}]
      /\ redisPool \in [Pool -> Spelling \cup {"none"}]
      /\ at \in [Caller -> Place] /\ "none" \in Knowledge /\ "own" \in Knowledge
      /\ "mixed" \in Spelling /\ "lower" \in Spelling /\ "scan" \in Caller
  BY DEF TypeInv, TypeOK, TokenInv, FlightInv, Knowledge, Spelling, Caller
<1>1. memory' \in [Address -> Knowledge]
  <2>1. \A c \in Caller : at[c].value \in Knowledge
    BY <1>0 DEF Place
  <2>2. ASSUME NEW c \in Caller, SetInMemory(c) PROVE memory' \in [Address -> Knowledge]
    BY <1>0, <2>1, <2>2 DEF SetInMemory
  <2>3. CASE BackfillDecimals
    BY <1>0, <2>1, <2>3 DEF BackfillDecimals
  <2>4. CASE StartProcess \/ Crash
    BY <1>0, <2>4 DEF StartProcess, WarmMemory, Crash
  <2>5. CASE TokenExpires
    BY <1>0, <2>5 DEF TokenExpires
  <2> QED
    BY <1>0, <2>2, <2>3, <2>4, <2>5, MemoryChanges
<1>2. redis' \in [Token -> Knowledge]
  <2>1. ASSUME NEW c \in Caller, setTokenMetaInRedis(c) PROVE redis' \in [Token -> Knowledge]
    BY <1>0, <2>1 DEF setTokenMetaInRedis, Place
  <2>2. CASE WarmTokens
    BY <1>0, <2>2 DEF WarmTokens, TypeInv
  <2>3. ASSUME NEW p \in Pool, GraphCaches(p) PROVE redis' \in [Token -> Knowledge]
    BY <1>0, <2>3 DEF GraphCaches
  <2>4. CASE TokenExpires
    BY <1>0, <2>4 DEF TokenExpires
  <2> QED
    BY <1>0, <2>1, <2>2, <2>3, <2>4, RedisChanges
<1>3. seen' \in [Pool -> Spelling \cup {"none"}]
  <2>1. CASE PoolCreated \/ ResolvePool
    BY <1>0, <2>1 DEF PoolCreated, ResolvePool
  <2>2. CASE Swap
    <3>1. log.pool \in Pool
      BY <2>2, LogOfBatch DEF TokenInv, Swap, AtPc
    <3> QED
      BY <1>0, <2>2, <3>1 DEF Swap
  <2>3. CASE StartProcess \/ Crash
    BY <1>0, <2>3 DEF StartProcess, WarmMemory, Crash
  <2> QED
    BY <1>0, <2>1, <2>2, <2>3, SeenChanges
<1>4. redisPool' \in [Pool -> Spelling \cup {"none"}]
  <2>1. CASE CachePool
    BY <1>0, <2>1 DEF CachePool
  <2>2. CASE WarmPools
    BY <1>0, <2>2 DEF WarmPools
  <2>3. ASSUME NEW p \in Pool, GraphCaches(p) PROVE redisPool' \in [Pool -> Spelling \cup {"none"}]
    BY <1>0, <2>3 DEF GraphCaches
  <2>4. CASE PoolExpires
    BY <1>0, <2>4 DEF PoolExpires
  <2> QED
    BY <1>0, <2>1, <2>2, <2>3, <2>4, RedisPoolChanges
<1> QED
  BY <1>1, <1>2, <1>3, <1>4

LEMMA WorkTyped ==
  ASSUME TokenInv, TypeInv, [Next]_vars
  PROVE  /\ found' \subseteq Pool
         /\ waiting' \in [Pool -> -1..MaxAttempts - 1]
         /\ at'["worker"].pc # "idle" => handed' \in Pool
         /\ warmUp'.tokens \in [Token -> Knowledge]
         /\ done' \in 0..Len(Batches)
         /\ up' \in BOOLEAN /\ marker' \in BOOLEAN
<1>0. /\ found \subseteq Pool /\ waiting \in [Pool -> -1..MaxAttempts - 1]
      /\ at["worker"].pc # "idle" => handed \in Pool
      /\ warmUp.tokens \in [Token -> Knowledge] /\ done \in 0..Len(Batches)
      /\ up \in BOOLEAN /\ marker \in BOOLEAN /\ MaxAttempts \in Nat \ {0}
  BY MaxAttemptsAssumption DEF TypeInv, TypeOK
<1>1. found' \subseteq Pool
  <2>1. CASE PoolCreated
    BY <1>0, <2>1, LogOfBatch DEF PoolCreated, AtPc, TokenInv
  <2>2. CASE StoreBatch \/ Commit \/ Crash
    BY <1>0, <2>2 DEF StoreBatch, Commit, Crash, EndBatch, scan
  <2> QED
    BY <1>0, <2>1, <2>2, FoundChanges
<1>2. waiting' \in [Pool -> -1..MaxAttempts - 1]
  <2>1. CASE Swap
    BY <1>0, <2>1 DEF Swap
  <2>2. CASE ResolvePool \/ StoreResolved
    <3>1. \/ WorkerFails \/ waiting' = waiting
          \/ waiting' = [waiting EXCEPT ![handed] = -1]
      BY <2>2 DEF ResolvePool, StoreResolved, queue
    <3>2. CASE WorkerFails
      <4>1. handed \in Pool
        BY <1>0, <2>2 DEF ResolvePool, StoreResolved, AtPc
      <4>2. waiting[handed] \in -1..MaxAttempts - 1
        BY <1>0, <4>1
      <4>3. (IF waiting[handed] + 1 >= MaxAttempts THEN -1 ELSE waiting[handed] + 1)
              \in -1..MaxAttempts - 1
        BY <1>0, <4>2
      <4> QED
        BY <1>0, <3>2, <4>3 DEF WorkerFails
    <3> QED
      BY <1>0, <3>1, <3>2
  <2>3. CASE Crash
    BY <1>0, <2>3 DEF Crash
  <2> QED
    BY <1>0, <2>1, <2>2, <2>3, WaitingChanges
<1>3. at'["worker"].pc # "idle" => handed' \in Pool
  <2>0. at \in [Caller -> Place] /\ "worker" \in Caller /\ "scan" \in Caller
    BY DEF TokenInv, FlightInv, Caller
  <2>1. ASSUME NEW c \in Caller, Fetch(c) PROVE at'["worker"].pc # "idle" => handed' \in Pool
    <3>1. handed' = handed
      BY <2>1 DEF Fetch, fetchTokenMeta, Do, Recheck, getTokenMetaFromRedis, resolveTokenMeta,
         SetInMemory, setTokenMetaInRedis, queue
    <3>2. at["worker"].pc = "idle" => at'["worker"].pc = "idle"
      BY <2>0, <2>1 DEF Fetch, fetchTokenMeta, Do, Recheck, getTokenMetaFromRedis,
         resolveTokenMeta, SetInMemory, setTokenMetaInRedis, Finish, Answered, Go, AtPc
    <3> QED
      BY <1>0, <3>1, <3>2
  <2>2. CASE ScanOwn
    <3>1. handed' = handed
      BY <2>2 DEF ScanOwn, StartBatch, PoolCreated, TokenOfCreated, Swap, CachedDecimals,
         BackfillDecimals, StoreBatch, Commit, queue
    <3>2. at'["worker"] = at["worker"]
      BY <2>0, <2>2, ScanOwnMoves DEF OwnMove
    <3> QED
      BY <1>0, <3>1, <3>2
  <2>3. CASE WorkerOwn
    <3>1. CASE WorkerTakes
      BY <3>1 DEF WorkerTakes
    <3>2. CASE \/ Rest("worker")
      BY <2>0, <3>2 DEF Rest, Idle
    <3>3. CASE at["worker"].pc # "idle" /\ handed' = handed
      BY <1>0, <3>3
    <3>4. CASE WorkerPolls
      BY <1>0, <3>4 DEF WorkerPolls, vars, queue
    <3> QED
      BY <2>3, <3>1, <3>2, <3>3, <3>4 DEF WorkerOwn, ResolvePool, CachePool, StoreResolved,
         WorkerFails, AtPc, queue
  <2>4. CASE Crash
    BY <2>0, <2>4 DEF Crash, Idle
  <2>5. CASE StartProcess \/ WarmUp \/ Graph \/ Expiry \/ UNCHANGED vars
    BY <1>0, <2>5 DEF StartProcess, WarmUp, WarmTokens, WarmPools, Graph, GraphStores,
       GraphCaches, Expiry, TokenExpires, PoolExpires, MarkerExpires, vars, queue
  <2> QED
    BY <2>1, <2>2, <2>3, <2>4, <2>5, Steps
<1>4. warmUp'.tokens \in [Token -> Knowledge]
  <2>1. warmUp' # warmUp => StartProcess \/ WarmTokens \/ WarmPools \/ Crash
    BY DEF Next, Scan, Worker, Fetch, WarmUp, Graph, Expiry, TokenExpires, PoolExpires,
       MarkerExpires, fetchTokenMeta, Do, Recheck,
           getTokenMetaFromRedis, resolveTokenMeta, SetInMemory, setTokenMetaInRedis,
           StartBatch, PoolCreated, TokenOfCreated, Swap, CachedDecimals,
           BackfillDecimals, StoreBatch, Commit, WorkerTakes, ResolvePool, CachePool,
           StoreResolved, WorkerPolls, GraphStores, GraphCaches, caches, tables, scan,
           queue, startUp, history, vars
  <2>2. CASE StartProcess
    BY <2>2, UnknownTyped DEF StartProcess, Snapshots
  <2>3. CASE WarmTokens \/ WarmPools \/ Crash
    BY <2>3, UnknownTyped DEF WarmTokens, WarmPools, WarmPc, Crash
  <2> QED
    BY <1>0, <2>1, <2>2, <2>3
<1>5. done' \in 0..Len(Batches)
  <2>1. CASE Commit
    BY <1>0, <2>1, LogsAssumption DEF Commit, AtPc, TokenInv, ScanInv
  <2>2. CASE ~Commit
    <3>1. done' = done
      BY <2>2 DEF Next, Scan, Worker, Fetch, WarmUp, Graph, Expiry, TokenExpires,
             PoolExpires, MarkerExpires, fetchTokenMeta, Do, Recheck,
             getTokenMetaFromRedis, resolveTokenMeta, SetInMemory, setTokenMetaInRedis,
             StartBatch, PoolCreated, TokenOfCreated, Swap, CachedDecimals,
             BackfillDecimals, StoreBatch, WorkerTakes, ResolvePool, CachePool,
             StoreResolved, WorkerPolls, StartProcess, WarmTokens, WarmPools, Crash,
             GraphStores, GraphCaches, caches, tables, scan, queue, startUp, history,
             vars
    <3> QED
      BY <1>0, <3>1
  <2> QED
    BY <2>1, <2>2
<1>6. up' \in BOOLEAN /\ marker' \in BOOLEAN
  BY <1>0, Steps DEF Next, Scan, Worker, Fetch, WarmUp, Graph, Expiry, TokenExpires,
         PoolExpires, MarkerExpires, fetchTokenMeta, Do, Recheck,
         getTokenMetaFromRedis, resolveTokenMeta, SetInMemory, setTokenMetaInRedis,
         StartBatch, PoolCreated, TokenOfCreated, Swap, CachedDecimals,
         BackfillDecimals, StoreBatch, Commit, WorkerTakes, ResolvePool, CachePool,
         StoreResolved, WorkerPolls, StartProcess, WarmTokens, WarmPools, Crash,
         GraphStores, GraphCaches, caches, tables, scan, queue, startUp, history, vars,
         WarmPc
<1> QED
  BY <1>1, <1>2, <1>3, <1>4, <1>5, <1>6

LEMMA TypeKeeps == TokenInv /\ TypeInv /\ [Next]_vars => TypeInv'
<1> SUFFICES ASSUME TokenInv, TypeInv, [Next]_vars PROVE TypeInv'
  OBVIOUS
<1>1. WaitInv
  BY DEF TypeInv, TypeOK, WaitInv, InCall
<1>2. WaitInv' /\ TokenInv'
  BY <1>1, WaitKeeps, TokenKeeps
<1>3. /\ \A c \in Caller : at'[c].pc = "wait" => flight'[token(c)'] \notin {c, Nobody}
      /\ (\A t \in Token : flight[t] # Nobody =>
            at[flight[t]].pc \in {"recheck", "redis", "call", "keep", "set", "write"}
            /\ token(flight[t]) = t)'
      /\ ~up' => \A c \in Caller : at'[c] = Idle
      /\ flight' \in [Token -> Caller \cup {Nobody}]
  BY <1>2 DEF WaitInv, InCall, TokenInv, FlightInv
<1>4. wrong' \in Seq(Faults)
  BY WrongGrows DEF TypeInv
<1> QED
  BY <1>3, <1>4, GotTyped, RowsTyped, CachesTyped, WorkTyped DEF TypeInv, TypeOK

LEMMA TypeStarts == Init => TypeInv
<1> SUFFICES ASSUME Init PROVE TypeInv
  OBVIOUS
<1>1. /\ up = FALSE /\ marker = FALSE /\ done = 0 /\ wrong = <<>> /\ found = {}
      /\ at = [c \in Caller |-> Idle] /\ got = [c \in Caller |-> Unknown]
      /\ flight = [t \in Token |-> Nobody] /\ warmUp = [pc |-> "done", tokens |-> Unknown]
      /\ waiting = [p \in Pool |-> -1]
      /\ memory = [a \in Address |-> "none"] /\ seen = [p \in Pool |-> "none"]
      /\ redis = Unknown /\ redisPool = [p \in Pool |-> "none"]
  BY DEF Init
<1>2. row \in [Address -> Knowledge] /\ poolRow \subseteq Pool \X Spelling
  BY DEF Init, Knowledge, Spelling
<1>3. Len(Batches) \in Nat /\ MaxAttempts \in Nat \ {0}
  BY LogsAssumption, MaxAttemptsAssumption
<1>4. \A c \in Caller : at[c] = Idle /\ at[c].pc = "idle"
  BY <1>1 DEF Idle
<1>5. TypeOK
  <2>0. up \in BOOLEAN /\ marker \in BOOLEAN
    BY <1>1, Zenon
  <2>1. done \in 0..Len(Batches) /\ waiting \in [Pool -> -1..MaxAttempts - 1]
    BY <1>1, <1>3
  <2>2. /\ memory \in [Address -> Knowledge] /\ redis \in [Token -> Knowledge]
        /\ seen \in [Pool -> Spelling \cup {"none"}]
        /\ redisPool \in [Pool -> Spelling \cup {"none"}]
    BY <1>1, UnknownTyped DEF Knowledge
  <2>3. flight \in [Token -> Caller \cup {Nobody}] /\ \A t \in Token : flight[t] = Nobody
    BY <1>1
  <2>4. \A c \in Caller : at[c].pc # "wait"
    BY <1>4
  <2> QED
    BY <1>2, <1>4, <2>0, <2>1, <2>2, <2>3, <2>4 DEF TypeOK
<1>6. at["worker"].pc = "idle" /\ warmUp.tokens = Unknown /\ wrong \in Seq(Faults)
  BY <1>1, <1>4 DEF Caller
<1> QED
  BY <1>1, <1>5, <1>6, UnknownTyped DEF TypeInv

\* Memory, Redis, tables, queue and the calls under way keep their types; who
\* waits for a call waits for another goroutine's, which is under way.
THEOREM TokenTypeCorrect == Spec => []TypeOK
<1>1. TypeInv => TypeOK
  BY DEF TypeInv
<1> QED
  BY <1>1, TokenStarts, TokenKeeps, TypeStarts, TypeKeeps, PTL DEF Spec

-----------------------------------------------------------------------------
(* What is stored.  While no store has failed and no process has died, a   *)
(* token that is in memory has its row or somebody who is about to store   *)
(* it, and so has every token of a pool whose row, Redis entry or place in *)
(* memory exists; when nobody is at work, only the row is left.            *)

HasRow(t) == row[<<t, "mixed">>] # "none"
Listed(c, t) == \E i \in DOMAIN at[c].todo : at[c].todo[i] = t

\* A goroutine is to store the token.
ScanBrings(t) == got["scan"][t] # "none" \/ (at["scan"].pc \in Asking /\ token("scan") = t)
WorkerBrings(t) == at["worker"].pc \notin {"idle", "resolve"} /\ t \in TokenSet(handed)
Due(t) == HasRow(t) \/ ScanBrings(t) \/ WorkerBrings(t)

\* Or the scanning goroutine has yet to look whether it must.
Coming(t) == Due(t) \/ (at["scan"].pc \in Asking \cup {"tokens"} /\ Listed("scan", t))

ScanBringsAll ==
  /\ at["scan"].pc = "idle" => got["scan"] = Unknown
  /\ at["scan"].pc = "commit" => \A t \in Token : got["scan"][t] # "none" => HasRow(t)
  /\ at["scan"].pc \in {"decimals", "backfill"} =>
       \A i \in DOMAIN at["scan"].todo : at["scan"].todo[i] \in TokenSet(log.pool)

WorkerBringsAll ==
  /\ at["worker"].pc \in Asking =>
       \A i \in DOMAIN at["worker"].todo : at["worker"].todo[i] \in TokenSet(handed)
  /\ at["worker"].pc \in Asking \cup {"store"} =>
       \A t \in TokenSet(handed) :
         got["worker"][t] # "none" \/ (at["worker"].pc \in Asking /\ Listed("worker", t))

MemoryDue == \A t \in Token : InMemory(t) => Due(t)
PoolsComing ==
  \A p \in Pool : p \in found \/ seen[p] = "mixed" => \A t \in TokenSet(p) : Coming(t)
PoolsDue ==
  \A p \in Pool : <<p, "mixed">> \in poolRow \/ redisPool[p] = "mixed" =>
    \A t \in TokenSet(p) : Due(t)

RowInv == MemoryDue /\ PoolsComing /\ PoolsDue /\ ScanBringsAll /\ WorkerBringsAll

\* The subgraphs' pools are stored with their tokens.
LowerInv ==
  \A p \in Pool : <<p, "lower">> \in poolRow =>
    \A t \in TokenSet(p) : row[<<t, "lower">>] # "none"

StoredInv == LowerInv /\ (~Has("store") /\ ~Has("crash") => RowInv)

LEMMA SetOfTokens ==
  ASSUME NEW p \in Pool
  PROVE  /\ TokenSet(p) \subseteq Token
         /\ \A i \in DOMAIN TokensOf[p] : TokensOf[p][i] \in TokenSet(p)
         /\ \A t \in TokenSet(p) : \E i \in DOMAIN TokensOf[p] : TokensOf[p][i] = t
         /\ \A t \in TokenSet(p) : LET other == <<TokensOf[p][2], TokensOf[p][1]>>
                                   IN \E i \in DOMAIN other : other[i] = t
<1>1. PICK t0, t1 \in Token : TokensOf[p] = <<t0, t1>>
  BY TokensAssumption
<1>2. /\ DOMAIN <<t0, t1>> = {1, 2} /\ <<t0, t1>>[1] = t0 /\ <<t0, t1>>[2] = t1
      /\ DOMAIN <<t1, t0>> = {1, 2} /\ <<t1, t0>>[1] = t1 /\ <<t1, t0>>[2] = t0
  OBVIOUS
<1> QED
  BY <1>1, <1>2 DEF TokenSet

LEMMA TailLists ==
  ASSUME NEW s \in Seq(Token), s # <<>>
  PROVE  /\ \A i \in DOMAIN s : s[i] = Head(s) \/ \E j \in DOMAIN Tail(s) : Tail(s)[j] = s[i]
         /\ \A j \in DOMAIN Tail(s) : \E i \in DOMAIN s : s[i] = Tail(s)[j]
         /\ \E i \in DOMAIN s : s[i] = Head(s)
<1>1. /\ Tail(s) \in Seq(Token) /\ Len(Tail(s)) = Len(s) - 1 /\ Len(s) \in Nat /\ Len(s) > 0
      /\ \A j \in 1..Len(s) - 1 : Tail(s)[j] = s[j + 1]
      /\ DOMAIN s = 1..Len(s) /\ DOMAIN Tail(s) = 1..Len(s) - 1
  OBVIOUS
<1>2. Head(s) = s[1]
  OBVIOUS
<1>3. ASSUME NEW i \in DOMAIN s, i # 1
      PROVE  \E j \in DOMAIN Tail(s) : Tail(s)[j] = s[i]
  <2>1. i - 1 \in 1..Len(s) - 1 /\ (i - 1) + 1 = i
    BY <1>1, <1>3
  <2> QED
    BY <1>1, <2>1
<1>4. ASSUME NEW j \in DOMAIN Tail(s) PROVE j + 1 \in DOMAIN s /\ s[j + 1] = Tail(s)[j]
  BY <1>1
<1>5. 1 \in DOMAIN s
  BY <1>1
<1> QED
  BY <1>2, <1>3, <1>4, <1>5

\* A step of a call: a goroutine stays in it, or gets a value for its token and
\* goes on to the next, or is not concerned.
StaysAsking(d) ==
  /\ at[d].pc \in Asking /\ at'[d].pc \in Asking /\ at'[d].todo = at[d].todo /\ got'[d] = got[d]
GetsToken(d) ==
  /\ at[d].pc \in Asking /\ at'[d] = WithTokens(d, Tail(at[d].todo))
  /\ \E v \in Knowledge \ {"none"} : got'[d] = [got[d] EXCEPT ![token(d)] = v]
NotConcerned(d) == at'[d] = at[d] /\ got'[d] = got[d]
EachMoves == \A d \in Caller : StaysAsking(d) \/ GetsToken(d) \/ NotConcerned(d)

FetchFrame == UNCHANGED <<row, poolRow, done, event, found, seen, redisPool, handed>>

LEMMA FetchMoves ==
  ASSUME TokenInv, TypeInv, NEW c \in Caller, Fetch(c)
  PROVE  FetchFrame /\ EachMoves
<1>0. /\ at \in [Caller -> Place] /\ got \in [Caller -> [Token -> Knowledge]] /\ AtOK(c)
      /\ memory \in [Address -> Knowledge]
  BY DEF TokenInv, FlightInv, TypeInv, TypeOK
<1>1. FetchFrame
  BY DEF Fetch, fetchTokenMeta, Do, Recheck, getTokenMetaFromRedis, resolveTokenMeta,
     SetInMemory, setTokenMetaInRedis, caches, tables, scan, queue, FetchFrame
<1>2. at[c].pc \in Asking /\ at[c].todo # <<>> /\ token(c) \in Token
  <2>1. at[c].pc \in Asking
    BY DEF Fetch, fetchTokenMeta, Do, Recheck, getTokenMetaFromRedis, resolveTokenMeta,
       SetInMemory, setTokenMetaInRedis, AtPc, Asking, InCall
  <2> QED
    BY <1>0, <2>1, TailOfTokens DEF AtOK, token, Place
<1>3. Known(c) \in Knowledge
  BY <1>0, <1>2 DEF Known, Address, Spelling
<1>4. ASSUME NEW v \in Knowledge \ {"none"}, Finish(c, v) PROVE EachMoves
  <2> DEFINE all == {c} \cup {d \in Caller : at[d].pc = "wait" /\ token(d) = token(c)}
  <2>1. /\ at' = [d \in Caller |-> IF d \in all THEN WithTokens(d, Tail(at[d].todo)) ELSE at[d]]
        /\ got' = [d \in Caller |-> IF d \in all THEN [got[d] EXCEPT ![token(c)] = v] ELSE got[d]]
    BY <1>4 DEF Finish, Answered
  <2>2. \A d \in all : at[d].pc \in Asking /\ token(d) = token(c)
    BY <1>2 DEF Asking
  <2> HIDE DEF all
  <2> QED
    BY <2>1, <2>2 DEF GetsToken, NotConcerned, EachMoves
<1>5. ASSUME got' = got, at'[c].pc \in Asking, at'[c].todo = at[c].todo,
             \A d \in Caller \ {c} : at'[d] = at[d]
      PROVE  EachMoves
  BY <1>2, <1>5 DEF StaysAsking, NotConcerned, EachMoves
<1>6. ASSUME NEW pc \in Asking, Go(c, pc), got' = got PROVE EachMoves
  BY <1>0, <1>5, <1>6, GoGoes DEF Pcs
<1>7. CASE fetchTokenMeta(c)
  <2>1. CASE Known(c) # "none"
    <3>1. /\ at' = [at EXCEPT ![c] = WithTokens(c, Tail(at[c].todo))]
          /\ got' = [got EXCEPT ![c][token(c)] = Known(c)]
      BY <1>7, <2>1 DEF fetchTokenMeta
    <3>2. GetsToken(c)
      BY <1>0, <1>2, <1>3, <2>1, <3>1 DEF GetsToken
    <3>3. \A d \in Caller \ {c} : NotConcerned(d)
      BY <1>0, <3>1 DEF NotConcerned
    <3> QED
      BY <1>1, <3>2, <3>3 DEF EachMoves
  <2>2. CASE Known(c) = "none"
    BY <1>1, <1>6, <1>7, <2>2 DEF fetchTokenMeta, Asking
  <2> QED
    BY <2>1, <2>2
<1>8. CASE Do(c)
  BY <1>1, <1>6, <1>8 DEF Do, Asking, InCall
<1>9. CASE Recheck(c)
  BY <1>1, <1>3, <1>4, <1>6, <1>9 DEF Recheck, Asking, InCall
<1>10. CASE getTokenMetaFromRedis(c)
  <2>1. /\ got' = got /\ at'[c].pc \in Asking /\ at'[c].todo = at[c].todo
        /\ \A d \in Caller \ {c} : at'[d] = at[d]
    BY <1>0, <1>10 DEF getTokenMetaFromRedis, Place, Asking, InCall
  <2> QED
    BY <1>1, <1>5, <2>1
<1>11. CASE resolveTokenMeta(c)
  <2>1. /\ got' = got /\ at'[c].pc \in Asking /\ at'[c].todo = at[c].todo
        /\ \A d \in Caller \ {c} : at'[d] = at[d]
    BY <1>0, <1>11 DEF resolveTokenMeta, Place, Asking, InCall
  <2> QED
    BY <1>1, <1>5, <2>1
<1>12. CASE SetInMemory(c) \/ setTokenMetaInRedis(c)
  <2>1. at[c].value \in Knowledge \ {"none"}
    BY <1>0, <1>12 DEF SetInMemory, setTokenMetaInRedis, AtPc, AtOK, Place
  <2>2. Finish(c, at[c].value) \/ (Go(c, "write") /\ got' = got)
    BY <1>12 DEF SetInMemory, setTokenMetaInRedis
  <2> QED
    BY <1>1, <1>4, <1>6, <2>1, <2>2 DEF Asking, InCall
<1> QED
  BY <1>1, <1>7, <1>8, <1>9, <1>10, <1>11, <1>12 DEF Fetch

LEMMA FetchKeepsRows ==
  ASSUME TokenInv, TypeInv, RowInv, NEW c \in Caller, Fetch(c)
  PROVE  RowInv'
<1>0. /\ at \in [Caller -> Place] /\ got \in [Caller -> [Token -> Knowledge]]
      /\ FetchFrame /\ "scan" \in Caller /\ "worker" \in Caller
      /\ \A d \in Caller : StaysAsking(d) \/ GetsToken(d) \/ NotConcerned(d)
      /\ MemoryDue /\ PoolsComing /\ PoolsDue /\ ScanBringsAll /\ WorkerBringsAll
  BY FetchMoves DEF TokenInv, FlightInv, TypeInv, Caller, RowInv, EachMoves
<1>1. ASSUME NEW d \in Caller, GetsToken(d)
      PROVE  /\ at[d].todo \in Seq(Token) /\ at[d].todo # <<>> /\ token(d) = Head(at[d].todo)
             /\ got'[d][token(d)] # "none"
             /\ \A t \in Token : got[d][t] # "none" => got'[d][t] # "none"
             /\ at'[d].todo = Tail(at[d].todo)
             /\ at'[d].pc = IF d = "scan" THEN "tokens"
                            ELSE IF Tail(at[d].todo) = <<>> THEN "store" ELSE "fetch"
  <2>1. at[d].todo \in Seq(Token) /\ at[d].todo # <<>>
    BY <1>0, <1>1 DEF GetsToken, TokenInv, FlightInv, AtOK, Place
  <2>2. token(d) \in Token
    BY <2>1, TailOfTokens DEF token
  <2>3. /\ got'[d][token(d)] # "none"
        /\ \A t \in Token : got[d][t] # "none" => got'[d][t] # "none"
    BY <1>0, <1>1, <2>2 DEF GetsToken
  <2>4. at'[d] = [pc |-> IF d = "scan" THEN "tokens"
                         ELSE IF Tail(at[d].todo) = <<>> THEN "store" ELSE "fetch",
                  todo |-> Tail(at[d].todo), value |-> "none"]
    BY <1>1 DEF GetsToken, WithTokens, At
  <2> QED
    BY <2>1, <2>3, <2>4 DEF token
<1>2. ASSUME NEW t \in Token, ScanBrings(t) PROVE ScanBrings(t)'
  BY <1>0, <1>1, <1>2 DEF StaysAsking, NotConcerned, ScanBrings, token
<1>3. ASSUME NEW t \in Token, WorkerBrings(t) PROVE WorkerBrings(t)'
  <2>1. at'["worker"].pc \notin {"idle", "resolve"} /\ handed' = handed
    BY <1>0, <1>1, <1>3 DEF StaysAsking, NotConcerned, WorkerBrings, FetchFrame, Asking, InCall
  <2> QED
    BY <1>3, <2>1 DEF WorkerBrings
<1>4. \A t \in Token : Due(t) => Due(t)'
  BY <1>0, <1>2, <1>3 DEF Due, HasRow, FetchFrame
<1>5. ASSUME NEW t \in Token, Coming(t) PROVE Coming(t)'
  <2>1. CASE Due(t)
    BY <1>4, <2>1 DEF Coming
  <2>2. CASE at["scan"].pc \in Asking \cup {"tokens"} /\ Listed("scan", t)
    <3>1. CASE StaysAsking("scan") \/ NotConcerned("scan")
      BY <2>2, <3>1 DEF StaysAsking, NotConcerned, Coming, Listed
    <3>2. CASE GetsToken("scan")
      <4>1. t = token("scan") \/ Listed("scan", t)'
        <5>1. /\ at["scan"].todo \in Seq(Token) /\ at["scan"].todo # <<>>
              /\ token("scan") = Head(at["scan"].todo)
              /\ at'["scan"].todo = Tail(at["scan"].todo)
          BY <1>0, <1>1, <3>2
        <5>2. PICK i \in DOMAIN at["scan"].todo : at["scan"].todo[i] = t
          BY <2>2 DEF Listed
        <5> QED
          BY <5>1, <5>2, TailLists DEF Listed
      <4>2. t = token("scan") => ScanBrings(t)'
        BY <1>0, <1>1, <3>2 DEF ScanBrings
      <4> QED
        BY <1>0, <1>1, <3>2, <4>1, <4>2 DEF Coming, Due
    <3> QED
      BY <1>0, <3>1, <3>2
  <2> QED
    BY <1>5, <2>1, <2>2 DEF Coming
<1>6. MemoryDue'
  <2>1. \A t \in Token : InMemory(t)' => InMemory(t) \/ (SetInMemory(c) /\ t = token(c))
    <3>1. CASE SetInMemory(c)
      <4>1. memory' = [memory EXCEPT ![<<token(c), "mixed">>] = at[c].value]
        BY <3>1 DEF SetInMemory
      <4> QED
        BY <3>1, <4>1 DEF InMemory, TypeInv, TypeOK
    <3>2. CASE ~SetInMemory(c)
      <4>1. memory' = memory
        BY <3>2 DEF Fetch, fetchTokenMeta, Do, Recheck, getTokenMetaFromRedis,
           resolveTokenMeta, setTokenMetaInRedis, caches
      <4> QED
        BY <4>1 DEF InMemory
    <3> QED
      BY <3>1, <3>2
  <2>2. ASSUME SetInMemory(c) PROVE Due(token(c))
    <3>1. at[c].pc \in Asking /\ at[c].todo # <<>> /\ at[c].todo \in Seq(Token)
      BY <1>0, <2>2 DEF SetInMemory, Asking, InCall, TokenInv, FlightInv, AtOK, Place
    <3>2. CASE c = "scan"
      BY <3>1, <3>2 DEF Due, ScanBrings
    <3>3. CASE c = "worker"
      <4>1. token(c) \in TokenSet(handed)
        BY <1>0, <3>1, <3>3, TailLists DEF WorkerBringsAll, token
      <4> QED
        BY <3>1, <3>3, <4>1 DEF Due, WorkerBrings, Asking, InCall
    <3> QED
      BY <3>2, <3>3 DEF Caller
  <2> QED
    BY <1>0, <1>4, <2>1, <2>2 DEF MemoryDue
<1>7. PoolsComing' /\ PoolsDue'
  BY <1>0, <1>4, <1>5, SetOfTokens DEF PoolsComing, PoolsDue, FetchFrame
<1>8. ScanBringsAll'
  <2>1. CASE NotConcerned("scan")
    BY <1>0, <2>1 DEF NotConcerned, ScanBringsAll, FetchFrame, HasRow, log, batch
  <2>2. CASE StaysAsking("scan") \/ GetsToken("scan")
    <3>1. at'["scan"].pc \in Asking \cup {"tokens"}
      BY <1>0, <1>1, <2>2 DEF StaysAsking
    <3> QED
      BY <3>1 DEF ScanBringsAll, Asking, InCall
  <2> QED
    BY <1>0, <2>1, <2>2
<1>9. WorkerBringsAll'
  <2>1. CASE NotConcerned("worker") \/ StaysAsking("worker")
    BY <1>0, <2>1 DEF NotConcerned, StaysAsking, WorkerBringsAll, FetchFrame, Listed, Asking, InCall
  <2>2. CASE GetsToken("worker")
    <3>0. /\ at["worker"].pc \in Asking /\ handed' = handed
          /\ at["worker"].todo \in Seq(Token) /\ at["worker"].todo # <<>>
          /\ at'["worker"].todo = Tail(at["worker"].todo)
          /\ at'["worker"].pc = IF Tail(at["worker"].todo) = <<>> THEN "store" ELSE "fetch"
      BY <1>0, <1>1, <2>2 DEF GetsToken, FetchFrame
    <3>1. \A i \in DOMAIN at'["worker"].todo : at'["worker"].todo[i] \in TokenSet(handed')
      BY <1>0, <3>0, TailLists DEF WorkerBringsAll
    <3>2. ASSUME NEW t \in TokenSet(handed)
          PROVE  got'["worker"][t] # "none" \/ (at'["worker"].pc \in Asking /\ Listed("worker", t)')
      <4>0. t \in Token
        BY <3>0, SetOfTokens DEF TypeInv, Asking, InCall
      <4>1. got["worker"][t] # "none" \/ t = token("worker") \/ Listed("worker", t)'
        <5>1. got["worker"][t] # "none" \/ Listed("worker", t)
          BY <1>0, <3>0 DEF WorkerBringsAll
        <5>2. ASSUME NEW i \in DOMAIN at["worker"].todo, at["worker"].todo[i] = t
              PROVE  t = token("worker") \/ Listed("worker", t)'
          <6>1. \/ t = Head(at["worker"].todo)
                \/ \E j \in DOMAIN Tail(at["worker"].todo) : Tail(at["worker"].todo)[j] = t
            BY <3>0, <5>2, TailLists
          <6>2. CASE t = Head(at["worker"].todo)
            BY <6>2 DEF token
          <6>3. CASE \E j \in DOMAIN Tail(at["worker"].todo) : Tail(at["worker"].todo)[j] = t
            BY <3>0, <6>3 DEF Listed
          <6> QED
            BY <6>1, <6>2, <6>3
        <5> QED
          BY <5>1, <5>2 DEF Listed
      <4>2. Listed("worker", t)' => at'["worker"].pc \in Asking
        BY <3>0 DEF Listed, Asking
      <4> QED
        BY <1>0, <1>1, <2>2, <4>0, <4>1, <4>2
    <3> QED
      BY <3>0, <3>1, <3>2 DEF WorkerBringsAll
  <2> QED
    BY <1>0, <2>1, <2>2
<1> QED
  BY <1>6, <1>7, <1>8, <1>9 DEF RowInv

\* The rows are kept up by a step after which nothing is due that was not.
LEMMA RowsFollow ==
  ASSUME RowInv, ScanBringsAll', WorkerBringsAll',
         \A t \in Token : Due(t) => Due(t)',
         \A t \in Token : Coming(t) => Coming(t)',
         \A t \in Token : InMemory(t)' => InMemory(t) \/ Due(t)',
         \A p \in Pool : (p \in found \/ seen[p] = "mixed")' =>
           p \in found \/ seen[p] = "mixed" \/ \A t \in TokenSet(p) : Coming(t)',
         \A p \in Pool : (<<p, "mixed">> \in poolRow \/ redisPool[p] = "mixed")' =>
           \/ <<p, "mixed">> \in poolRow \/ redisPool[p] = "mixed"
           \/ \A t \in TokenSet(p) : Due(t)'
  PROVE  RowInv'
<1>1. MemoryDue'
  BY DEF RowInv, MemoryDue
<1>2. PoolsComing'
  BY SetOfTokens DEF RowInv, PoolsComing
<1>3. PoolsDue'
  BY SetOfTokens DEF RowInv, PoolsDue
<1> QED
  BY <1>1, <1>2, <1>3 DEF RowInv

\* A step of the scanning goroutine outside of calls leaves the worker's be.
LEMMA ScanStepsAside ==
  ASSUME TokenInv, TypeInv, RowInv, ScanOwn,
         \A t \in Token : HasRow(t) => HasRow(t)',
         \A t \in Token : got["scan"][t] # "none" => got'["scan"][t] # "none" \/ HasRow(t)'
  PROVE  WorkerBringsAll' /\ \A t \in Token : Due(t) => Due(t)'
<1>1. at'["worker"] = at["worker"] /\ at["scan"].pc \notin Asking
  BY ScanOwnMoves DEF OwnMove, Caller
<1>2. got'["worker"] = got["worker"] /\ handed' = handed
  BY DEF ScanOwn, StartBatch, PoolCreated, TokenOfCreated, Swap, CachedDecimals,
     BackfillDecimals, StoreBatch, Commit, EndBatch, Rest, queue, TypeInv, Caller
<1>3. WorkerBringsAll'
  BY <1>1, <1>2 DEF RowInv, WorkerBringsAll, Listed
<1>4. ASSUME NEW t \in Token, Due(t) PROVE Due(t)'
  <2>1. CASE HasRow(t) \/ got["scan"][t] # "none"
    BY <2>1 DEF Due, ScanBrings
  <2>2. CASE WorkerBrings(t)
    BY <1>1, <1>2, <2>2 DEF Due, WorkerBrings
  <2> QED
    BY <1>1, <1>4, <2>1, <2>2 DEF Due, ScanBrings
<1> QED
  BY <1>3, <1>4

LEMMA ScanPlaces ==
  ASSUME TokenInv
  PROVE  /\ at \in [Caller -> Place] /\ "scan" \in Caller /\ "worker" \in Caller
         /\ at["scan"].todo \in Seq(Token)
         /\ at["scan"].pc = "backfill" => at["scan"].todo # <<>>
BY DEF TokenInv, FlightInv, AtOK, Caller, Place

LEMMA ScanMovesOn ==
  ASSUME TokenInv, NEW pc \in Pcs, MoveOn("scan", pc)
  PROVE  at'["scan"].pc = pc /\ at'["scan"].todo = Tail(at["scan"].todo)
<1>1. at'["scan"] = [pc |-> pc, todo |-> Tail(at["scan"].todo), value |-> "none"]
  BY ScanPlaces DEF MoveOn, At
<1> QED
  BY <1>1

LEMMA BatchStartKeepsRows ==
  ASSUME TokenInv, TypeInv, RowInv, StartBatch \/ CachedDecimals
  PROVE  RowInv'
<1>0. UNCHANGED <<row, poolRow, memory, got, found, seen, redisPool>>
  BY DEF StartBatch, CachedDecimals, caches, tables, scan
<1>1. WorkerBringsAll' /\ \A t \in Token : Due(t) => Due(t)'
  BY <1>0, ScanStepsAside DEF ScanOwn, HasRow
<1>2. \A t \in Token : Coming(t) => Coming(t)'
  BY <1>1 DEF Coming, StartBatch, CachedDecimals, AtPc, Asking, InCall
<1>3. ScanBringsAll'
  <2>1. CASE StartBatch
    <3>1. at'["scan"].pc = "log"
      BY <2>1, ScanPlaces, GoGoes DEF StartBatch, Pcs
    <3> QED
      BY <3>1 DEF ScanBringsAll
  <2>2. CASE CachedDecimals /\ at["scan"].todo = <<>>
    <3>1. at'["scan"].pc \in {"store", "log"}
      BY <2>2, NextLogGoes DEF CachedDecimals, tables, AtPc
    <3> QED
      BY <3>1 DEF ScanBringsAll
  <2>3. CASE CachedDecimals /\ at["scan"].todo # <<>>
    <3>1. /\ event' = event /\ done' = done
          /\ at["scan"].pc = "decimals"
      BY <2>3 DEF CachedDecimals, tables, AtPc
    <3>2. /\ at'["scan"].pc \in {"decimals", "backfill"}
          /\ at'["scan"].todo \in {at["scan"].todo, Tail(at["scan"].todo)}
      <4>1. \/ MoveOn("scan", "decimals")
            \/ \E v \in Knowledge : at' = [at EXCEPT !["scan"].pc = "backfill", !["scan"].value = v]
        BY <2>3 DEF CachedDecimals
      <4>2. CASE MoveOn("scan", "decimals")
        BY <4>2, ScanMovesOn DEF Pcs
      <4>3. CASE \E v \in Knowledge : at' = [at EXCEPT !["scan"].pc = "backfill", !["scan"].value = v]
        BY <4>3, ScanPlaces DEF Place
      <4> QED
        BY <4>1, <4>2, <4>3
    <3>3. \A i \in DOMAIN at["scan"].todo : at["scan"].todo[i] \in TokenSet(log.pool)
      BY <3>1 DEF RowInv, ScanBringsAll
    <3>4. \A i \in DOMAIN at'["scan"].todo : at'["scan"].todo[i] \in TokenSet(log.pool)
      <4> DEFINE of == TokenSet(log.pool)
      <4>1. \A i \in DOMAIN at["scan"].todo : at["scan"].todo[i] \in of
        BY <3>3
      <4> HIDE DEF of
      <4>2. \A i \in DOMAIN Tail(at["scan"].todo) : Tail(at["scan"].todo)[i] \in of
        BY <2>3, <4>1, ScanPlaces, TailLists
      <4>3. \A i \in DOMAIN at'["scan"].todo : at'["scan"].todo[i] \in of
        BY <3>2, <4>1, <4>2
      <4> QED
        BY <4>3 DEF of
    <3>5. log' = log
      BY <3>1 DEF log, batch
    <3> QED
      BY <3>2, <3>4, <3>5 DEF ScanBringsAll
  <2> QED
    BY <2>1, <2>2, <2>3
<1> QED
  BY <1>0, <1>1, <1>2, <1>3, RowsFollow DEF InMemory

LEMMA CreationKeepsRows ==
  ASSUME TokenInv, TypeInv, RowInv, PoolCreated
  PROVE  RowInv'
<1>0. /\ UNCHANGED <<row, poolRow, memory, got, redisPool>> /\ at["scan"].pc = "log"
      /\ seen' = [seen EXCEPT ![log.pool] = "mixed"] /\ found' = found \cup {log.pool}
      /\ log.pool \in Pool
  BY LogOfBatch DEF PoolCreated, tables, AtPc, TokenInv
<1>1. WorkerBringsAll' /\ \A t \in Token : Due(t) => Due(t)'
  BY <1>0, ScanStepsAside DEF ScanOwn, HasRow
<1>2. \A t \in Token : Coming(t) => Coming(t)'
  BY <1>0, <1>1 DEF Coming, Asking, InCall
<1>3. PICK todo \in {TokensOf[log.pool], <<TokensOf[log.pool][2], TokensOf[log.pool][1]>>} :
        at' = [at EXCEPT !["scan"] = WithTokens("scan", todo)]
  BY DEF PoolCreated
<1>4. at'["scan"].pc = "tokens" /\ at'["scan"].todo = todo
  <2>1. at'["scan"] = [pc |-> "tokens", todo |-> todo, value |-> "none"]
    BY <1>3, ScanPlaces DEF WithTokens, At
  <2> QED
    BY <2>1
<1>5. ASSUME NEW t \in TokenSet(log.pool) PROVE Coming(t)'
  <2>1. \E i \in DOMAIN todo : todo[i] = t
    <3>1. CASE todo = TokensOf[log.pool]
      BY <1>0, <3>1, SetOfTokens
    <3>2. CASE todo = <<TokensOf[log.pool][2], TokensOf[log.pool][1]>>
      BY <1>0, <3>2, SetOfTokens
    <3> QED
      BY <1>3, <3>1, <3>2
  <2> QED
    BY <1>4, <2>1 DEF Coming, Listed
<1>6. ScanBringsAll'
  BY <1>4 DEF ScanBringsAll
<1>7. \A p \in Pool : (p \in found \/ seen[p] = "mixed")' =>
        p \in found \/ seen[p] = "mixed" \/ \A t \in TokenSet(p) : Coming(t)'
  BY <1>0, <1>5 DEF TypeInv, TypeOK
<1> QED
  BY <1>0, <1>1, <1>2, <1>6, <1>7, RowsFollow DEF InMemory

LEMMA CreatedTokenKeepsRows ==
  ASSUME TokenInv, TypeInv, RowInv, TokenOfCreated
  PROVE  RowInv'
<1>0. /\ UNCHANGED <<row, poolRow, memory, got, found, seen, redisPool, done>>
      /\ at["scan"].pc = "tokens"
  BY DEF TokenOfCreated, caches, tables, AtPc
<1>1. WorkerBringsAll' /\ \A t \in Token : Due(t) => Due(t)'
  BY <1>0, ScanStepsAside DEF ScanOwn, HasRow
<1>2. CASE at["scan"].todo = <<>> /\ NextLog
  <2>1. at'["scan"].pc \in {"store", "log"}
    BY <1>0, <1>2, NextLogGoes
  <2>2. \A t \in Token : Coming(t) => Coming(t)'
    BY <1>0, <1>1, <1>2 DEF Coming, Listed
  <2> QED
    BY <1>0, <1>1, <2>1, <2>2, RowsFollow DEF InMemory, ScanBringsAll
<1>3. CASE at["scan"].todo # <<>> /\ Known("scan") # "none" /\ MoveOn("scan", "tokens")
  <2>1. at'["scan"].pc = "tokens" /\ at'["scan"].todo = Tail(at["scan"].todo)
    BY <1>3, ScanMovesOn DEF Pcs
  <2>2. token("scan") \in Token /\ Due(token("scan"))
    BY <1>3, ScanPlaces, TailOfTokens DEF RowInv, MemoryDue, InMemory, Known, token
  <2>3. ASSUME NEW t \in Token, Coming(t) PROVE Coming(t)'
    <3>1. CASE Due(t)
      BY <1>1, <3>1 DEF Coming
    <3>2. CASE Listed("scan", t)
      <4>1. t = token("scan") \/ Listed("scan", t)'
        BY <1>3, <2>1, <3>2, ScanPlaces, TailLists DEF Listed, token
      <4> QED
        BY <1>1, <2>1, <2>2, <4>1 DEF Coming
    <3> QED
      BY <2>3, <3>1, <3>2 DEF Coming
  <2> QED
    BY <1>0, <1>1, <2>1, <2>3, RowsFollow DEF InMemory, ScanBringsAll
<1>4. CASE at["scan"].todo # <<>> /\ Go("scan", "fetch")
  <2>1. at'["scan"].pc = "fetch" /\ at'["scan"].todo = at["scan"].todo
    BY <1>4, ScanPlaces, GoGoes DEF Pcs, Asking
  <2>2. \A t \in Token : Coming(t) => Coming(t)'
    BY <1>1, <2>1 DEF Coming, Listed, Asking
  <2> QED
    BY <1>0, <1>1, <2>1, <2>2, RowsFollow DEF InMemory, ScanBringsAll
<1> QED
  BY <1>2, <1>3, <1>4 DEF TokenOfCreated

LEMMA SwapKeepsRows ==
  ASSUME TokenInv, TypeInv, RowInv, Swap
  PROVE  RowInv'
<1>0. /\ UNCHANGED <<row, poolRow, memory, got, found, redisPool, done>>
      /\ at["scan"].pc = "log" /\ log.pool \in Pool
  BY LogOfBatch DEF Swap, tables, AtPc, TokenInv
<1>1. WorkerBringsAll' /\ \A t \in Token : Due(t) => Due(t)'
  BY <1>0, ScanStepsAside DEF ScanOwn, HasRow
<1>2. \A t \in Token : Coming(t) => Coming(t)'
  BY <1>0, <1>1 DEF Coming, Asking, InCall
<1>3. ASSUME at' = [at EXCEPT !["scan"] = At("decimals", TokensOf[log.pool])], event' = event
      PROVE  ScanBringsAll'
  <2>1. at'["scan"] = [pc |-> "decimals", todo |-> TokensOf[log.pool], value |-> "none"]
    BY <1>3, ScanPlaces DEF At
  <2>2. log' = log
    BY <1>0, <1>3 DEF log, batch
  <2>3. \A i \in DOMAIN TokensOf[log.pool] : TokensOf[log.pool][i] \in TokenSet(log.pool)
    BY <1>0, SetOfTokens
  <2> QED
    BY <2>1, <2>2, <2>3 DEF ScanBringsAll
<1>4. CASE seen' = seen
  <2>1. ScanBringsAll'
    <3>1. CASE NextLog
      <4>1. at'["scan"].pc \in {"store", "log"}
        BY <1>0, <3>1, NextLogGoes
      <4> QED
        BY <4>1 DEF ScanBringsAll
    <3>2. CASE ~NextLog
      BY <1>3, <1>4, <3>2 DEF Swap
    <3> QED
      BY <3>1, <3>2
  <2> QED
    BY <1>0, <1>1, <1>2, <1>4, <2>1, RowsFollow DEF InMemory
<1>5. CASE seen' = [seen EXCEPT ![log.pool] = redisPool[log.pool]] /\ seen' # seen
  <2>1. ScanBringsAll'
    BY <1>3, <1>5 DEF Swap
  <2>2. \A p \in Pool : seen'[p] = "mixed" => seen[p] = "mixed" \/ redisPool[p] = "mixed"
    BY <1>0, <1>5 DEF TypeInv, TypeOK
  <2>3. \A p \in Pool : redisPool[p] = "mixed" => \A t \in TokenSet(p) : Coming(t)'
    BY <1>1, SetOfTokens DEF RowInv, PoolsDue, Coming
  <2>4. \A p \in Pool : (p \in found \/ seen[p] = "mixed")' =>
          p \in found \/ seen[p] = "mixed" \/ \A t \in TokenSet(p) : Coming(t)'
    BY <1>0, <2>2, <2>3
  <2> QED
    BY <1>0, <1>1, <1>2, <2>1, <2>4, RowsFollow DEF InMemory
<1> QED
  BY <1>4, <1>5 DEF Swap

\* What is put back in memory is of a pool that is known to memory.
LEMMA BackfillKeepsRows ==
  ASSUME TokenInv, TypeInv, RowInv, BackfillDecimals
  PROVE  RowInv'
<1>0. /\ UNCHANGED <<row, poolRow, seen, got, found, redisPool, done, event>>
      /\ at["scan"].pc = "backfill" /\ log.pool \in Pool
      /\ memory' = [memory EXCEPT ![address] = at["scan"].value]
      /\ MoveOn("scan", "decimals")
  BY LogOfBatch DEF BackfillDecimals, tables, scan, AtPc, TokenInv
<1>1. WorkerBringsAll' /\ \A t \in Token : Due(t) => Due(t)'
  BY <1>0, ScanStepsAside DEF ScanOwn, HasRow
<1>2. \A t \in Token : Coming(t) => Due(t)
  BY <1>0 DEF Coming, Asking, InCall
<1>3. /\ at["scan"].todo \in Seq(Token) /\ at["scan"].todo # <<>>
      /\ \A i \in DOMAIN at["scan"].todo : at["scan"].todo[i] \in TokenSet(log.pool)
  BY <1>0, ScanPlaces DEF RowInv, ScanBringsAll
<1>4. token("scan") \in TokenSet(log.pool)
  BY <1>3, TailLists DEF token
<1>5. seen[log.pool] = "mixed" => Due(token("scan"))
  BY <1>0, <1>2, <1>4, SetOfTokens DEF RowInv, PoolsComing
<1>6. ASSUME NEW t \in Token, InMemory(t)' PROVE InMemory(t) \/ Due(t)'
  <2>1. CASE <<t, "mixed">> = address
    <3>1. t = token("scan") /\ seen[log.pool] = "mixed"
      BY <2>1 DEF address
    <3> QED
      BY <1>1, <1>5, <3>1
  <2>2. CASE <<t, "mixed">> # address
    BY <1>0, <1>6, <2>2 DEF InMemory
  <2> QED
    BY <2>1, <2>2
<1>7. ScanBringsAll'
  <2>1. at'["scan"].pc = "decimals" /\ at'["scan"].todo = Tail(at["scan"].todo)
    BY <1>0, ScanMovesOn DEF Pcs
  <2>2. \A i \in DOMAIN at'["scan"].todo : at'["scan"].todo[i] \in TokenSet(log.pool)
    BY <1>3, <2>1, TailLists
  <2>3. log' = log
    BY <1>0 DEF log, batch
  <2> QED
    BY <2>1, <2>2, <2>3 DEF ScanBringsAll
<1> QED
  BY <1>0, <1>1, <1>2, <1>6, <1>7, RowsFollow DEF Coming

\* An upsert loses no row, and gives one to each token it has.
LEMMA UpsertOfTokens ==
  ASSUME TypeInv, NEW pools, NEW tokens, Stored(pools, tokens, "mixed")
  PROVE  /\ \A t \in Token : HasRow(t) \/ tokens[t] # "none" => HasRow(t)'
         /\ \A p \in Pool : <<p, "mixed">> \in poolRow' => <<p, "mixed">> \in poolRow \/ p \in pools
<1>1. \A t \in Token : <<t, "mixed">> \in Address
  BY DEF Address, Spelling
<1> QED
  BY <1>1 DEF Stored, HasRow, TypeInv, TypeOK

LEMMA BatchEndKeepsRows ==
  ASSUME TokenInv, TypeInv, RowInv, ~Has("store")',
         StoreBatch \/ Commit
  PROVE  RowInv'
<1>0. UNCHANGED <<memory, seen, redisPool>>
  BY DEF StoreBatch, Commit, caches
<1>1. CASE StoreBatch
  <2>1. ~GoesWrong("store")
    <3> SUFFICES ASSUME wrong' = Append(wrong, "store") PROVE Has("store")'
      BY DEF GoesWrong
    <3>1. Len(wrong) + 1 \in DOMAIN wrong' /\ wrong'[Len(wrong) + 1] = "store"
      BY DEF TypeInv
    <3> QED
      BY <3>1 DEF Has
  <2>2. /\ at["scan"].pc = "store" /\ Stored(found, got["scan"], "mixed") /\ Go("scan", "commit")
        /\ UNCHANGED <<got, found>>
    BY <1>1, <2>1 DEF StoreBatch, AtPc, scan
  <2>3. /\ \A t \in Token : HasRow(t) \/ got["scan"][t] # "none" => HasRow(t)'
        /\ \A p \in Pool : <<p, "mixed">> \in poolRow' => <<p, "mixed">> \in poolRow \/ p \in found
    BY <2>2, UpsertOfTokens
  <2>4. WorkerBringsAll' /\ \A t \in Token : Due(t) => Due(t)'
    BY <1>1, <2>2, <2>3, ScanStepsAside DEF ScanOwn
  <2>5. \A t \in Token : Coming(t) => Due(t)
    BY <2>2 DEF Coming, Asking, InCall
  <2>6. ScanBringsAll'
    <3>1. at'["scan"].pc = "commit"
      BY <2>2, ScanPlaces, GoGoes DEF Pcs
    <3> QED
      BY <2>2, <2>3, <3>1 DEF ScanBringsAll
  <2>7. \A p \in found \cap Pool : \A t \in TokenSet(p) : Due(t)'
    BY <2>4, <2>5, SetOfTokens DEF RowInv, PoolsComing
  <2> QED
    BY <1>0, <2>2, <2>3, <2>4, <2>5, <2>6, <2>7, RowsFollow DEF InMemory, Coming
<1>2. CASE Commit
  <2>1. /\ at["scan"].pc = "commit" /\ UNCHANGED <<row, poolRow>> /\ Rest("scan") /\ found' = {}
    BY <1>2 DEF Commit, AtPc, EndBatch
  <2>2. at'["scan"] = Idle /\ got'["scan"] = Unknown
    BY <2>1, ScanPlaces DEF Rest, TypeInv
  <2>3. \A t \in Token : got["scan"][t] # "none" => HasRow(t)
    BY <2>1 DEF RowInv, ScanBringsAll
  <2>4. WorkerBringsAll' /\ \A t \in Token : Due(t) => Due(t)'
    BY <1>2, <2>1, <2>3, ScanStepsAside DEF ScanOwn, HasRow
  <2>5. \A t \in Token : Coming(t) => Due(t)
    BY <2>1 DEF Coming, Asking, InCall
  <2>6. ScanBringsAll'
    BY <2>2 DEF ScanBringsAll, Idle
  <2> QED
    BY <1>0, <2>1, <2>4, <2>5, <2>6, RowsFollow DEF InMemory, Coming
<1> QED
  BY <1>1, <1>2

\* A step of the worker outside of calls leaves the scanning goroutine's be.
LEMMA WorkerStepsAside ==
  ASSUME TokenInv, TypeInv, RowInv, WorkerOwn,
         \A t \in Token : HasRow(t) => HasRow(t)',
         \A t \in Token : WorkerBrings(t) => WorkerBrings(t)' \/ HasRow(t)'
  PROVE  /\ ScanBringsAll'
         /\ \A t \in Token : Due(t) => Due(t)'
         /\ \A t \in Token : Coming(t) => Coming(t)'
<1>1. at'["scan"] = at["scan"]
  BY WorkerOwnMoves DEF OwnMove, Caller
<1>2. got'["scan"] = got["scan"] /\ event' = event /\ done' = done
  BY DEF WorkerOwn, WorkerTakes, ResolvePool, CachePool, StoreResolved, WorkerPolls,
     WorkerFails, Rest, tables, scan, vars, TypeInv, Caller
<1>3. log' = log
  BY <1>2 DEF log, batch
<1>4. ScanBringsAll'
  BY <1>1, <1>2, <1>3 DEF RowInv, ScanBringsAll
<1>5. ASSUME NEW t \in Token PROVE ScanBrings(t) <=> ScanBrings(t)'
  BY <1>1, <1>2 DEF ScanBrings, token
<1>6. \A t \in Token : Due(t) => Due(t)'
  BY <1>5 DEF Due
<1> QED
  BY <1>1, <1>4, <1>6 DEF Coming, Listed

LEMMA WorkerPlaces ==
  ASSUME TokenInv, TypeInv
  PROVE  /\ at \in [Caller -> Place] /\ "worker" \in Caller
         /\ at["worker"].todo \in Seq(Token)
         /\ at["worker"].pc # "idle" => handed \in Pool
BY DEF TokenInv, FlightInv, TypeInv, Caller, Place

LEMMA WorkerTakesKeepsRows ==
  ASSUME TokenInv, TypeInv, RowInv, WorkerTakes \/ ResolvePool
  PROVE  RowInv'
<1>0. /\ UNCHANGED <<row, poolRow, memory, found, redisPool>>
      /\ at["worker"].pc \in {"idle", "resolve"}
  BY DEF WorkerTakes, ResolvePool, caches, tables, scan, AtPc
<1>1. \A t \in Token : ~WorkerBrings(t)
  BY <1>0 DEF WorkerBrings
<1>2. /\ ScanBringsAll'
      /\ \A t \in Token : Due(t) => Due(t)'
      /\ \A t \in Token : Coming(t) => Coming(t)'
  BY <1>0, <1>1, WorkerStepsAside DEF WorkerOwn, HasRow
<1>3. at'["worker"].pc \in {"idle", "resolve", "cache"}
  <2>1. Rest("worker") \/ Go("worker", "resolve") \/ Go("worker", "cache")
    BY DEF WorkerTakes, ResolvePool, WorkerFails
  <2>2. CASE Rest("worker")
    BY <2>2, WorkerPlaces DEF Rest, Idle
  <2> QED
    BY <2>1, <2>2, WorkerPlaces, GoGoes DEF Pcs
<1>4. WorkerBringsAll'
  BY <1>3 DEF WorkerBringsAll, Asking, InCall
<1>5. \A p \in Pool : seen'[p] = "mixed" => seen[p] = "mixed" \/ \A t \in TokenSet(p) : Coming(t)'
  <2>1. CASE seen' = seen
    BY <2>1
  <2>2. CASE seen' # seen
    <3>1. /\ seen' = [seen EXCEPT ![handed] = "mixed"] /\ Go("worker", "cache") /\ handed' = handed
      BY <2>2 DEF WorkerTakes, ResolvePool, caches, queue
    <3>2. at'["worker"].pc = "cache"
      BY <3>1, WorkerPlaces, GoGoes DEF Pcs
    <3>3. \A t \in TokenSet(handed) : WorkerBrings(t)'
      BY <3>1, <3>2 DEF WorkerBrings
    <3>4. \A t \in TokenSet(handed) : Coming(t)'
      BY <3>3 DEF Coming, Due
    <3> QED
      BY <3>1, <3>4 DEF TypeInv, TypeOK
  <2> QED
    BY <2>1, <2>2
<1> QED
  BY <1>0, <1>2, <1>4, <1>5, RowsFollow DEF InMemory

LEMMA CachedPoolKeepsRows ==
  ASSUME TokenInv, TypeInv, RowInv, CachePool
  PROVE  RowInv'
<1>0. /\ UNCHANGED <<row, poolRow, memory, found, seen, handed>>
      /\ at["worker"].pc = "cache" /\ handed \in Pool
      /\ at' = [at EXCEPT !["worker"] = WithTokens("worker", TokensOf[handed])]
  BY WorkerPlaces DEF CachePool, tables, scan, queue, AtPc
<1>1. at'["worker"].pc = "fetch" /\ at'["worker"].todo = TokensOf[handed]
  <2>1. TokensOf[handed] # <<>>
    BY <1>0, TokensOfPool
  <2>2. at'["worker"] = [pc |-> "fetch", todo |-> TokensOf[handed], value |-> "none"]
    BY <1>0, <2>1, WorkerPlaces DEF WithTokens, At
  <2> QED
    BY <2>2
<1>2. \A t \in Token : WorkerBrings(t) => WorkerBrings(t)'
  BY <1>0, <1>1 DEF WorkerBrings
<1>3. /\ ScanBringsAll'
      /\ \A t \in Token : Due(t) => Due(t)'
      /\ \A t \in Token : Coming(t) => Coming(t)'
  BY <1>0, <1>2, WorkerStepsAside DEF WorkerOwn, HasRow
<1>4. WorkerBringsAll'
  <2>1. /\ \A i \in DOMAIN TokensOf[handed] : TokensOf[handed][i] \in TokenSet(handed)
        /\ \A t \in TokenSet(handed) : \E i \in DOMAIN TokensOf[handed] : TokensOf[handed][i] = t
    BY <1>0, SetOfTokens
  <2> QED
    BY <1>0, <1>1, <2>1 DEF WorkerBringsAll, Listed, Asking
<1>5. \A p \in Pool : redisPool'[p] = "mixed" => redisPool[p] = "mixed" \/ p = handed
  BY DEF CachePool, TypeInv, TypeOK
<1>6. \A t \in TokenSet(handed) : Due(t)'
  BY <1>0, <1>1 DEF Due, WorkerBrings
<1> QED
  BY <1>0, <1>3, <1>4, <1>5, <1>6, RowsFollow DEF InMemory

LEMMA ResolvedPoolKeepsRows ==
  ASSUME TokenInv, TypeInv, RowInv, StoreResolved, ~Has("store")'
  PROVE  RowInv'
<1>0. ~GoesWrong("store")
  <2> SUFFICES ASSUME wrong' = Append(wrong, "store") PROVE Has("store")'
    BY DEF GoesWrong
  <2>1. Len(wrong) + 1 \in DOMAIN wrong' /\ wrong'[Len(wrong) + 1] = "store"
    BY DEF TypeInv
  <2> QED
    BY <2>1 DEF Has
<1>1. /\ UNCHANGED <<memory, seen, redisPool, found>>
      /\ at["worker"].pc = "store" /\ handed \in Pool
      /\ Stored({handed}, got["worker"], "mixed") /\ Rest("worker")
  BY <1>0, WorkerPlaces DEF StoreResolved, AtPc, caches, scan
<1>2. /\ \A t \in Token : HasRow(t) \/ got["worker"][t] # "none" => HasRow(t)'
      /\ \A p \in Pool : <<p, "mixed">> \in poolRow' => <<p, "mixed">> \in poolRow \/ p = handed
  BY <1>1, UpsertOfTokens
<1>3. \A t \in TokenSet(handed) : HasRow(t)'
  <2>1. \A t \in TokenSet(handed) : got["worker"][t] # "none"
    BY <1>1 DEF RowInv, WorkerBringsAll, Asking, InCall
  <2> QED
    BY <1>1, <1>2, <2>1, SetOfTokens
<1>4. /\ ScanBringsAll'
      /\ \A t \in Token : Due(t) => Due(t)'
      /\ \A t \in Token : Coming(t) => Coming(t)'
  BY <1>2, <1>3, WorkerStepsAside DEF WorkerOwn, WorkerBrings
<1>5. at'["worker"].pc = "idle"
  BY <1>1, WorkerPlaces DEF Rest, Idle
<1>6. WorkerBringsAll'
  BY <1>5 DEF WorkerBringsAll, Asking, InCall
<1> QED
  BY <1>1, <1>2, <1>3, <1>4, <1>6, RowsFollow DEF InMemory, Due

-----------------------------------------------------------------------------
(* The other steps, and the theorem.                                       *)

LEMMA StartKeepsRows ==
  ASSUME TokenInv, TypeInv, RowInv, StartProcess
  PROVE  RowInv'
<1>0. /\ UNCHANGED <<row, poolRow, at, got, found, event, done, handed, redisPool>>
      /\ \A c \in Caller : at[c] = Idle
  BY DEF StartProcess, tables, scan, queue, TypeInv, TypeOK
<1>1. log' = log /\ at["scan"].pc = "idle"
  BY <1>0 DEF log, batch, Caller, Idle
<1>2. ScanBringsAll' /\ WorkerBringsAll'
  BY <1>0, <1>1 DEF RowInv, ScanBringsAll, WorkerBringsAll, HasRow, Listed
<1>3. /\ \A t \in Token : Due(t) => Due(t)'
      /\ \A t \in Token : Coming(t) => Coming(t)'
  BY <1>0 DEF Due, Coming, HasRow, ScanBrings, WorkerBrings, Listed, token
<1>4. /\ \A a \in Address : memory'[a] \in {row[a], "none"}
      /\ \A p \in Pool : seen'[p] = "mixed" => <<p, "mixed">> \in poolRow
  BY DEF StartProcess, WarmMemory
<1>5. \A t \in Token : InMemory(t)' => Due(t)'
  BY <1>0, <1>4 DEF InMemory, Due, HasRow, Address, Spelling
<1>6. \A p \in Pool : seen'[p] = "mixed" => \A t \in TokenSet(p) : Coming(t)'
  BY <1>3, <1>4, SetOfTokens DEF RowInv, PoolsDue, Coming
<1> QED
  BY <1>0, <1>2, <1>3, <1>5, <1>6, RowsFollow

LEMMA OthersKeepRows ==
  ASSUME TokenInv, TypeInv, RowInv, WarmUp \/ Graph \/ UNCHANGED vars
  PROVE  RowInv'
<1>0. UNCHANGED <<memory, seen, at, got, found, event, done, handed>>
  BY DEF WarmUp, WarmTokens, WarmPools, Graph, GraphStores, GraphCaches, vars, caches,
     tables, scan, queue
<1>1. log' = log
  BY <1>0 DEF log, batch
<1>2. /\ \A t \in Token : row'[<<t, "mixed">>] = row[<<t, "mixed">>]
      /\ \A p \in Pool : <<p, "mixed">> \in poolRow' <=> <<p, "mixed">> \in poolRow
  <2>1. CASE \E p \in Pool : GraphStores(p)
    <3>1. PICK p \in Pool : \E tokens : Stored({p}, tokens, "lower")
      BY <2>1 DEF GraphStores
    <3>2. PICK tokens : Stored({p}, tokens, "lower")
      BY <3>1
    <3> QED
      BY <3>2 DEF Stored, Address, Spelling
  <2>2. CASE ~\E p \in Pool : GraphStores(p)
    BY <2>2 DEF WarmUp, WarmTokens, WarmPools, Graph, GraphCaches, vars, tables
  <2> QED
    BY <2>1, <2>2
<1>3. ScanBringsAll' /\ WorkerBringsAll'
  BY <1>0, <1>1, <1>2 DEF RowInv, ScanBringsAll, WorkerBringsAll, HasRow, Listed
<1>4. /\ \A t \in Token : Due(t) => Due(t)'
      /\ \A t \in Token : Coming(t) => Coming(t)'
  BY <1>0, <1>2 DEF Due, Coming, HasRow, ScanBrings, WorkerBrings, Listed, token
<1>5. \A p \in Pool : redisPool'[p] = "mixed" =>
        redisPool[p] = "mixed" \/ <<p, "mixed">> \in poolRow
  <2>1. CASE WarmPools
    BY <2>1 DEF WarmPools, SpellingsOf
  <2>2. CASE \E p \in Pool : GraphCaches(p)
    BY <2>2 DEF GraphCaches, TypeInv, TypeOK
  <2>3. CASE redisPool' = redisPool
    BY <2>3
  <2> QED
    BY <2>1, <2>2, <2>3 DEF WarmUp, WarmTokens, Graph, GraphStores, vars, caches
<1> QED
  BY <1>0, <1>2, <1>3, <1>4, <1>5, RowsFollow DEF InMemory

\* Whoever finds less in memory or in Redis only has more to bring.
LEMMA ExpiryKeepsRows ==
  ASSUME TokenInv, TypeInv, RowInv, Expiry
  PROVE  RowInv'
<1>0. /\ UNCHANGED <<row, poolRow, seen, at, got, found, event, done, handed>>
      /\ \A t \in Token : InMemory(t)' => InMemory(t)
  <2>1. \A t \in Token : <<t, "mixed">> \in Address
    BY DEF Address, Spelling
  <2> QED
    BY <2>1, ExpiryForgets DEF TokenInv, InMemory, tables, scan, queue
<1>1. log' = log
  BY <1>0 DEF log, batch
<1>2. ScanBringsAll' /\ WorkerBringsAll'
  BY <1>0, <1>1 DEF RowInv, ScanBringsAll, WorkerBringsAll, HasRow, Listed
<1>3. /\ \A t \in Token : Due(t) => Due(t)'
      /\ \A t \in Token : Coming(t) => Coming(t)'
  BY <1>0 DEF Due, Coming, HasRow, ScanBrings, WorkerBrings, Listed, token
<1>4. \A p \in Pool : redisPool'[p] = "mixed" => redisPool[p] = "mixed"
  BY DEF Expiry, TokenExpires, PoolExpires, MarkerExpires, caches, TypeInv, TypeOK
<1> QED
  BY <1>0, <1>2, <1>3, <1>4, RowsFollow

LEMMA LowerKeeps ==
  ASSUME TokenInv, TypeInv, LowerInv, [Next]_vars
  PROVE  LowerInv'
<1>0. /\ \A t \in Token : <<t, "lower">> \in Address
      /\ \A a \in Address : a[1] \in Token /\ (a[2] = "lower" => a = <<a[1], "lower">>)
  BY DEF Address, Spelling
<1>1. ASSUME NEW pools, NEW tokens, Stored(pools, tokens, "mixed") PROVE LowerInv'
  <2>1. /\ \A t \in Token : row'[<<t, "lower">>] = row[<<t, "lower">>]
        /\ \A p \in Pool : <<p, "lower">> \in poolRow' <=> <<p, "lower">> \in poolRow
    BY <1>0, <1>1 DEF Stored
  <2> QED
    BY <2>1, SetOfTokens DEF LowerInv
<1>2. CASE \E p \in Pool : GraphStores(p)
  <2>1. PICK p \in Pool :
          Stored({p}, [t \in Token |-> IF t \in TokenSet(p) THEN "own" ELSE "none"], "lower")
    BY <1>2 DEF GraphStores
  <2>2. /\ \A t \in Token : t \in TokenSet(p) => row'[<<t, "lower">>] = "own"
        /\ \A t \in Token : t \notin TokenSet(p) => row'[<<t, "lower">>] = row[<<t, "lower">>]
        /\ \A q \in Pool : <<q, "lower">> \in poolRow' => <<q, "lower">> \in poolRow \/ q = p
    BY <1>0, <2>1 DEF Stored
  <2>3. ASSUME NEW q \in Pool, <<q, "lower">> \in poolRow', NEW t \in TokenSet(q)
        PROVE  row'[<<t, "lower">>] # "none"
    BY <2>2, <2>3, SetOfTokens DEF LowerInv
  <2> QED
    BY <2>3 DEF LowerInv
<1>3. CASE UNCHANGED <<row, poolRow>>
  BY <1>3 DEF LowerInv
<1>4. CASE StoreBatch \/ StoreResolved
  <2>1. UNCHANGED <<row, poolRow>> \/ \E pools, tokens : Stored(pools, tokens, "mixed")
    BY <1>4 DEF StoreBatch, StoreResolved
  <2> QED
    BY <1>1, <1>3, <2>1
<1> QED
  BY <1>2, <1>3, <1>4, RowsChanges

LEMMA StoredKeeps == TokenInv /\ TypeInv /\ StoredInv /\ [Next]_vars => StoredInv'
<1> SUFFICES ASSUME TokenInv, TypeInv, StoredInv, [Next]_vars PROVE StoredInv'
  OBVIOUS
<1>1. LowerInv'
  BY LowerKeeps DEF StoredInv
<1>2. ASSUME ~Has("store")', ~Has("crash")' PROVE RowInv'
  <2>1. RowInv
    BY <1>2, WrongGrows DEF StoredInv, TypeInv
  <2>2. ~Crash
    <3> SUFFICES ASSUME wrong' = Append(wrong, "crash") PROVE Has("crash")'
      BY <1>2 DEF Crash, GoesWrong
    <3>1. Len(wrong) + 1 \in DOMAIN wrong' /\ wrong'[Len(wrong) + 1] = "crash"
      BY DEF TypeInv
    <3> QED
      BY <3>1 DEF Has
  <2>3. CASE \E c \in Caller : Fetch(c)
    BY <2>1, <2>3, FetchKeepsRows
  <2>4. CASE ScanOwn
    BY <1>2, <2>1, <2>4, BatchStartKeepsRows, CreationKeepsRows, CreatedTokenKeepsRows,
       SwapKeepsRows, BackfillKeepsRows, BatchEndKeepsRows DEF ScanOwn
  <2>5. CASE WorkerOwn
    BY <1>2, <2>1, <2>5, WorkerTakesKeepsRows, CachedPoolKeepsRows, ResolvedPoolKeepsRows,
       OthersKeepRows DEF WorkerOwn, WorkerPolls
  <2>6. CASE StartProcess \/ WarmUp \/ Graph \/ Expiry \/ UNCHANGED vars
    BY <2>1, <2>6, StartKeepsRows, OthersKeepRows, ExpiryKeepsRows
  <2> QED
    BY <2>2, <2>3, <2>4, <2>5, <2>6, Steps
<1> QED
  BY <1>1, <1>2 DEF StoredInv

LEMMA StoredStarts == Init => StoredInv
<1> SUFFICES ASSUME Init PROVE StoredInv
  OBVIOUS
<1>1. /\ at = [c \in Caller |-> Idle] /\ got = [c \in Caller |-> Unknown] /\ found = {}
      /\ memory = [a \in Address |-> "none"] /\ seen = [p \in Pool |-> "none"]
      /\ redisPool = [p \in Pool |-> "none"]
  BY DEF Init
<1>2. PICK pools \in SUBSET (Pool \ Created) :
        /\ poolRow = pools \X {"mixed"}
        /\ row = [a \in Address |->
                    IF a[2] = "mixed" /\ \E p \in pools : a[1] \in TokenSet(p) THEN "own" ELSE "none"]
  BY DEF Init
<1>3. /\ at["scan"].pc = "idle" /\ at["worker"].pc = "idle" /\ got["scan"] = Unknown
  BY <1>1 DEF Caller, Idle
<1>4. \A t \in Token : <<t, "mixed">> \in Address
  BY DEF Address, Spelling
<1>5. \A p \in pools : \A t \in TokenSet(p) : HasRow(t)
  BY <1>2, <1>4, SetOfTokens DEF HasRow
<1>6. PoolsDue
  BY <1>1, <1>2, <1>5 DEF PoolsDue, Due
<1>7. MemoryDue /\ PoolsComing
  BY <1>1, <1>4 DEF MemoryDue, PoolsComing, InMemory
<1>8. ScanBringsAll /\ WorkerBringsAll
  BY <1>3 DEF ScanBringsAll, WorkerBringsAll, Asking, InCall
<1>9. LowerInv
  BY <1>2 DEF LowerInv
<1> QED
  BY <1>6, <1>7, <1>8, <1>9 DEF StoredInv, RowInv

\* As long as no store has failed and no process has died, whenever both
\* goroutines are at rest every pool that has a row has the rows of its tokens
\* in its spelling, however the two shared the work of finding them.
THEOREM TokensAreStored == Spec => []TokensStored
<1>1. TokenInv /\ TypeInv /\ StoredInv => TokensStored
  <2> SUFFICES ASSUME TypeInv, StoredInv, Quiet, ~Has("store"), ~Has("crash"),
                      NEW p \in Pool, NEW s \in Spelling, <<p, s>> \in poolRow,
                      NEW t \in TokenSet(p)
               PROVE  row[<<t, s>>] # "none"
    BY DEF TokensStored
  <2>1. t \in Token
    BY SetOfTokens
  <2>2. CASE s = "lower"
    BY <2>2 DEF StoredInv, LowerInv
  <2>3. CASE s = "mixed"
    <3>1. RowInv /\ at["scan"].pc = "idle" /\ at["worker"].pc = "idle"
      BY DEF StoredInv, Quiet, Caller
    <3>2. Due(t)
      BY <2>3, <3>1 DEF RowInv, PoolsDue
    <3>3. ~ScanBrings(t) /\ ~WorkerBrings(t)
      BY <2>1, <3>1 DEF RowInv, ScanBringsAll, ScanBrings, WorkerBrings, Unknown, Asking, InCall
    <3> QED
      BY <2>3, <3>2, <3>3 DEF Due, HasRow
  <2> QED
    BY <2>2, <2>3 DEF Spelling
<1> QED
  BY <1>1, TokenStarts, TokenKeeps, TypeStarts, TypeKeeps, StoredStarts, StoredKeeps, PTL DEF Spec
=============================================================================
