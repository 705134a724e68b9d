-------------------------------- MODULE Ingest --------------------------------
(***************************************************************************)
(* One chain's data from the node to the relational tables: the engine's   *)
(* goroutine fetches a range of blocks, hands it to the extractors of the  *)
(* chain, stores blocks, transactions and DEX rows in three transactions   *)
(* of the database and saves its position.  Whatever goes wrong on the way *)
(* makes it start the range again at the next tick.                        *)
(*                                                                         *)
(* The position counts the chain's blocks from its start block; how it is  *)
(* kept is the subject of FallbackTracker.  The chain and the store are    *)
(* chosen at the start.                                                    *)
(***************************************************************************)
EXTENDS DexRows, FiniteSets

CONSTANTS
  Blockchain,  \* [name of a chain -> Seq of blocks as its node has them]
  Setups,      \* the pairs <<chain, store>> to look at
  BatchSize,   \* the engine's batch size
  PoolTokens,  \* [Uniswap pool -> its tokens], what the worker or Redis finds
  Faults,      \* "rpc", "store", "progress", "crash"
  MaxFaults,   \* bound: how many things go wrong in a behaviour
  MaxTxPerBlock, ChunkSize, V1Contract, V2Contract, QuoteRank,
  CetusContracts, BluefinContract

ASSUME BatchSizeAssumption == BatchSize \in Nat \ {0}
ASSUME ChunkSizeAssumption == ChunkSize \in Nat \ {0}
ASSUME CutAssumption == MaxTxPerBlock \in Nat
ASSUME MaxFaultsAssumption == MaxFaults \in Nat

ASSUME SetupsAssumption ==
  /\ Setups \subseteq (DOMAIN Blockchain) \X {"mysql", "pgsql"}
  /\ DOMAIN Blockchain \subseteq {"ethereum", "bsc", "solana", "sui"}

IsList(s) == s \in Seq(ToSet(s))

\* Blocks, transactions and events come in lists.
ASSUME BlockchainAssumption ==
  \A c \in DOMAIN Blockchain :
    /\ IsList(Blockchain[c])
    /\ \A b \in ToSet(Blockchain[c]) :
         /\ {"number", "hash", "time", "txs"} \subseteq DOMAIN b
         /\ IsList(b.txs)
         /\ \A tx \in ToSet(b.txs) :
              IsList(tx.events) /\ \A e \in ToSet(tx.events) : IsList(e.tokens)

\* A hash is one block's or one transaction's, and an id one event's.
ASSUME HashesAssumption ==
  \A c \in DOMAIN Blockchain : \A b1, b2 \in ToSet(Blockchain[c]) :
    /\ b1.hash = b2.hash => b1 = b2
    /\ \A tx1 \in ToSet(b1.txs), tx2 \in ToSet(b2.txs) :
         /\ tx1.hash = tx2.hash => b1 = b2 /\ tx1 = tx2
         /\ \A e1 \in ToSet(tx1.events), e2 \in ToSet(tx2.events) :
              e1.id = e2.id => b1 = b2 /\ tx1 = tx2 /\ e1 = e2

\* The index of a log is its own among those of its block, and Sui numbers the
\* events of a transaction.
ASSUME IndexAssumption ==
  \A c \in DOMAIN Blockchain : \A b \in ToSet(Blockchain[c]) : \A tx \in ToSet(b.txs) :
    \A e1, e2 \in ToSet(tx.events) :
      /\ c \in {"ethereum", "bsc"} /\ e1.index = e2.index => e1 = e2
      /\ c = "sui" /\ e1.seq = e2.seq => e1 = e2

VARIABLES
  chain, store,  \* the setup, fixed
  head,          \* number of blocks the node has
  position,      \* number of blocks the saved progress covers
  pc,            \* "idle", "extract", "blocks", "raw", "dex", "save"
  fetched,       \* the blocks GetBlocksByRange returned
  to,            \* the end of the range
  rows,          \* the DexData of the batch
  memory,        \* what the Uniswap extractor remembers
  db,            \* the tables
  faults,        \* number of things that have gone wrong
  missed,        \* history: events of the range that fetching or reading lost
  gone           \* history: the same for the saved ranges

batchVars == <<fetched, to, rows, missed>>
setup     == <<chain, store>>
vars      == <<setup, head, position, pc, batchVars, memory, db, faults, gone>>

Nodes    == INSTANCE ChainProcessors
Pancake  == INSTANCE PancakeSwapExtractor
FourMeme == INSTANCE FourMemeExtractor
PumpFun  == INSTANCE PumpFunExtractor
PumpSwap == INSTANCE PumpSwapExtractor
Cetus    == INSTANCE CetusExtractor
Bluefin  == INSTANCE BluefinExtractor
Uniswap  == INSTANCE UniswapExtractor
Mysql    == INSTANCE MysqlStore
Pgsql    == INSTANCE PgsqlStore

TheChain == Blockchain[chain]

\* Something goes wrong, or not.
GoesWrong(fault) ==
  fault \in Faults /\ faults < MaxFaults /\ faults' = faults + 1
MayGoWrong(fault) == fault \in Faults /\ faults < MaxFaults
Counted(harm) == faults' = IF harm = {} THEN faults ELSE faults + 1

EventsOf(blocks) ==
  UNION {UNION {ToSet(tx.events) : tx \in ToSet(b.txs)} : b \in ToSet(blocks)}

\* The hash of at most one block or transaction of the range is not answered.
Unanswered(from, end) ==
  LET blocks == SubSeq(TheChain, from, end)
      hashes == UNION {{b.hash} \cup {tx.hash : tx \in ToSet(b.txs)} : b \in ToSet(blocks)}
  IN {{}} \cup IF MayGoWrong("rpc") THEN {{h} : h \in hashes} ELSE {}

GetBlocksByRange(c, from, end, lost) ==
  CASE c = "ethereum" -> Nodes!EthereumGetBlocksByRange(Blockchain[c], from, end, lost)
    [] c = "bsc"      -> Nodes!BscGetBlocksByRange(Blockchain[c], from, end, lost)
    [] c = "solana"   -> Nodes!SolanaGetBlocksByRange(Blockchain[c], from, end, lost)
    [] c = "sui"      -> Nodes!SuiGetBlocksByRange(Blockchain[c], from, end, lost)

-----------------------------------------------------------------------------
(* processChainBatch, step by step.                                        *)

Start == position + 1
End   == IF Start + BatchSize > head THEN head ELSE Start + BatchSize

\* A range of one block is not worth a batch; a range without any block ends it.
Fetch ==
  /\ pc = "idle" /\ Start < End
  /\ \E lost \in Unanswered(Start, End) :
       LET got == GetBlocksByRange(chain, Start, End, lost)
       IN /\ got # <<>>
          /\ fetched' = got
          /\ Counted(lost)
          /\ missed' = {e.id : e \in EventsOf(SubSeq(TheChain, Start, End))}
                         \ {e.id : e \in EventsOf(got)}
  /\ to' = End
  /\ pc' = "extract"
  /\ UNCHANGED <<setup, head, position, rows, memory, db, gone>>

NothingToDo ==
  /\ pc = "idle"
  /\ Start >= End \/ \E lost \in Unanswered(Start, End) :
                       GetBlocksByRange(chain, Start, End, lost) = <<>>
  /\ UNCHANGED vars

\* An extractor is given the blocks it supports, if any.
Supported(blocks, Supports(_)) == Kept(blocks, {b \in ToSet(blocks) : Supports(b)})

UniswapResult(blocks, mem) ==
  Uniswap!ExtractDexData(mem, Supported(blocks, Uniswap!SupportsBlock))

Extracted(c, blocks, mem, unread) ==
  CASE c = "ethereum" -> UniswapResult(blocks, mem).rows
    [] c = "bsc" ->
         Merge(<<Pancake!ExtractDexData(Supported(blocks, Pancake!SupportsBlock)),
                 FourMeme!ExtractDexData(Supported(blocks, FourMeme!SupportsBlock))>>)
    [] c = "solana" ->
         Merge(<<PumpFun!ExtractDexData(Supported(blocks, PumpFun!SupportsBlock)),
                 PumpSwap!ExtractDexData(Supported(blocks, PumpSwap!SupportsBlock))>>)
    [] c = "sui" ->
         Merge(<<Cetus!ExtractDexData(Supported(blocks, Cetus!SupportsBlock), unread),
                 Bluefin!ExtractDexData(Supported(blocks, Bluefin!SupportsBlock), unread)>>)

\* Only Sui's extractors ask the node, and at most one event suffers.
Unread ==
  {{}} \cup IF MayGoWrong("rpc") /\ chain = "sui"
            THEN {{e.id} : e \in EventsOf(fetched)} ELSE {}

Extract ==
  /\ pc = "extract"
  /\ \E unread \in Unread : /\ rows' = Extracted(chain, fetched, memory, unread)
                            /\ missed' = missed \cup unread
                            /\ Counted(unread)
  /\ memory' = IF chain = "ethereum" THEN UniswapResult(fetched, memory).mem ELSE memory
  /\ pc' = "blocks"
  /\ UNCHANGED <<setup, head, position, fetched, to, db, gone>>

\* Between two batches nothing is kept of the last one.
AtRest ==
  pc' = "idle" /\ fetched' = <<>> /\ to' = 0 /\ rows' = NoRows /\ missed' = {}

\* Mutant: what the batch had fetched and extracted is still there at the next.
GiveUpKeepsBatch ==
  pc' = "idle" /\ UNCHANGED <<batchVars, setup, head, position, memory, gone>>

\* The batch is given up; the memory of the extractor stays.
GiveUp == AtRest /\ UNCHANGED <<setup, head, position, memory, gone>>

\* A write that the database took or refused, and one that failed for another
\* reason, of which it is open whether the database took it.
Written(write, next) ==
  /\ write.ok /\ db' = write.db
  /\ pc' = next
  /\ UNCHANGED <<setup, head, position, batchVars, memory, faults, gone>>

WriteFails(write) ==
  /\ (~write.ok /\ UNCHANGED faults) \/ GoesWrong("store")
  /\ db' \in {db, write.db}
  /\ GiveUp

BlocksWrite ==
  IF store = "mysql" THEN Mysql!StoreBlocks(db, fetched) ELSE Pgsql!StoreBlocks(db, fetched)

allTxs == FlattenSeq([b \in DOMAIN fetched |-> fetched[b].txs])

RawWrite ==
  IF store = "mysql" THEN Mysql!StoreTransactions(db, allTxs)
  ELSE Pgsql!StoreTransactions(db, allTxs)

DexWrite ==
  IF store = "mysql" THEN Mysql!StoreDexData(db, rows) ELSE Pgsql!StoreDexData(db, rows)

StoreBlocks          == pc = "blocks" /\ Written(BlocksWrite, "raw")
StoreBlocksFails     == pc = "blocks" /\ WriteFails(BlocksWrite)
StoreTransactions    == pc = "raw" /\ Written(RawWrite, "dex")
StoreTransactionsFails == pc = "raw" /\ allTxs # <<>> /\ WriteFails(RawWrite)
StoreDexData         == pc = "dex" /\ Written(DexWrite, "save")
StoreDexDataFails    == pc = "dex" /\ rows # NoRows /\ WriteFails(DexWrite)

\* Mutant: the head that was seen is saved, not the end of the range.
SaveProgressOfHead ==
  /\ pc = "save"
  /\ position' = head
  /\ gone' = gone \cup missed
  /\ AtRest
  /\ UNCHANGED <<setup, head, memory, db, faults>>

SaveProgress ==
  /\ pc = "save"
  /\ position' = to
  /\ gone' = gone \cup missed
  /\ AtRest
  /\ UNCHANGED <<setup, head, memory, db, faults>>

\* A failure to save is only logged.
SaveProgressFails ==
  /\ pc = "save" /\ GoesWrong("progress")
  /\ GiveUp /\ UNCHANGED db

-----------------------------------------------------------------------------
(* What happens meanwhile.                                                 *)

\* The head of the chain is looked at between batches only.
NewBlock ==
  /\ pc = "idle" /\ head < Len(TheChain)
  /\ head' = head + 1
  /\ UNCHANGED <<setup, position, pc, batchVars, memory, db, faults, gone>>

\* The pending queue's worker or another process finds out a pool's tokens.
PoolLearnt ==
  /\ chain = "ethereum"
  /\ \E p \in DOMAIN PoolTokens : memory' = Uniswap!Learn(memory, p, PoolTokens[p])
  /\ UNCHANGED <<setup, head, position, pc, batchVars, db, faults, gone>>

\* What registerDexExtractors reads from the tables; only Uniswap uses it.
WarmMemory ==
  IF chain = "ethereum"
  THEN Uniswap!Warm(Mysql!GetAllPoolTokens(db), Mysql!GetAllTokenMeta(db))
  ELSE Uniswap!NoMemory

\* The process dies and starts again, warm unless the tables cannot be read.
CrashAndRestart ==
  /\ GoesWrong("crash")
  /\ memory' \in {Uniswap!NoMemory, WarmMemory}
  /\ AtRest
  /\ UNCHANGED <<setup, head, position, db, gone>>

-----------------------------------------------------------------------------
Init ==
  /\ \E s \in Setups : chain = s[1] /\ store = s[2]
  /\ head = 0 /\ position = 0 /\ pc = "idle"
  /\ fetched = <<>> /\ to = 0 /\ rows = NoRows
  /\ memory = Uniswap!NoMemory
  /\ db = Mysql!EmptyDatabase
  /\ faults = 0 /\ missed = {} /\ gone = {}

BatchStep ==
  \/ Fetch \/ NothingToDo \/ Extract
  \/ StoreBlocks \/ StoreTransactions \/ StoreDexData \/ SaveProgress

FailedStep ==
  StoreBlocksFails \/ StoreTransactionsFails \/ StoreDexDataFails \/ SaveProgressFails

Next == BatchStep \/ FailedStep \/ NewBlock \/ PoolLearnt \/ CrashAndRestart

Spec == Init /\ [][Next]_vars

\* Whatever a batch in progress does, or one that has a range to fetch; Busy
\* says when some step of it is possible.
Busy ==
  pc # "idle" \/ (Start < End /\ GetBlocksByRange(chain, Start, End, {}) # <<>>)

BatchMoves ==
  /\ Busy
  /\ pc' \in {"idle", "extract", "blocks", "raw", "dex", "save"} /\ pc' # pc

\* The ticker keeps starting batches, and a batch that was started goes on.
Fairness == WF_pc(BatchMoves)

FairSpec == Spec /\ Fairness

-----------------------------------------------------------------------------
(* Properties.  An event says, in its field gives, how many rows it must   *)
(* have among the transactions and the liquidities, and which pools,       *)
(* tokens and reserves must be known because of it.                        *)

Saved == EventsOf(SubSeq(TheChain, 1, position))

RowsOf(e, t) == {k \in DOMAIN db[t] : db[t][k].of = e.id}

Idle == batchVars = <<<<>>, 0, NoRows, {}>>

TypeOK ==
  /\ <<chain, store>> \in Setups
  /\ head \in 0..Len(TheChain) /\ position \in 0..head
  /\ pc \in {"idle", "extract", "blocks", "raw", "dex", "save"}
  /\ pc = "idle" <=> Idle
  /\ to \in 0..head /\ faults \in 0..MaxFaults
  /\ {e.id : e \in EventsOf(fetched)} \subseteq {e.id : e \in EventsOf(TheChain)}
  /\ DOMAIN rows = Tables /\ DOMAIN db = Mysql!SqlTable
  /\ missed \cup gone \subseteq {e.id : e \in EventsOf(TheChain)}

\* What the saved position covers is in the tables: every event that was fetched
\* has its own rows, none taken for another's and left out by ON CONFLICT DO
\* NOTHING (store.go:438, 489) or INSERT IGNORE, and its pools, tokens and
\* reserves are there, however often a batch failed, half stored, and was run
\* again.
EventsKept ==
  \A e \in Saved :
    e.id \in gone
    \/ /\ \A t \in {"txs", "liqs"} : Cardinality(RowsOf(e, t)) >= e.gives[t]
       /\ \A t \in {"pools", "tokens", "reserves"} : e.gives[t] \subseteq DOMAIN db[t]

\* No pool and no reserve is left older than the last saved event that told of it:
\* neither the order of the rows in a batch nor an older batch that is run again
\* puts an earlier row over a later one (store.go:342, 536).
LatestKept ==
  \A e \in Saved :
    e.id \in gone
    \/ \A t \in {"pools", "reserves"} : \A k \in e.gives[t] \cap DOMAIN db[t] :
         db[t][k].of >= e.id

\* Running a batch again adds nothing (docs/database-design.md:20, idempotent
\* writes), on the chains whose extractors do not remember.
NothingTwice ==
  chain # "ethereum" =>
    \A e \in EventsOf(TheChain) : \A t \in {"txs", "liqs"} :
      Cardinality(RowsOf(e, t)) <= e.gives[t]

\* What one undisturbed pass over the whole of a chain makes of it, all in one
\* batch, as pairs of a row's key and its event.  Uniswap's rows depend on what it
\* happens to remember, so that Ethereum has no such measure.
Pass(c) == GetBlocksByRange(c, 1, Len(Blockchain[c]), {})

Told ==
  [c \in DOMAIN Blockchain \ {"ethereum"} |->
     LET pass == Extracted(c, Pass(c), Uniswap!NoMemory, {})
     IN [t \in Tables |-> {<<r.key, r.of>> : r \in ToSet(pass[t])}]]

\* The keys of one event's rows among those told.
Tells(told, e, t) == {p[1] : p \in {q \in told[t] : q[2] = e.id}}

\* That pass makes of an event the transactions and liquidities it must have, none
\* under another's key and, unless a processor leaves the event out, none too few,
\* and its pools, tokens and reserves.
PassGives ==
  chain # "ethereum" =>
    LET told == Told[chain]
    IN /\ \A e \in EventsOf(TheChain) : \A t \in {"txs", "liqs"} :
            e.gives[t] \in Nat /\ Cardinality(Tells(told, e, t)) <= e.gives[t]
       /\ \A e \in EventsOf(Pass(chain)) :
            /\ \A t \in {"txs", "liqs"} : Cardinality(Tells(told, e, t)) >= e.gives[t]
            /\ \A t \in {"pools", "tokens", "reserves"} : e.gives[t] \subseteq Tells(told, e, t)

\* A row is the same whichever batch its event came in, however the head had moved
\* when the batch was cut and however often it was tried: the tables never hold
\* what one pass over the chain does not make (docs/database-design.md:20).
NothingElseStored ==
  chain # "ethereum" =>
    \A t \in Tables : \A k \in DOMAIN db[t] : <<k, db[t][k].of>> \in Told[chain][t]

\* And they hold all of it that the saved position covers and no fault kept from
\* being read; a transaction's or a liquidity's key is no other event's.
SavedIsStored ==
  chain # "ethereum" =>
    \A t \in Tables : \A p \in Told[chain][t] :
      p[2] \in {e.id : e \in Saved} \ gone =>
        /\ p[1] \in DOMAIN db[t]
        /\ t \in {"txs", "liqs"} => db[t][p[1]].of = p[2]

\* Whatever the failures in between, the rows of a block, of its transactions and
\* of its swaps carry that block's number, by which they are joined
\* (docs/database-design.md:217, 333).  Not on Sui, see SuiGetBlock.
NumbersRight ==
  chain # "sui" =>
    \A b \in ToSet(TheChain) :
      /\ b.hash \in DOMAIN db.blocks => db.blocks[b.hash].number = b.number
      /\ \A tx \in ToSet(b.txs) :
           /\ tx.hash \in DOMAIN db.raw => db.raw[tx.hash].number = b.number
           /\ \A k \in DOMAIN db.txs : k[1] = tx.hash => db.txs[k].number = b.number

\* No batch is refused for what is in it: the chain is followed to its end, up to
\* the one block that does not make a batch.
CatchesUp == []<>(position >= head - 1)

=============================================================================
