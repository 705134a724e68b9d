----------------------------- MODULE IngestProofs -----------------------------
(***************************************************************************)
(* For every content of the chains, every batch and chunk size, either     *)
(* store and any number of failures:                                       *)
(*                                                                         *)
(*  - the types of Ingest, and that the rows of a block and of its         *)
(*    transactions carry its number.  Nothing on the way makes a number of *)
(*    its own: the processors copy it from the block to its transactions,  *)
(*    the extractors from a transaction to its rows, and the tables keep a *)
(*    row as it is, whichever of several with one key they keep;           *)
(*  - except on Ethereum, that the tables hold what one undisturbed pass   *)
(*    over the chain makes: nothing else, and all of it that the saved     *)
(*    position covers and that was read.  The argument has three parts:    *)
(*    an extractor makes the rows of an event from it and its place alone, *)
(*    so that a row does not depend on where the range was cut; two events *)
(*    never make a transaction or a liquidity with one key; and a batch    *)
(*    has all of its rows with it until it has saved its progress.         *)
(***************************************************************************)
EXTENDS Ingest, SolanaEvents, SqlTables, FiniteSetTheorems, SequenceTheorems,
        WellFoundedInduction, TLAPS

-----------------------------------------------------------------------------
(* Lists, and the lists that are their concatenations.                     *)

LEMMA ListTyped ==
  ASSUME NEW s, IsList(s)
  PROVE  Len(s) \in Nat /\ DOMAIN s = 1..Len(s) /\ \A i \in DOMAIN s : s[i] \in ToSet(s)
BY LenProperties DEF IsList, ToSet

LEMMA SeqIsList ==
  ASSUME NEW S, NEW s \in Seq(S)
  PROVE  IsList(s) /\ ToSet(s) \subseteq S
<1> DEFINE R == ToSet(s)
<1>1. Len(s) \in Nat /\ s \in [1..Len(s) -> S] /\ DOMAIN s = 1..Len(s)
  BY LenProperties
<1>2. R = {s[i] : i \in 1..Len(s)}
  BY <1>1 DEF ToSet
<1>3. s \in [1..Len(s) -> R]
  <2>1. \A i \in 1..Len(s) : s[i] \in R
    BY <1>2
  <2> QED
    BY <1>1, <2>1
<1>4. s \in Seq(R)
  BY <1>1, <1>3, SeqDef
<1>5. R \subseteq S
  BY <1>1, <1>2
<1> QED
  BY <1>4, <1>5 DEF IsList

LEMMA ListFrom ==
  ASSUME NEW S, NEW n \in Nat, NEW g \in [1..n -> S]
  PROVE  g \in Seq(S) /\ IsList(g) /\ Len(g) = n
<1>1. g \in Seq(S)
  BY SeqDef
<1>2. 1..Len(g) = 1..n /\ Len(g) \in Nat
  BY <1>1, LenProperties
<1> QED
  BY <1>1, <1>2, SeqIsList

LEMMA LeastNatural ==
  ASSUME NEW S \in SUBSET Nat, S # {}
  PROVE  \E n \in S : \A k \in S : n <= k
<1> DEFINE R == {p \in Nat \X Nat : p[1] < p[2]}
<1>1. IsWellFoundedOn(R, Nat)
  <2>1. R = OpToRel(<, Nat)
    BY DEF OpToRel
  <2> QED
    BY <2>1, NatLessThanWellFounded
<1> HIDE DEF R
<1>2. PICK n \in S : \A k \in S : ~(<<k, n>> \in R)
  BY <1>1, WFMin
<1>3. \A k, m \in Nat : k < m => <<k, m>> \in R
  BY DEF R
<1>4. ASSUME NEW k \in S PROVE n <= k
  <2>1. k \in Nat /\ n \in Nat
    OBVIOUS
  <2>2. ~(k < n)
    BY <1>2, <1>3, <2>1, Zenon
  <2> QED
    BY <2>1, <2>2
<1> QED
  BY <1>4

\* f holds the concatenations of the first parts, up to m of them.
Joins(f, ss, m) ==
  f = [i \in 1..m |-> IF i = 1 THEN ss[i] ELSE f[i - 1] \o ss[i]]

LEMMA JoinsExist ==
  ASSUME NEW ss, NEW m \in Nat
  PROVE  \E f : Joins(f, ss, m)
<1> DEFINE none == {n \in Nat : ~\E f : Joins(f, ss, n)}
<1>1. CASE none = {}
  BY <1>1
<1>2. CASE none # {}
  <2>1. none \in SUBSET Nat
    OBVIOUS
  <2>2. PICK n \in none : \A k \in none : n <= k
    BY <1>2, <2>1, LeastNatural
  <2>3. n \in Nat
    OBVIOUS
  <2>4. n # 0
    <3>1. Joins(<<>>, ss, 0)
      BY DEF Joins
    <3> QED
      BY <3>1
  <2>5. n - 1 \in Nat /\ ~(n - 1 \in none)
    BY <2>2, <2>3, <2>4
  <2>6. PICK f : Joins(f, ss, n - 1)
    BY <2>5
  <2> DEFINE g == [i \in 1..n |-> IF i = 1 THEN ss[i] ELSE f[i - 1] \o ss[i]]
  <2>7. ASSUME NEW i \in 1..(n - 1) PROVE g[i] = f[i]
    <3>1. f[i] = IF i = 1 THEN ss[i] ELSE f[i - 1] \o ss[i]
      BY <2>6, Zenon DEF Joins
    <3>2. i \in 1..n
      BY <2>3
    <3> QED
      BY <3>1, <3>2, Zenon
  <2>8. Joins(g, ss, n)
    <3> HIDE DEF g
    <3>1. ASSUME NEW i \in 1..n, i # 1 PROVE f[i - 1] = g[i - 1]
      <4>1. i - 1 \in 1..(n - 1)
        BY <2>3, <3>1
      <4> QED
        BY <2>7, <4>1
    <3>2. g = [i \in 1..n |-> IF i = 1 THEN ss[i] ELSE g[i - 1] \o ss[i]]
      BY <3>1, Zenon DEF g
    <3> QED
      BY <3>2, Zenon DEF Joins
  <2> QED
    BY <2>2, <2>8
<1> QED
  BY <1>1, <1>2

LEMMA FlattenDef ==
  ASSUME NEW ss, Len(ss) \in Nat, Len(ss) # 0
  PROVE  \E f : Joins(f, ss, Len(ss)) /\ FlattenSeq(ss) = f[Len(ss)]
<1> DEFINE n == Len(ss)
           chosen == CHOOSE f : Joins(f, ss, n)
<1>1. Joins(chosen, ss, n)
  BY JoinsExist
<1>2. FlattenSeq(ss) = chosen[n]
  BY Zenon DEF FlattenSeq, Joins
<1> QED
  BY <1>1, <1>2

LEMMA FlattenTyped ==
  ASSUME NEW S, NEW ss \in Seq(Seq(S))
  PROVE  FlattenSeq(ss) \in Seq(S)
<1> DEFINE n == Len(ss)
<1>1. n \in Nat /\ \A i \in 1..n : ss[i] \in Seq(S)
  BY LenProperties, ElementOfSeq
<1>2. CASE n = 0
  <2>1. ss = <<>>
    BY <1>2, EmptySeq
  <2> QED
    BY <1>2, <2>1, EmptySeq DEF FlattenSeq
<1>3. CASE n # 0
  <2>1. PICK f : Joins(f, ss, n) /\ FlattenSeq(ss) = f[n]
    BY <1>1, <1>3, FlattenDef
  <2> DEFINE wrong == {i \in 1..n : f[i] \notin Seq(S)}
  <2>2. CASE wrong = {}
    BY <1>1, <1>3, <2>1, <2>2
  <2>3. CASE wrong # {}
    <3>1. wrong \in SUBSET Nat
      OBVIOUS
    <3>2. PICK i \in wrong : \A k \in wrong : i <= k
      BY <2>3, <3>1, LeastNatural
    <3>3. i \in 1..n /\ f[i] \notin Seq(S)
      OBVIOUS
    <3>4. f[i] = IF i = 1 THEN ss[i] ELSE f[i - 1] \o ss[i]
      BY <2>1, <3>3, Zenon DEF Joins
    <3>5. i # 1
      BY <1>1, <3>3, <3>4
    <3>6. i - 1 \in 1..n /\ ~(i <= i - 1)
      BY <1>1, <3>3, <3>5
    <3>7. f[i - 1] \in Seq(S)
      BY <3>2, <3>6
    <3>8. ss[i] \in Seq(S)
      BY <1>1, <3>3
    <3>9. f[i - 1] \o ss[i] \in Seq(S)
      BY <3>7, <3>8, ConcatProperties
    <3> QED
      BY <3>3, <3>4, <3>5, <3>9
  <2> QED
    BY <2>2, <2>3
<1> QED
  BY <1>2, <1>3

\* What is in the concatenation is in a part.
LEMMA FlattenParts ==
  ASSUME NEW n \in Nat, NEW ss, ss = [i \in 1..n |-> ss[i]], \A i \in 1..n : IsList(ss[i])
  PROVE  /\ IsList(FlattenSeq(ss))
         /\ \A x \in ToSet(FlattenSeq(ss)) : \E i \in 1..n : x \in ToSet(ss[i])
<1> DEFINE S == UNION {ToSet(ss[i]) : i \in 1..n}
<1>1. \A i \in 1..n : ss[i] \in Seq(S)
  <2>1. \A i \in 1..n : ToSet(ss[i]) \subseteq S
    OBVIOUS
  <2> HIDE DEF S
  <2> QED
    BY <2>1, SeqMonotonic DEF IsList
<1>2. ss \in [1..n -> Seq(S)]
  <2> HIDE DEF S
  <2> QED
    BY <1>1
<1>3. FlattenSeq(ss) \in Seq(S)
  <2> HIDE DEF S
  <2> QED
    BY <1>2, ListFrom, FlattenTyped
<1>4. IsList(FlattenSeq(ss)) /\ ToSet(FlattenSeq(ss)) \subseteq S
  <2> HIDE DEF S
  <2> QED
    BY <1>3, SeqIsList
<1> QED
  BY <1>4

-----------------------------------------------------------------------------
(* The rows of an extractor.  S: the pairs of a transaction's hash and its *)
(* block's number that are right.                                          *)

DataOf(d, S) ==
  /\ d = [t \in Tables |-> d[t]]
  /\ \A t \in Tables : IsList(d[t])
  /\ \A r \in ToSet(d["txs"]) : <<r.key[1], r.number>> \in S

BlocksOf(bs, S) ==
  /\ IsList(bs)
  /\ \A b \in ToSet(bs) :
       /\ "txs" \in DOMAIN b /\ IsList(b.txs)
       /\ \A tx \in ToSet(b.txs) :
            /\ {"hash", "number", "time", "events"} \subseteq DOMAIN tx
            /\ <<tx.hash, tx.number>> \in S
            /\ IsList(tx.events) /\ \A e \in ToSet(tx.events) : IsList(e.tokens)

ItemOf(it, S) == <<it.hash, it.number>> \in S /\ IsList(it.ev.tokens)

LEMMA EmptyList == IsList(<<>>) /\ ToSet(<<>>) = {}
<1> DEFINE e == <<>>
<1>1. e \in Seq({})
  BY EmptySeq
<1> HIDE DEF e
<1>2. IsList(e) /\ ToSet(e) = {}
  BY <1>1, SeqIsList
<1> QED
  BY <1>2 DEF e

LEMMA SingleList ==
  ASSUME NEW x
  PROVE  IsList(<<x>>) /\ ToSet(<<x>>) = {x}
<1> DEFINE s == <<x>>
<1>1. s \in Seq({x})
  OBVIOUS
<1>2. s[1] = x /\ 1 \in DOMAIN s
  OBVIOUS
<1> HIDE DEF s
<1>3. IsList(s) /\ ToSet(s) \subseteq {x}
  BY <1>1, SeqIsList
<1>4. x \in ToSet(s)
  BY <1>2 DEF ToSet
<1> QED
  BY <1>3, <1>4 DEF s

LEMMA NoRowsOf ==
  ASSUME NEW S
  PROVE  DataOf(NoRows, S)
BY EmptyList DEF DataOf, NoRows, Tables

LEMMA OnlyOf ==
  ASSUME NEW S, NEW t \in Tables, NEW row, t = "txs" => <<row.key[1], row.number>> \in S
  PROVE  DataOf(Only(t, row), S)
<1> DEFINE d == Only(t, row)
<1>1. d = [u \in Tables |-> IF u = t THEN <<row>> ELSE <<>>]
  BY DEF Only, NoRows
<1> HIDE DEF d
<1>2. \A u \in Tables : d[u] = IF u = t THEN <<row>> ELSE <<>>
  BY <1>1
<1>3. \A u \in Tables : IsList(d[u])
  BY <1>2, EmptyList, SingleList
<1>4. "txs" \in Tables
  BY DEF Tables
<1>5. \A r \in ToSet(d["txs"]) : <<r.key[1], r.number>> \in S
  BY <1>2, <1>4, EmptyList, SingleList
<1>6. d = [u \in Tables |-> d[u]]
  BY <1>1
<1> QED
  BY <1>3, <1>5, <1>6 DEF DataOf, d

LEMMA WhenOf ==
  ASSUME NEW S, NEW c, NEW d, c => DataOf(d, S)
  PROVE  DataOf(When(c, d), S)
BY NoRowsOf DEF When

LEMMA MergeOf ==
  ASSUME NEW S, NEW n \in Nat, NEW all, all = [i \in 1..n |-> all[i]],
         \A i \in 1..n : DataOf(all[i], S)
  PROVE  DataOf(Merge(all), S)
<1> DEFINE parts(t) == [i \in 1..n |-> all[i][t]]
           d == Merge(all)
<1>1. DOMAIN all = 1..n
  OBVIOUS
<1>2. d = [t \in Tables |-> FlattenSeq(parts(t))]
  BY <1>1 DEF Merge
<1>3. \A t : /\ parts(t) = [i \in 1..n |-> parts(t)[i]]
             /\ \A i \in 1..n : parts(t)[i] = all[i][t]
  OBVIOUS
<1> HIDE DEF parts, d
<1>4. \A t \in Tables : /\ IsList(FlattenSeq(parts(t)))
                        /\ \A x \in ToSet(FlattenSeq(parts(t))) :
                             \E i \in 1..n : x \in ToSet(all[i][t])
  <2> TAKE t \in Tables
  <2>1. \A i \in 1..n : IsList(parts(t)[i])
    BY <1>3 DEF DataOf
  <2> QED
    BY <2>1, <1>3, FlattenParts
<1>5. "txs" \in Tables
  BY DEF Tables
<1>6. \A t \in Tables : d[t] = FlattenSeq(parts(t))
  BY <1>2
<1>7. \A r \in ToSet(d["txs"]) : <<r.key[1], r.number>> \in S
  BY <1>4, <1>5, <1>6 DEF DataOf
<1>8. d = [t \in Tables |-> d[t]]
  BY <1>2
<1> QED
  BY <1>4, <1>6, <1>7, <1>8 DEF DataOf, d

LEMMA MergePairOf ==
  ASSUME NEW S, NEW d, NEW e, DataOf(d, S), DataOf(e, S)
  PROVE  DataOf(Merge(<<d, e>>), S)
<1> DEFINE all == <<d, e>>
<1>1. all = [i \in 1..2 |-> all[i]] /\ \A i \in 1..2 : all[i] = d \/ all[i] = e
  OBVIOUS
<1> HIDE DEF all
<1>2. DataOf(Merge(all), S)
  BY <1>1, MergeOf
<1> QED
  BY <1>2 DEF all

LEMMA RowsAreOf ==
  ASSUME NEW S, NEW it, ItemOf(it, S)
  PROVE  /\ \A index, side : DataOf(TransactionRow(it, index, side), S)
         /\ \A name, addr : DataOf(LiquidityRow(it, name, addr), S)
         /\ \A addr, tokens : DataOf(PoolRow(it, addr, tokens), S)
         /\ \A addr : DataOf(TokenRow(it, addr), S)
         /\ \A addr : DataOf(ReserveRow(it, addr), S)
<1>1. Tables = {"pools", "tokens", "txs", "liqs", "reserves"}
  BY DEF Tables
<1>2. ASSUME NEW index, NEW side PROVE DataOf(TransactionRow(it, index, side), S)
  <2> DEFINE row == [key |-> <<it.hash, index, side>>, of |-> it.ev.id, number |-> it.number]
  <2>1. row.key[1] = it.hash /\ row.number = it.number
    OBVIOUS
  <2> HIDE DEF row
  <2>2. DataOf(Only("txs", row), S)
    BY <1>1, <2>1, OnlyOf DEF ItemOf
  <2> QED
    BY <2>2 DEF TransactionRow, row
<1>3. \A t \in Tables \ {"txs"} : \A row : DataOf(Only(t, row), S)
  BY OnlyOf
<1>4. {"liqs", "pools", "tokens", "reserves"} \subseteq Tables \ {"txs"}
  BY <1>1
<1> QED
  BY <1>2, <1>3, <1>4 DEF LiquidityRow, PoolRow, TokenRow, ReserveRow

LEMMA ItemsAreOf ==
  ASSUME NEW S, NEW blocks, BlocksOf(blocks, S)
  PROVE  IsList(Items(blocks)) /\ \A it \in ToSet(Items(blocks)) : ItemOf(it, S)
<1> DEFINE ofTx(tx) ==
             [i \in DOMAIN tx.events |->
                [ev |-> tx.events[i], pos |-> i - 1,
                 hash |-> tx.hash, time |-> tx.time, number |-> tx.number]]
           txParts(b) == [t \in DOMAIN b.txs |-> ofTx(b.txs[t])]
           parts == [b \in DOMAIN blocks |-> FlattenSeq(txParts(blocks[b]))]
           Good(x) == IsList(x) /\ \A it \in ToSet(x) : ItemOf(it, S)
<1>1. Items(blocks) = FlattenSeq(parts)
  BY DEF Items
<1>2. ASSUME NEW tx, IsList(tx.events), <<tx.hash, tx.number>> \in S,
             \A e \in ToSet(tx.events) : IsList(e.tokens)
      PROVE  Good(ofTx(tx))
  <2> DEFINE R == {ofTx(tx)[i] : i \in 1..Len(tx.events)}
  <2>1. Len(tx.events) \in Nat /\ DOMAIN tx.events = 1..Len(tx.events)
        /\ \A i \in DOMAIN tx.events : tx.events[i] \in ToSet(tx.events)
    BY <1>2, ListTyped
  <2>2. ofTx(tx) \in [1..Len(tx.events) -> R]
    BY <2>1
  <2>3. \A it \in R : ItemOf(it, S)
    <3>1. \A i \in 1..Len(tx.events) :
            /\ ofTx(tx)[i].ev = tx.events[i]
            /\ ofTx(tx)[i].hash = tx.hash /\ ofTx(tx)[i].number = tx.number
      BY <2>1
    <3> HIDE DEF ofTx
    <3>2. \A i \in 1..Len(tx.events) : ItemOf(ofTx(tx)[i], S)
      BY <1>2, <2>1, <3>1 DEF ItemOf
    <3> QED
      BY <3>2
  <2> HIDE DEF R, ofTx
  <2>4. IsList(ofTx(tx)) /\ ToSet(ofTx(tx)) \subseteq R
    BY <2>1, <2>2, ListFrom, SeqIsList
  <2> QED
    BY <2>3, <2>4
<1> HIDE DEF ofTx
<1>3. ASSUME NEW b \in ToSet(blocks) PROVE Good(FlattenSeq(txParts(b)))
  <2>1. Len(b.txs) \in Nat /\ DOMAIN b.txs = 1..Len(b.txs)
        /\ \A t \in DOMAIN b.txs : b.txs[t] \in ToSet(b.txs)
    BY ListTyped DEF BlocksOf
  <2>2. /\ txParts(b) = [t \in 1..Len(b.txs) |-> txParts(b)[t]]
        /\ \A t \in 1..Len(b.txs) : txParts(b)[t] = ofTx(b.txs[t])
    BY <2>1
  <2>3. \A t \in 1..Len(b.txs) : Good(ofTx(b.txs[t]))
    <3> TAKE t \in 1..Len(b.txs)
    <3>1. b.txs[t] \in ToSet(b.txs)
      BY <2>1
    <3> HIDE DEF Good
    <3> QED
      BY <1>2, <3>1 DEF BlocksOf
  <2> DEFINE n == Len(b.txs)
             ss == txParts(b)
  <2>4. n \in Nat /\ ss = [t \in 1..n |-> ss[t]]
    BY <2>1, <2>2
  <2>5. \A t \in 1..n : IsList(ss[t]) /\ \A it \in ToSet(ss[t]) : ItemOf(it, S)
    BY <2>2, <2>3
  <2> HIDE DEF n, ss
  <2>6. IsList(FlattenSeq(ss)) /\ \A x \in ToSet(FlattenSeq(ss)) : \E i \in 1..n : x \in ToSet(ss[i])
    BY <2>4, <2>5, FlattenParts
  <2>7. Good(FlattenSeq(ss))
    BY <2>5, <2>6
  <2> QED
    BY <2>7 DEF ss
<1> HIDE DEF txParts
<1>4. Len(blocks) \in Nat /\ DOMAIN blocks = 1..Len(blocks)
      /\ \A b \in DOMAIN blocks : blocks[b] \in ToSet(blocks)
  BY ListTyped DEF BlocksOf
<1>5. /\ parts = [b \in 1..Len(blocks) |-> parts[b]]
      /\ \A b \in 1..Len(blocks) : parts[b] = FlattenSeq(txParts(blocks[b]))
  BY <1>4
<1>6. \A b \in 1..Len(blocks) : Good(parts[b])
  <2> TAKE b \in 1..Len(blocks)
  <2>1. parts[b] = FlattenSeq(txParts(blocks[b])) /\ blocks[b] \in ToSet(blocks)
    BY <1>4, <1>5
  <2> HIDE DEF Good, parts
  <2> QED
    BY <2>1, <1>3
<1> HIDE DEF parts
<1> QED
  BY <1>1, <1>4, <1>5, <1>6, FlattenParts

LEMMA KeptOf ==
  ASSUME NEW s, NEW wanted, IsList(s)
  PROVE  /\ IsList(Kept(s, wanted))
         /\ \A x \in ToSet(Kept(s, wanted)) : x \in ToSet(s) /\ x \in wanted
<1> DEFINE ss == [i \in DOMAIN s |-> IF s[i] \in wanted THEN <<s[i]>> ELSE <<>>]
<1>1. Len(s) \in Nat /\ DOMAIN s = 1..Len(s) /\ \A i \in DOMAIN s : s[i] \in ToSet(s)
  BY ListTyped
<1>2. /\ ss = [i \in 1..Len(s) |-> ss[i]]
      /\ \A i \in 1..Len(s) : ss[i] = IF s[i] \in wanted THEN <<s[i]>> ELSE <<>>
  BY <1>1
<1>3. Kept(s, wanted) = FlattenSeq(ss)
  BY DEF Kept
<1> HIDE DEF ss
<1>4. \A i \in 1..Len(s) :
        IsList(ss[i]) /\ \A x \in ToSet(ss[i]) : x \in ToSet(s) /\ x \in wanted
  BY <1>1, <1>2, EmptyList, SingleList
<1> QED
  BY <1>1, <1>2, <1>3, <1>4, FlattenParts

-----------------------------------------------------------------------------
(* The extractors.  The operators on rows that one of them brings along    *)
(* are those of DexRows.                                                   *)

LEMMA PancakeRows ==
  /\ Pancake!NoRows = NoRows
  /\ \A all : Pancake!Merge(all) = Merge(all)
  /\ \A c, d : Pancake!When(c, d) = When(c, d)
  /\ \A blocks : Pancake!Items(blocks) = Items(blocks)
  /\ \A it, index, side : Pancake!TransactionRow(it, index, side) = TransactionRow(it, index, side)
  /\ \A it, name, addr : Pancake!LiquidityRow(it, name, addr) = LiquidityRow(it, name, addr)
  /\ \A it, addr, tokens : Pancake!PoolRow(it, addr, tokens) = PoolRow(it, addr, tokens)
<1>1. \A ss : Pancake!FlattenSeq(ss) = FlattenSeq(ss)
  BY Zenon DEF Pancake!FlattenSeq, FlattenSeq
<1>2. Pancake!Tables = Tables /\ Pancake!NoRows = NoRows
  BY DEF Pancake!Tables, Pancake!NoRows, Tables, NoRows
<1>3. \A t, row : Pancake!Only(t, row) = Only(t, row)
  BY <1>2 DEF Pancake!Only, Only
<1>4. \A all : Pancake!Merge(all) = Merge(all)
  BY <1>1, <1>2 DEF Pancake!Merge, Merge
<1>5. \A c, d : Pancake!When(c, d) = When(c, d)
  BY <1>2 DEF Pancake!When, When
<1>6. \A blocks : Pancake!Items(blocks) = Items(blocks)
  BY <1>1 DEF Pancake!Items, Items
<1> QED
  BY <1>2, <1>3, <1>4, <1>5, <1>6, Zenon
     DEF Pancake!TransactionRow, Pancake!LiquidityRow, Pancake!PoolRow,
         TransactionRow, LiquidityRow, PoolRow

LEMMA PancakeOf ==
  ASSUME NEW S, NEW blocks, BlocksOf(blocks, S)
  PROVE  DataOf(Pancake!ExtractDexData(blocks), S)
<1> DEFINE all == Items(blocks)
           parts == [i \in DOMAIN all |-> When(Pancake!isPancakeSwapLog(all[i].ev), Pancake!ParseLog(all[i]))]
<1>1. ASSUME NEW it, ItemOf(it, S), Pancake!isPancakeSwapLog(it.ev)
      PROVE  DataOf(Pancake!ParseLog(it), S)
  <2>1. \A c, index, side : DataOf(When(c, TransactionRow(it, index, side)), S)
    BY <1>1, RowsAreOf, WhenOf
  <2>2. \A c, name, addr : DataOf(When(c, LiquidityRow(it, name, addr)), S)
    BY <1>1, RowsAreOf, WhenOf
  <2>3. \A c, addr, tokens : DataOf(When(c, PoolRow(it, addr, tokens)), S)
    BY <1>1, RowsAreOf, WhenOf
  <2>4. /\ DataOf(Pancake!parseV2Swap(it), S) /\ DataOf(Pancake!parseV3Swap(it), S)
        /\ DataOf(Pancake!parseLiquidity(it, "add"), S)
        /\ DataOf(Pancake!parseLiquidity(it, "remove"), S)
        /\ DataOf(Pancake!parseV2PairCreated(it), S)
        /\ DataOf(Pancake!parseV3PoolCreated(it), S)
    BY <2>1, <2>2, <2>3, PancakeRows
       DEF Pancake!parseV2Swap, Pancake!parseV3Swap, Pancake!parseLiquidity,
           Pancake!parseV2PairCreated, Pancake!parseV3PoolCreated
  <2>5. Pancake!getLogType[it.ev.sig]
          \in {"swap_v2", "swap_v3", "mint", "burn", "pair_created", "pool_created"}
    BY <1>1 DEF Pancake!isPancakeSwapLog, Pancake!getLogType
  <2> QED
    BY <2>4, <2>5 DEF Pancake!ParseLog
<1>2. Pancake!ExtractDexData(blocks) = Merge(parts)
  BY PancakeRows DEF Pancake!ExtractDexData
<1>3. /\ Len(all) \in Nat /\ DOMAIN all = 1..Len(all)
      /\ \A i \in DOMAIN all : ItemOf(all[i], S)
  <2> HIDE DEF all
  <2>1. IsList(all) /\ \A it \in ToSet(all) : ItemOf(it, S)
    BY ItemsAreOf DEF all
  <2> QED
    BY <2>1, ListTyped
<1> HIDE DEF all
<1>4. /\ parts = [i \in 1..Len(all) |-> parts[i]]
      /\ \A i \in 1..Len(all) :
           parts[i] = When(Pancake!isPancakeSwapLog(all[i].ev), Pancake!ParseLog(all[i]))
  BY <1>3
<1> HIDE DEF parts
<1>5. \A i \in 1..Len(all) : DataOf(parts[i], S)
  BY <1>1, <1>3, <1>4, WhenOf
<1> QED
  BY <1>2, <1>3, <1>4, <1>5, MergeOf

LEMMA FourMemeRows ==
  /\ FourMeme!NoRows = NoRows
  /\ \A all : FourMeme!Merge(all) = Merge(all)
  /\ \A c, d : FourMeme!When(c, d) = When(c, d)
  /\ \A blocks : FourMeme!Items(blocks) = Items(blocks)
  /\ \A it, index, side : FourMeme!TransactionRow(it, index, side) = TransactionRow(it, index, side)
  /\ \A it, name, addr : FourMeme!LiquidityRow(it, name, addr) = LiquidityRow(it, name, addr)
  /\ \A it, addr, tokens : FourMeme!PoolRow(it, addr, tokens) = PoolRow(it, addr, tokens)
<1>1. \A ss : FourMeme!FlattenSeq(ss) = FlattenSeq(ss)
  BY Zenon DEF FourMeme!FlattenSeq, FlattenSeq
<1>2. FourMeme!Tables = Tables /\ FourMeme!NoRows = NoRows
  BY DEF FourMeme!Tables, FourMeme!NoRows, Tables, NoRows
<1>3. \A t, row : FourMeme!Only(t, row) = Only(t, row)
  BY <1>2 DEF FourMeme!Only, Only
<1>4. \A all : FourMeme!Merge(all) = Merge(all)
  BY <1>1, <1>2 DEF FourMeme!Merge, Merge
<1>5. \A c, d : FourMeme!When(c, d) = When(c, d)
  BY <1>2 DEF FourMeme!When, When
<1>6. \A blocks : FourMeme!Items(blocks) = Items(blocks)
  BY <1>1 DEF FourMeme!Items, Items
<1> QED
  BY <1>2, <1>3, <1>4, <1>5, <1>6, Zenon
     DEF FourMeme!TransactionRow, FourMeme!LiquidityRow, FourMeme!PoolRow,
         TransactionRow, LiquidityRow, PoolRow

LEMMA FourMemeOf ==
  ASSUME NEW S, NEW blocks, BlocksOf(blocks, S)
  PROVE  DataOf(FourMeme!ExtractDexData(blocks), S)
<1> DEFINE all == Items(blocks)
           parts == [i \in DOMAIN all |-> When(FourMeme!isFourMemeLog(all[i].ev), FourMeme!ParseLog(all[i]))]
<1>1. ASSUME NEW it, ItemOf(it, S), FourMeme!isFourMemeLog(it.ev)
      PROVE  DataOf(FourMeme!ParseLog(it), S)
  <2>1. \A c, index, side : DataOf(When(c, TransactionRow(it, index, side)), S)
    BY <1>1, RowsAreOf, WhenOf
  <2>2. \A c, name, addr : DataOf(When(c, LiquidityRow(it, name, addr)), S)
    BY <1>1, RowsAreOf, WhenOf
  <2>3. \A c, addr, tokens : DataOf(When(c, PoolRow(it, addr, tokens)), S)
    BY <1>1, RowsAreOf, WhenOf
  <2>4. /\ DataOf(FourMeme!parseV2Purchase(it), S) /\ DataOf(FourMeme!parseV2Sale(it), S)
        /\ DataOf(FourMeme!parseV1Purchase(it), S) /\ DataOf(FourMeme!parseV1Sale(it), S)
        /\ DataOf(FourMeme!parseV2TokenCreate(it), S)
        /\ DataOf(FourMeme!parseV1TokenCreate(it), S)
        /\ DataOf(FourMeme!parseV2LiquidityAdded(it), S)
    BY <2>1, <2>2, <2>3, FourMemeRows
       DEF FourMeme!parseV2Purchase, FourMeme!parseV2Sale, FourMeme!parseV1Purchase,
           FourMeme!parseV1Sale, FourMeme!parseV2TokenCreate,
           FourMeme!parseV1TokenCreate, FourMeme!parseV2LiquidityAdded
  <2>5. DataOf(FourMeme!NoRows, S)
    BY NoRowsOf, FourMemeRows
  <2> QED
    BY <2>4, <2>5 DEF FourMeme!ParseLog
<1>2. FourMeme!ExtractDexData(blocks) = Merge(parts)
  BY FourMemeRows DEF FourMeme!ExtractDexData
<1>3. /\ Len(all) \in Nat /\ DOMAIN all = 1..Len(all)
      /\ \A i \in DOMAIN all : ItemOf(all[i], S)
  <2> HIDE DEF all
  <2>1. IsList(all) /\ \A it \in ToSet(all) : ItemOf(it, S)
    BY ItemsAreOf DEF all
  <2> QED
    BY <2>1, ListTyped
<1> HIDE DEF all
<1>4. /\ parts = [i \in 1..Len(all) |-> parts[i]]
      /\ \A i \in 1..Len(all) :
           parts[i] = When(FourMeme!isFourMemeLog(all[i].ev), FourMeme!ParseLog(all[i]))
  BY <1>3
<1> HIDE DEF parts
<1>5. \A i \in 1..Len(all) : DataOf(parts[i], S)
  BY <1>1, <1>3, <1>4, WhenOf
<1> QED
  BY <1>2, <1>3, <1>4, <1>5, MergeOf

LEMMA EventItemsAreOf ==
  ASSUME NEW S, NEW blocks, BlocksOf(blocks, S)
  PROVE  IsList(EventItems(blocks)) /\ \A it \in ToSet(EventItems(blocks)) : ItemOf(it, S)
<1> DEFINE decoded(tx) == [tx EXCEPT !.events = ExtractSolanaEventData(tx)]
           txs(b) == [t \in DOMAIN b.txs |-> decoded(b.txs[t])]
           all(b) == [b EXCEPT !.txs = txs(b)]
           bs == [b \in DOMAIN blocks |-> all(blocks[b])]
           TxOf(tx) == /\ {"hash", "number", "time", "events"} \subseteq DOMAIN tx
                       /\ <<tx.hash, tx.number>> \in S
                       /\ IsList(tx.events) /\ \A e \in ToSet(tx.events) : IsList(e.tokens)
<1>1. EventItems(blocks) = Items(bs)
  BY DEF EventItems
<1>2. ASSUME NEW tx, TxOf(tx) PROVE TxOf(decoded(tx))
  <2> DEFINE got == ExtractSolanaEventData(tx)
  <2>1. IsList(got) /\ \A e \in ToSet(got) : e \in ToSet(tx.events)
    BY <1>2, KeptOf DEF ExtractSolanaEventData
  <2> HIDE DEF got
  <2>2. /\ DOMAIN decoded(tx) = DOMAIN tx
        /\ decoded(tx).hash = tx.hash /\ decoded(tx).number = tx.number
        /\ decoded(tx).events = got
    BY <1>2 DEF got
  <2> HIDE DEF decoded
  <2> QED
    BY <1>2, <2>1, <2>2
<1> HIDE DEF decoded
<1>3. ASSUME NEW b \in ToSet(blocks)
      PROVE  /\ "txs" \in DOMAIN all(b) /\ IsList(all(b).txs)
             /\ \A tx \in ToSet(all(b).txs) : TxOf(tx)
  <2> DEFINE n == Len(b.txs)
             R == {txs(b)[t] : t \in 1..n}
  <2>1. n \in Nat /\ DOMAIN b.txs = 1..n /\ \A t \in 1..n : b.txs[t] \in ToSet(b.txs)
    BY ListTyped DEF BlocksOf
  <2>2. /\ txs(b) \in [1..n -> R]
        /\ \A t \in 1..n : txs(b)[t] = decoded(b.txs[t])
    BY <2>1
  <2>3. \A t \in 1..n : TxOf(b.txs[t])
    BY <2>1 DEF BlocksOf
  <2>4. \A tx \in R : TxOf(tx)
    <3> HIDE DEF TxOf, txs
    <3> QED
      BY <1>2, <2>2, <2>3
  <2>5. "txs" \in DOMAIN all(b) /\ all(b).txs = txs(b)
    <3>1. "txs" \in DOMAIN b
      BY DEF BlocksOf
    <3> HIDE DEF txs
    <3> QED
      BY <3>1
  <2> HIDE DEF R, txs, all, TxOf
  <2>6. IsList(txs(b)) /\ ToSet(txs(b)) \subseteq R
    BY <2>1, <2>2, ListFrom, SeqIsList
  <2> QED
    BY <2>4, <2>5, <2>6
<1> HIDE DEF all
<1>4. BlocksOf(bs, S)
  <2> DEFINE n == Len(blocks)
             R == {bs[b] : b \in 1..n}
  <2>1. n \in Nat /\ DOMAIN blocks = 1..n /\ \A b \in 1..n : blocks[b] \in ToSet(blocks)
    BY ListTyped DEF BlocksOf
  <2>2. bs \in [1..n -> R] /\ \A b \in 1..n : bs[b] = all(blocks[b])
    BY <2>1
  <2>3. \A b \in R : /\ "txs" \in DOMAIN b /\ IsList(b.txs)
                     /\ \A tx \in ToSet(b.txs) : TxOf(tx)
    <3> HIDE DEF TxOf, bs
    <3> QED
      BY <1>3, <2>1, <2>2
  <2> HIDE DEF R, bs
  <2>4. IsList(bs) /\ ToSet(bs) \subseteq R
    BY <2>1, <2>2, ListFrom, SeqIsList
  <2> QED
    BY <2>3, <2>4 DEF BlocksOf
<1> HIDE DEF bs
<1> QED
  BY <1>1, <1>4, ItemsAreOf

LEMMA PumpFunRows ==
  /\ PumpFun!NoRows = NoRows
  /\ \A all : PumpFun!Merge(all) = Merge(all)
  /\ \A c, d : PumpFun!When(c, d) = When(c, d)
  /\ \A blocks : PumpFun!Items(blocks) = Items(blocks)
  /\ \A s, wanted : PumpFun!Kept(s, wanted) = Kept(s, wanted)
  /\ \A it, index, side : PumpFun!TransactionRow(it, index, side) = TransactionRow(it, index, side)
  /\ \A it, name, addr : PumpFun!LiquidityRow(it, name, addr) = LiquidityRow(it, name, addr)
  /\ \A it, addr, tokens : PumpFun!PoolRow(it, addr, tokens) = PoolRow(it, addr, tokens)
  /\ \A it, addr : PumpFun!TokenRow(it, addr) = TokenRow(it, addr)
<1>1. \A ss : PumpFun!FlattenSeq(ss) = FlattenSeq(ss)
  BY Zenon DEF PumpFun!FlattenSeq, FlattenSeq
<1>2. PumpFun!Tables = Tables /\ PumpFun!NoRows = NoRows
  BY DEF PumpFun!Tables, PumpFun!NoRows, Tables, NoRows
<1>3. \A t, row : PumpFun!Only(t, row) = Only(t, row)
  BY <1>2 DEF PumpFun!Only, Only
<1>4. \A all : PumpFun!Merge(all) = Merge(all)
  BY <1>1, <1>2 DEF PumpFun!Merge, Merge
<1>5. \A c, d : PumpFun!When(c, d) = When(c, d)
  BY <1>2 DEF PumpFun!When, When
<1>6. \A blocks : PumpFun!Items(blocks) = Items(blocks)
  BY <1>1 DEF PumpFun!Items, Items
<1>7. \A s, wanted : PumpFun!Kept(s, wanted) = Kept(s, wanted)
  BY <1>1 DEF PumpFun!Kept, Kept
<1> QED
  BY <1>2, <1>3, <1>4, <1>5, <1>6, <1>7, Zenon
     DEF PumpFun!TransactionRow, PumpFun!LiquidityRow, PumpFun!PoolRow, PumpFun!TokenRow,
         TransactionRow, LiquidityRow, PoolRow, TokenRow

LEMMA PumpFunOf ==
  ASSUME NEW S, NEW blocks, BlocksOf(blocks, S)
  PROVE  DataOf(PumpFun!ExtractDexData(blocks), S)
<1> DEFINE all == EventItems(blocks)
           mine(it) == it.ev.sig \in PumpFun!Discriminators
           parts == [i \in DOMAIN all |-> When(mine(all[i]), PumpFun!ParseEvent(all[i]))]
<1>1. ASSUME NEW it, ItemOf(it, S), mine(it)
      PROVE  DataOf(PumpFun!ParseEvent(it), S)
  <2> DEFINE pair == <<PoolRow(it, it.ev.pool, it.ev.tokens), TokenRow(it, it.ev.tokens[1])>>
  <2>1. DataOf(PumpFun!parseTradeEvent(it), S)
    BY <1>1, RowsAreOf, WhenOf, PumpFunRows DEF PumpFun!parseTradeEvent
  <2>2. DataOf(PumpFun!parseCompleteEvent(it), S)
    BY <1>1, RowsAreOf, WhenOf, PumpFunRows DEF PumpFun!parseCompleteEvent
  <2>3. DataOf(Merge(pair), S)
    BY <1>1, RowsAreOf, MergePairOf
  <2>4. DataOf(PumpFun!parseCreateEvent(it), S)
    <3>1. PumpFun!parseCreateEvent(it) = When(it.ev.bytes >= 108, Merge(pair))
      BY PumpFunRows DEF PumpFun!parseCreateEvent
    <3> HIDE DEF pair
    <3> QED
      BY <2>3, <3>1, WhenOf
  <2>5. it.ev.sig \in {"Trade", "Create", "Complete"}
    BY <1>1 DEF PumpFun!Discriminators
  <2> QED
    BY <2>1, <2>2, <2>4, <2>5 DEF PumpFun!ParseEvent
<1>2. PumpFun!ExtractDexData(blocks) = Merge(parts)
  <2>1. PumpFun!EventItems(blocks) = EventItems(blocks)
    BY PumpFunRows, Zenon
       DEF PumpFun!EventItems, EventItems, PumpFun!ExtractSolanaEventData, ExtractSolanaEventData, PumpFun!ToSet, ToSet
  <2> QED
    BY <2>1, PumpFunRows DEF PumpFun!ExtractDexData
<1>3. /\ Len(all) \in Nat /\ DOMAIN all = 1..Len(all)
      /\ \A i \in DOMAIN all : ItemOf(all[i], S)
  <2> HIDE DEF all
  <2>1. IsList(all) /\ \A it \in ToSet(all) : ItemOf(it, S)
    BY EventItemsAreOf DEF all
  <2> QED
    BY <2>1, ListTyped
<1> HIDE DEF all
<1>4. /\ parts = [i \in 1..Len(all) |-> parts[i]]
      /\ \A i \in 1..Len(all) : parts[i] = When(mine(all[i]), PumpFun!ParseEvent(all[i]))
  BY <1>3
<1> HIDE DEF parts, mine
<1>5. \A i \in 1..Len(all) : DataOf(parts[i], S)
  BY <1>1, <1>3, <1>4, WhenOf
<1> QED
  BY <1>2, <1>3, <1>4, <1>5, MergeOf

LEMMA PumpSwapRows ==
  /\ PumpSwap!NoRows = NoRows
  /\ \A all : PumpSwap!Merge(all) = Merge(all)
  /\ \A c, d : PumpSwap!When(c, d) = When(c, d)
  /\ \A blocks : PumpSwap!Items(blocks) = Items(blocks)
  /\ \A s, wanted : PumpSwap!Kept(s, wanted) = Kept(s, wanted)
  /\ \A it, index, side : PumpSwap!TransactionRow(it, index, side) = TransactionRow(it, index, side)
  /\ \A it, name, addr : PumpSwap!LiquidityRow(it, name, addr) = LiquidityRow(it, name, addr)
  /\ \A it, addr, tokens : PumpSwap!PoolRow(it, addr, tokens) = PoolRow(it, addr, tokens)
<1>1. \A ss : PumpSwap!FlattenSeq(ss) = FlattenSeq(ss)
  BY Zenon DEF PumpSwap!FlattenSeq, FlattenSeq
<1>2. PumpSwap!Tables = Tables /\ PumpSwap!NoRows = NoRows
  BY DEF PumpSwap!Tables, PumpSwap!NoRows, Tables, NoRows
<1>3. \A t, row : PumpSwap!Only(t, row) = Only(t, row)
  BY <1>2 DEF PumpSwap!Only, Only
<1>4. \A all : PumpSwap!Merge(all) = Merge(all)
  BY <1>1, <1>2 DEF PumpSwap!Merge, Merge
<1>5. \A c, d : PumpSwap!When(c, d) = When(c, d)
  BY <1>2 DEF PumpSwap!When, When
<1>6. \A blocks : PumpSwap!Items(blocks) = Items(blocks)
  BY <1>1 DEF PumpSwap!Items, Items
<1>7. \A s, wanted : PumpSwap!Kept(s, wanted) = Kept(s, wanted)
  BY <1>1 DEF PumpSwap!Kept, Kept
<1> QED
  BY <1>2, <1>3, <1>4, <1>5, <1>6, <1>7, Zenon
     DEF PumpSwap!TransactionRow, PumpSwap!LiquidityRow, PumpSwap!PoolRow,
         TransactionRow, LiquidityRow, PoolRow

LEMMA PumpSwapOf ==
  ASSUME NEW S, NEW blocks, BlocksOf(blocks, S)
  PROVE  DataOf(PumpSwap!ExtractDexData(blocks), S)
<1> DEFINE all == EventItems(blocks)
           mine(it) == it.ev.sig \in PumpSwap!Discriminators
           parts == [i \in DOMAIN all |-> When(mine(all[i]), PumpSwap!ParseEvent(all[i]))]
<1>1. ASSUME NEW it, ItemOf(it, S), mine(it)
      PROVE  DataOf(PumpSwap!ParseEvent(it), S)
  <2>1. /\ DataOf(PumpSwap!parseBuyEvent(it), S) /\ DataOf(PumpSwap!parseSellEvent(it), S)
        /\ DataOf(PumpSwap!parseCreatePoolEvent(it), S)
        /\ DataOf(PumpSwap!parseDepositEvent(it), S)
        /\ DataOf(PumpSwap!parseWithdrawEvent(it), S)
    BY <1>1, RowsAreOf, WhenOf, PumpSwapRows
       DEF PumpSwap!parseBuyEvent, PumpSwap!parseSellEvent, PumpSwap!parseCreatePoolEvent,
           PumpSwap!parseDepositEvent, PumpSwap!parseWithdrawEvent
  <2>2. it.ev.sig \in {"Buy", "Sell", "CreatePool", "Deposit", "Withdraw"}
    BY <1>1 DEF PumpSwap!Discriminators
  <2> QED
    BY <2>1, <2>2 DEF PumpSwap!ParseEvent
<1>2. PumpSwap!ExtractDexData(blocks) = Merge(parts)
  <2>1. PumpSwap!EventItems(blocks) = EventItems(blocks)
    BY PumpSwapRows, Zenon
       DEF PumpSwap!EventItems, EventItems, PumpSwap!ExtractSolanaEventData, ExtractSolanaEventData, PumpSwap!ToSet, ToSet
  <2> QED
    BY <2>1, PumpSwapRows DEF PumpSwap!ExtractDexData
<1>3. /\ Len(all) \in Nat /\ DOMAIN all = 1..Len(all)
      /\ \A i \in DOMAIN all : ItemOf(all[i], S)
  <2> HIDE DEF all
  <2>1. IsList(all) /\ \A it \in ToSet(all) : ItemOf(it, S)
    BY EventItemsAreOf DEF all
  <2> QED
    BY <2>1, ListTyped
<1> HIDE DEF all
<1>4. /\ parts = [i \in 1..Len(all) |-> parts[i]]
      /\ \A i \in 1..Len(all) : parts[i] = When(mine(all[i]), PumpSwap!ParseEvent(all[i]))
  BY <1>3
<1> HIDE DEF parts, mine
<1>5. \A i \in 1..Len(all) : DataOf(parts[i], S)
  BY <1>1, <1>3, <1>4, WhenOf
<1> QED
  BY <1>2, <1>3, <1>4, <1>5, MergeOf

LEMMA UniswapRows ==
  /\ Uniswap!NoRows = NoRows
  /\ \A all : Uniswap!Merge(all) = Merge(all)
  /\ \A c, d : Uniswap!When(c, d) = When(c, d)
  /\ \A blocks : Uniswap!Items(blocks) = Items(blocks)
  /\ \A s, wanted : Uniswap!Kept(s, wanted) = Kept(s, wanted)
  /\ \A it, index, side : Uniswap!TransactionRow(it, index, side) = TransactionRow(it, index, side)
  /\ \A it, name, addr : Uniswap!LiquidityRow(it, name, addr) = LiquidityRow(it, name, addr)
  /\ \A it, addr, tokens : Uniswap!PoolRow(it, addr, tokens) = PoolRow(it, addr, tokens)
  /\ \A it, addr : Uniswap!TokenRow(it, addr) = TokenRow(it, addr)
  /\ \A it, addr : Uniswap!ReserveRow(it, addr) = ReserveRow(it, addr)
<1>1. \A ss : Uniswap!FlattenSeq(ss) = FlattenSeq(ss)
  BY Zenon DEF Uniswap!FlattenSeq, FlattenSeq
<1>2. Uniswap!Tables = Tables /\ Uniswap!NoRows = NoRows
  BY DEF Uniswap!Tables, Uniswap!NoRows, Tables, NoRows
<1>3. \A t, row : Uniswap!Only(t, row) = Only(t, row)
  BY <1>2 DEF Uniswap!Only, Only
<1>4. \A all : Uniswap!Merge(all) = Merge(all)
  BY <1>1, <1>2 DEF Uniswap!Merge, Merge
<1>5. \A c, d : Uniswap!When(c, d) = When(c, d)
  BY <1>2 DEF Uniswap!When, When
<1>6. \A blocks : Uniswap!Items(blocks) = Items(blocks)
  BY <1>1 DEF Uniswap!Items, Items
<1>7. \A s, wanted : Uniswap!Kept(s, wanted) = Kept(s, wanted)
  BY <1>1 DEF Uniswap!Kept, Kept
<1> QED
  BY <1>2, <1>3, <1>4, <1>5, <1>6, <1>7, Zenon
     DEF Uniswap!TransactionRow, Uniswap!LiquidityRow, Uniswap!PoolRow, Uniswap!TokenRow, Uniswap!ReserveRow,
         TransactionRow, LiquidityRow, PoolRow, TokenRow, ReserveRow

LEMMA MergeConcatOf ==
  ASSUME NEW S, NEW s, NEW t, IsList(s), IsList(t),
         \A d \in ToSet(s) \cup ToSet(t) : DataOf(d, S)
  PROVE  DataOf(Merge(s \o t), S)
<1> DEFINE R == ToSet(s) \cup ToSet(t)
           u == s \o t
<1>1. s \in Seq(R) /\ t \in Seq(R)
  BY SeqMonotonic DEF IsList
<1> HIDE DEF R
<1>2. u \in Seq(R)
  BY <1>1, ConcatProperties
<1> HIDE DEF u
<1>3. Len(u) \in Nat /\ u \in [1..Len(u) -> R]
  BY <1>2, LenProperties
<1>4. u = [i \in 1..Len(u) |-> u[i]] /\ \A i \in 1..Len(u) : DataOf(u[i], S)
  BY <1>3 DEF R
<1>5. DataOf(Merge(u), S)
  BY <1>3, <1>4, MergeOf
<1> QED
  BY <1>5 DEF u

LEMMA CreationOf ==
  ASSUME NEW S, NEW it, ItemOf(it, S), NEW mem, NEW c
  PROVE  DataOf(Uniswap!CreationStep(mem, it, c).rows, S)
<1> DEFINE new == Kept(it.ev.tokens, ToSet(it.ev.tokens) \ mem.tokens)
           pool == <<PoolRow(it, it.ev.pool, it.ev.tokens)>>
           tokens == [i \in DOMAIN new |-> TokenRow(it, new[i])]
           R == {tokens[i] : i \in DOMAIN new}
<1>1. Uniswap!CreationStep(mem, it, c).rows = IF ~c THEN NoRows ELSE Merge(pool \o tokens)
  <2>1. \A s : Uniswap!ToSet(s) = ToSet(s)
    BY DEF Uniswap!ToSet, ToSet
  <2> QED
    BY <2>1, UniswapRows DEF Uniswap!CreationStep, Uniswap!Made
<1>2. IsList(pool) /\ \A d \in ToSet(pool) : DataOf(d, S)
  <2> DEFINE row == PoolRow(it, it.ev.pool, it.ev.tokens)
  <2>1. DataOf(row, S)
    BY RowsAreOf
  <2> HIDE DEF row
  <2>2. IsList(<<row>>) /\ \A d \in ToSet(<<row>>) : DataOf(d, S)
    BY <2>1, SingleList
  <2> QED
    BY <2>2 DEF row
<1>3. Len(new) \in Nat /\ DOMAIN new = 1..Len(new)
  <2> IsList(new)
    BY KeptOf DEF ItemOf
  <2> HIDE DEF new
  <2> QED
    BY ListTyped
<1> HIDE DEF new
<1>4. tokens \in [1..Len(new) -> R] /\ \A d \in R : DataOf(d, S)
  BY <1>3, RowsAreOf
<1> HIDE DEF tokens, R, pool
<1>5. IsList(tokens) /\ ToSet(tokens) \subseteq R
  BY <1>3, <1>4, ListFrom, SeqIsList
<1>6. DataOf(Merge(pool \o tokens), S)
  BY <1>2, <1>4, <1>5, MergeConcatOf
<1> QED
  BY <1>1, <1>6, NoRowsOf

LEMMA LogOf ==
  ASSUME NEW S, NEW it, ItemOf(it, S), NEW mem
  PROVE  DataOf(Uniswap!ParseLog(mem, it).rows, S)
<1>1. /\ \A c, index, side : DataOf(When(c, TransactionRow(it, index, side)), S)
      /\ \A c, name, addr : DataOf(When(c, LiquidityRow(it, name, addr)), S)
      /\ \A c, addr, tokens : DataOf(When(c, PoolRow(it, addr, tokens)), S)
      /\ \A c, addr : DataOf(When(c, ReserveRow(it, addr)), S)
  BY RowsAreOf, WhenOf
<1>2. /\ DataOf(Uniswap!parseV2Swap(mem, it), S) /\ DataOf(Uniswap!parseV3Swap(mem, it), S)
      /\ DataOf(Uniswap!parseV3Reserve(it), S) /\ DataOf(Uniswap!parseSync(it), S)
      /\ DataOf(Uniswap!parseLiquidity(it, "add"), S)
      /\ DataOf(Uniswap!parseLiquidity(it, "remove"), S)
      /\ DataOf(Uniswap!lazyPool(mem, it), S)
  BY <1>1, UniswapRows
     DEF Uniswap!parseV2Swap, Uniswap!parseV3Swap, Uniswap!parseV3Reserve, Uniswap!parseSync,
         Uniswap!parseLiquidity, Uniswap!lazyPool
<1>3. ASSUME NEW d, DataOf(d, S) PROVE DataOf(Uniswap!SwapStep(mem, it, d).rows, S)
  <2>1. Uniswap!SwapStep(mem, it, d).rows = Merge(<<d, Uniswap!lazyPool(mem, it)>>)
    BY UniswapRows DEF Uniswap!SwapStep, Uniswap!Made
  <2> QED
    BY <2>1, <1>2, <1>3, MergePairOf
<1>4. \A d, m : Uniswap!Made(d, m).rows = d
  BY DEF Uniswap!Made
<1>5. DataOf(Uniswap!Merge(<<Uniswap!parseV3Swap(mem, it), Uniswap!parseV3Reserve(it)>>), S)
  <2> DEFINE a == Uniswap!parseV3Swap(mem, it)
             b == Uniswap!parseV3Reserve(it)
  <2>1. DataOf(a, S) /\ DataOf(b, S)
    BY <1>2
  <2> HIDE DEF a, b
  <2>2. DataOf(Merge(<<a, b>>), S)
    BY <2>1, MergePairOf
  <2> QED
    BY <2>2, UniswapRows DEF a, b
<1>6. CASE ~Uniswap!isUniswapLog(it.ev)
  BY <1>4, <1>6, NoRowsOf, UniswapRows DEF Uniswap!ParseLog
<1>7. CASE Uniswap!isUniswapLog(it.ev)
  <2>1. Uniswap!getLogType[it.ev.sig]
          \in {"swap_v2", "swap_v3", "mint", "burn", "sync", "pair_created", "pool_created"}
    BY <1>7 DEF Uniswap!isUniswapLog, Uniswap!getLogType
  <2>2. /\ DataOf(Uniswap!SwapStep(mem, it, Uniswap!parseV2Swap(mem, it)).rows, S)
        /\ DataOf(Uniswap!SwapStep(mem, it,
                   Uniswap!Merge(<<Uniswap!parseV3Swap(mem, it),
                                   Uniswap!parseV3Reserve(it)>>)).rows, S)
    BY <1>2, <1>3, <1>5
  <2>3. \A c : DataOf(Uniswap!CreationStep(mem, it, c).rows, S)
    BY CreationOf
  <2> QED
    BY <1>2, <1>4, <1>7, <2>1, <2>2, <2>3 DEF Uniswap!ParseLog
<1> QED
  BY <1>6, <1>7

LEMMA UniswapOf ==
  ASSUME NEW S, NEW mem, NEW blocks, BlocksOf(blocks, S)
  PROVE  DataOf(Uniswap!ExtractDexData(mem, blocks).rows, S)
<1> DEFINE all == Items(blocks)
           parts(f) == [i \in DOMAIN all |-> Uniswap!ParseLog(f[i], all[i]).rows]
<1>1. \E f : Uniswap!ExtractDexData(mem, blocks).rows = Merge(parts(f))
  <2> DEFINE these == Uniswap!Items(blocks)
             before[i \in 1..(Len(these) + 1)] ==
               IF i = 1 THEN mem ELSE Uniswap!ParseLog(before[i - 1], these[i - 1]).mem
             data == Uniswap!Merge([i \in DOMAIN these |->
                                      Uniswap!ParseLog(before[i], these[i]).rows])
  <2>1. Uniswap!ExtractDexData(mem, blocks) = Uniswap!Made(data, before[Len(these) + 1])
    BY Zenon DEF Uniswap!ExtractDexData
  <2>2. \A d, m : Uniswap!Made(d, m).rows = d
    BY DEF Uniswap!Made
  <2> HIDE DEF before
  <2>3. data = Merge(parts(before))
    BY UniswapRows
  <2> HIDE DEF data, parts, these
  <2> QED
    BY <2>1, <2>2, <2>3
<1>2. PICK f : Uniswap!ExtractDexData(mem, blocks).rows = Merge(parts(f))
  BY <1>1
<1>3. /\ Len(all) \in Nat /\ DOMAIN all = 1..Len(all)
      /\ \A i \in DOMAIN all : ItemOf(all[i], S)
  <2> HIDE DEF all
  <2>1. IsList(all) /\ \A it \in ToSet(all) : ItemOf(it, S)
    BY ItemsAreOf DEF all
  <2> QED
    BY <2>1, ListTyped
<1> HIDE DEF all
<1>4. /\ parts(f) = [i \in 1..Len(all) |-> parts(f)[i]]
      /\ \A i \in 1..Len(all) : parts(f)[i] = Uniswap!ParseLog(f[i], all[i]).rows
  BY <1>3
<1> HIDE DEF parts
<1>5. \A i \in 1..Len(all) : DataOf(parts(f)[i], S)
  BY <1>3, <1>4, LogOf
<1> QED
  BY <1>2, <1>3, <1>4, <1>5, MergeOf

-----------------------------------------------------------------------------
(* The processors.  A block as fetched comes from a block of the chain, and *)
(* its transactions from that block's; exact: with the block's own number. *)

ChainOf(blocks) ==
  /\ IsList(blocks)
  /\ \A b \in ToSet(blocks) :
       /\ {"number", "hash", "time", "txs"} \subseteq DOMAIN b
       /\ IsList(b.txs)
       /\ \A tx \in ToSet(b.txs) :
            IsList(tx.events) /\ \A e \in ToSet(tx.events) : IsList(e.tokens)

TxFrom(t, b, number) ==
  /\ {"hash", "number", "time", "events"} \subseteq DOMAIN t
  /\ t.number = number
  /\ \E tx \in ToSet(b.txs) : t.hash = tx.hash /\ t.events = tx.events

BlockFrom(f, b, exact) ==
  /\ f.hash = b.hash /\ (exact => f.number = b.number)
  /\ "txs" \in DOMAIN f /\ IsList(f.txs)
  /\ \A t \in ToSet(f.txs) : TxFrom(t, b, f.number)

FetchedFrom(fs, blocks, exact) ==
  IsList(fs) /\ \A f \in ToSet(fs) : \E b \in ToSet(blocks) : BlockFrom(f, b, exact)

LEMMA NodesFlatten == \A ss : Nodes!FlattenSeq(ss) = FlattenSeq(ss)
BY Zenon DEF Nodes!FlattenSeq, FlattenSeq

\* A loop over s appends nothing or one item at a time.
Appends(s, ss, g) ==
  /\ ss = [i \in DOMAIN s |-> ss[i]]
  /\ \A i \in DOMAIN s : ss[i] = <<>> \/ ss[i] = <<g[i]>>

LEMMA LoopFrom ==
  ASSUME NEW s, IsList(s), NEW ss, NEW g, Appends(s, ss, g)
  PROVE  /\ IsList(FlattenSeq(ss))
         /\ \A x \in ToSet(FlattenSeq(ss)) : \E i \in DOMAIN s : x = g[i]
<1>1. Len(s) \in Nat /\ DOMAIN s = 1..Len(s)
  BY ListTyped
<1>2. ASSUME NEW i \in 1..Len(s)
      PROVE  IsList(ss[i]) /\ \A x \in ToSet(ss[i]) : x = g[i]
  <2>1. CASE ss[i] = <<>>
    BY <2>1, EmptyList
  <2>2. CASE ss[i] = <<g[i]>>
    BY <2>2, SingleList
  <2> QED
    BY <1>1, <2>1, <2>2 DEF Appends
<1>3. ss = [i \in 1..Len(s) |-> ss[i]]
  BY <1>1 DEF Appends
<1> QED
  BY <1>1, <1>2, <1>3, FlattenParts

\* The transactions of a list that a processor converts, some left out.
LEMMA TxsFrom ==
  ASSUME NEW b, NEW s, IsList(s), NEW out,
         NEW txs, txs = Nodes!FlattenSeq([i \in DOMAIN s |->
                          Nodes!Unless(out[i], Nodes!Unified(b, s[i]))])
  PROVE  IsList(txs) /\ \A t \in ToSet(txs) : \E tx \in ToSet(s) : t = Nodes!Unified(b, tx)
<1> DEFINE g == [i \in DOMAIN s |-> Nodes!Unified(b, s[i])]
           ss == [i \in DOMAIN s |-> Nodes!Unless(out[i], Nodes!Unified(b, s[i]))]
<1>1. txs = FlattenSeq(ss)
  BY NodesFlatten
<1>2. Appends(s, ss, g) /\ \A i \in DOMAIN s : g[i] = Nodes!Unified(b, s[i])
  BY DEF Nodes!Unless, Appends
<1> HIDE DEF g, ss
<1>3. IsList(FlattenSeq(ss)) /\ \A x \in ToSet(FlattenSeq(ss)) : \E i \in DOMAIN s : x = g[i]
  BY <1>2, LoopFrom
<1>4. \A i \in DOMAIN s : s[i] \in ToSet(s)
  BY ListTyped
<1>5. \A t \in ToSet(FlattenSeq(ss)) : \E tx \in ToSet(s) : t = Nodes!Unified(b, tx)
  BY <1>2, <1>3, <1>4
<1> QED
  BY <1>1, <1>3, <1>5

LEMMA WithTxsFrom ==
  ASSUME NEW b, NEW of, b.hash = of.hash, NEW exact, exact => b.number = of.number,
         NEW txs, IsList(txs),
         \A t \in ToSet(txs) : \E tx \in ToSet(of.txs) : t = Nodes!Unified(b, tx)
  PROVE  BlockFrom(Nodes!WithTxs(b, txs), of, exact)
<1> DEFINE f == Nodes!WithTxs(b, txs)
<1>1. "txs" \in DOMAIN f /\ f.hash = b.hash /\ f.number = b.number /\ f.txs = txs
  BY DEF Nodes!WithTxs
<1>2. \A tx : LET t == Nodes!Unified(b, tx)
              IN /\ {"hash", "number", "time", "events"} \subseteq DOMAIN t
                 /\ t.number = b.number /\ t.hash = tx.hash /\ t.events = tx.events
  BY DEF Nodes!Unified
<1> HIDE DEF f
<1>3. \A t \in ToSet(f.txs) : TxFrom(t, of, f.number)
  BY <1>1, <1>2 DEF TxFrom
<1> QED
  BY <1>1, <1>3 DEF BlockFrom, f

LEMMA AskedFrom ==
  ASSUME NEW S, NEW s \in Seq(S), NEW m \in Nat \ {0}, NEW n \in Nat, n <= Len(s)
  PROVE  IsList(SubSeq(s, m, n)) /\ ToSet(SubSeq(s, m, n)) \subseteq ToSet(s)
<1>1. IsList(s) /\ Len(s) \in Nat /\ DOMAIN s = 1..Len(s)
  BY SeqIsList, ListTyped
<1>2. \A i \in m..n : s[i] \in ToSet(s)
  BY <1>1, ListTyped
<1>3. SubSeq(s, m, n) \in Seq(ToSet(s))
  BY <1>2, SubSeqProperties
<1> QED
  BY <1>3, SeqIsList

\* The blocks of a range, some left out: got[i] is what is made of the i-th.
LEMMA RangeFrom ==
  ASSUME NEW blocks, NEW asked, IsList(asked), ToSet(asked) \subseteq ToSet(blocks),
         NEW exact, NEW got, \A i \in DOMAIN asked : BlockFrom(got[i], asked[i], exact),
         NEW ss, Appends(asked, ss, got)
  PROVE  FetchedFrom(Nodes!FlattenSeq(ss), blocks, exact)
<1>1. \A i \in DOMAIN asked : asked[i] \in ToSet(blocks)
  BY ListTyped
<1>2. /\ IsList(FlattenSeq(ss))
      /\ \A x \in ToSet(FlattenSeq(ss)) : \E i \in DOMAIN asked : x = got[i]
  BY LoopFrom
<1>3. FetchedFrom(FlattenSeq(ss), blocks, exact)
  BY <1>1, <1>2 DEF FetchedFrom
<1> QED
  BY <1>3, NodesFlatten

LEMMA EthereumBlockFrom ==
  ASSUME NEW b, IsList(b.txs), NEW lost
  PROVE  BlockFrom(Nodes!EthereumGetBlock(b, lost), b, TRUE)
<1> DEFINE out == [i \in DOMAIN b.txs |-> b.txs[i].hash \in lost]
           txs == Nodes!EthereumTransactions(b, lost)
<1>1. txs = Nodes!FlattenSeq([i \in DOMAIN b.txs |->
                Nodes!Unless(out[i], Nodes!Unified(b, b.txs[i]))])
  BY DEF Nodes!EthereumTransactions
<1> HIDE DEF txs, out
<1>2. IsList(txs) /\ \A t \in ToSet(txs) : \E tx \in ToSet(b.txs) : t = Nodes!Unified(b, tx)
  BY <1>1, TxsFrom
<1>3. BlockFrom(Nodes!WithTxs(b, txs), b, TRUE)
  BY <1>2, WithTxsFrom
<1> QED
  BY <1>3 DEF Nodes!EthereumGetBlock, txs

LEMMA BscBlockFrom ==
  ASSUME NEW b, IsList(b.txs), {"number", "hash", "time", "txs"} \subseteq DOMAIN b, NEW lost
  PROVE  BlockFrom(Nodes!BscGetBlock(b, lost), b, TRUE)
<1> DEFINE c == Nodes!BscBlockWithRetry(b)
           n == IF Len(c.txs) > MaxTxPerBlock THEN MaxTxPerBlock ELSE Len(c.txs)
           asked == SubSeq(c.txs, 1, n)
           out == [i \in DOMAIN asked |-> asked[i].hash \in lost]
           txs == Nodes!BscTransactions(c, lost)
<1>1. c = b \/ c = [b EXCEPT !.txs = <<>>]
  BY DEF Nodes!BscBlockWithRetry
<1>2. /\ c.number = b.number /\ c.time = b.time
      /\ IsList(c.txs) /\ ToSet(c.txs) \subseteq ToSet(b.txs)
  <2>1. /\ c.txs = b.txs \/ c.txs = <<>>
        /\ c.number = b.number /\ c.time = b.time
    BY <1>1
  <2> HIDE DEF c
  <2> QED
    BY <2>1, EmptyList
<1>3. txs = Nodes!FlattenSeq([i \in DOMAIN asked |->
                Nodes!Unless(out[i], Nodes!Unified(c, asked[i]))])
  BY DEF Nodes!BscTransactions
<1> HIDE DEF txs, out, c
<1>4. n \in Nat /\ n <= Len(c.txs) /\ c.txs \in Seq(ToSet(c.txs))
  BY <1>2, ListTyped, CutAssumption DEF IsList
<1> HIDE DEF n
<1>5. IsList(asked) /\ ToSet(asked) \subseteq ToSet(c.txs)
  BY <1>4, AskedFrom
<1> HIDE DEF asked
<1>6. IsList(txs) /\ \A t \in ToSet(txs) : \E tx \in ToSet(asked) : t = Nodes!Unified(c, tx)
  BY <1>3, <1>5, TxsFrom
<1>7. \A tx : Nodes!Unified(c, tx) = Nodes!Unified(b, tx)
  BY <1>2 DEF Nodes!Unified
<1>8. BlockFrom(Nodes!WithTxs(b, txs), b, TRUE)
  <2>1. \A t \in ToSet(txs) : \E tx \in ToSet(b.txs) : t = Nodes!Unified(b, tx)
    BY <1>2, <1>5, <1>6, <1>7
  <2> QED
    BY <1>6, <2>1, WithTxsFrom
<1>9. Nodes!BscGetBlock(b, lost) = Nodes!WithTxs(b, txs)
  BY Zenon DEF Nodes!BscGetBlock, txs, c
<1> QED
  BY <1>8, <1>9

LEMMA SolanaBlockFrom ==
  ASSUME NEW b, IsList(b.txs)
  PROVE  BlockFrom(Nodes!SolanaGetBlock(b), b, TRUE)
<1> DEFINE out == [i \in DOMAIN b.txs |-> ~b.txs[i].ok]
           txs == Nodes!SolanaBlockTransactions(b)
<1>1. txs = Nodes!FlattenSeq([i \in DOMAIN b.txs |->
                Nodes!Unless(out[i], Nodes!Unified(b, b.txs[i]))])
  BY DEF Nodes!SolanaBlockTransactions
<1> HIDE DEF txs, out
<1>2. IsList(txs) /\ \A t \in ToSet(txs) : \E tx \in ToSet(b.txs) : t = Nodes!Unified(b, tx)
  BY <1>1, TxsFrom
<1>3. BlockFrom(Nodes!WithTxs(b, txs), b, TRUE)
  BY <1>2, WithTxsFrom
<1> QED
  BY <1>3 DEF Nodes!SolanaGetBlock, txs

LEMMA SuiBlockFrom ==
  ASSUME NEW b, IsList(b.txs), {"number", "hash", "time", "txs"} \subseteq DOMAIN b,
         NEW counter, NEW lost
  PROVE  BlockFrom(Nodes!SuiGetBlock(b, counter, lost), b, FALSE)
<1> DEFINE c == [b EXCEPT !.number = counter]
           out == [i \in DOMAIN c.txs |-> c.txs[i].hash \in lost]
           txs == Nodes!SuiTransactionDetails(c, lost)
<1>1. c.hash = b.hash /\ c.txs = b.txs
  OBVIOUS
<1>2. txs = Nodes!FlattenSeq([i \in DOMAIN c.txs |->
                Nodes!Unless(out[i], Nodes!Unified(c, c.txs[i]))])
  BY DEF Nodes!SuiTransactionDetails
<1> HIDE DEF txs, out, c
<1>3. IsList(c.txs)
  BY <1>1
<1>4. IsList(txs) /\ \A t \in ToSet(txs) : \E tx \in ToSet(c.txs) : t = Nodes!Unified(c, tx)
  BY <1>2, <1>3, TxsFrom
<1>5. BlockFrom(Nodes!WithTxs(c, txs), b, FALSE)
  BY <1>1, <1>4, WithTxsFrom
<1> QED
  BY <1>5 DEF Nodes!SuiGetBlock, txs, c

LEMMA EthereumFrom ==
  ASSUME NEW blocks, ChainOf(blocks), NEW from \in Nat \ {0}, NEW end \in Nat,
         end <= Len(blocks), NEW lost
  PROVE  FetchedFrom(Nodes!EthereumGetBlocksByRange(blocks, from, end, lost), blocks, TRUE)
<1> DEFINE asked == SubSeq(blocks, from, end)
           got == [i \in DOMAIN asked |-> Nodes!EthereumGetBlock(asked[i], lost)]
           ss == [i \in DOMAIN asked |-> Nodes!Unless(asked[i].hash \in lost, got[i])]
<1>1. IsList(asked) /\ ToSet(asked) \subseteq ToSet(blocks)
  BY AskedFrom DEF ChainOf, IsList
<1>2. Nodes!EthereumGetBlocksByRange(blocks, from, end, lost) = Nodes!FlattenSeq(ss)
  BY DEF Nodes!EthereumGetBlocksByRange
<1> HIDE DEF asked
<1>3. Appends(asked, ss, got)
  BY DEF Nodes!Unless, Appends
<1>4. \A i \in DOMAIN asked : got[i] = Nodes!EthereumGetBlock(asked[i], lost)
  OBVIOUS
<1> HIDE DEF got, ss
<1>5. \A i \in DOMAIN asked : asked[i] \in ToSet(blocks)
  BY <1>1, ListTyped
<1>6. \A i \in DOMAIN asked : BlockFrom(got[i], asked[i], TRUE)
  BY <1>4, <1>5, EthereumBlockFrom DEF ChainOf
<1> QED
  BY <1>1, <1>2, <1>3, <1>6, RangeFrom

LEMMA BscFrom ==
  ASSUME NEW blocks, ChainOf(blocks), NEW from \in Nat \ {0}, NEW end \in Nat,
         end <= Len(blocks), NEW lost
  PROVE  FetchedFrom(Nodes!BscGetBlocksByRange(blocks, from, end, lost), blocks, TRUE)
<1> DEFINE asked == SubSeq(blocks, from, end)
           got == [i \in DOMAIN asked |-> Nodes!BscGetBlock(asked[i], lost)]
           ss == [i \in DOMAIN asked |-> Nodes!Unless(asked[i].hash \in lost, got[i])]
<1>1. IsList(asked) /\ ToSet(asked) \subseteq ToSet(blocks)
  BY AskedFrom DEF ChainOf, IsList
<1>2. Nodes!BscGetBlocksByRange(blocks, from, end, lost) = Nodes!FlattenSeq(ss)
  BY DEF Nodes!BscGetBlocksByRange
<1> HIDE DEF asked
<1>3. Appends(asked, ss, got)
  BY DEF Nodes!Unless, Appends
<1>4. \A i \in DOMAIN asked : got[i] = Nodes!BscGetBlock(asked[i], lost)
  OBVIOUS
<1> HIDE DEF got, ss
<1>5. \A i \in DOMAIN asked : asked[i] \in ToSet(blocks)
  BY <1>1, ListTyped
<1>6. \A i \in DOMAIN asked : BlockFrom(got[i], asked[i], TRUE)
  BY <1>4, <1>5, BscBlockFrom DEF ChainOf
<1> QED
  BY <1>1, <1>2, <1>3, <1>6, RangeFrom

LEMMA SolanaFrom ==
  ASSUME NEW blocks, ChainOf(blocks), NEW from \in Nat \ {0}, NEW end \in Nat,
         end <= Len(blocks), NEW lost
  PROVE  FetchedFrom(Nodes!SolanaGetBlocksByRange(blocks, from, end, lost), blocks, TRUE)
<1> DEFINE asked == SubSeq(blocks, from, end)
           got == [i \in DOMAIN asked |-> Nodes!SolanaGetBlock(asked[i])]
           ss == [i \in DOMAIN asked |-> Nodes!Unless(asked[i].hash \in lost \/ asked[i].skipped, got[i])]
<1>1. IsList(asked) /\ ToSet(asked) \subseteq ToSet(blocks)
  BY AskedFrom DEF ChainOf, IsList
<1>2. Nodes!SolanaGetBlocksByRange(blocks, from, end, lost) = Nodes!FlattenSeq(ss)
  BY DEF Nodes!SolanaGetBlocksByRange
<1> HIDE DEF asked
<1>3. Appends(asked, ss, got)
  BY DEF Nodes!Unless, Appends
<1>4. \A i \in DOMAIN asked : got[i] = Nodes!SolanaGetBlock(asked[i])
  OBVIOUS
<1> HIDE DEF got, ss
<1>5. \A i \in DOMAIN asked : asked[i] \in ToSet(blocks)
  BY <1>1, ListTyped
<1>6. \A i \in DOMAIN asked : BlockFrom(got[i], asked[i], TRUE)
  BY <1>4, <1>5, SolanaBlockFrom DEF ChainOf
<1> QED
  BY <1>1, <1>2, <1>3, <1>6, RangeFrom

LEMMA SuiFrom ==
  ASSUME NEW blocks, ChainOf(blocks), NEW from \in Nat \ {0}, NEW end \in Nat,
         end <= Len(blocks), NEW lost
  PROVE  FetchedFrom(Nodes!SuiGetBlocksByRange(blocks, from, end, lost), blocks, FALSE)
<1> DEFINE asked == SubSeq(blocks, from, end)
           got == [i \in DOMAIN asked |-> Nodes!SuiGetBlock(asked[i], end + 1, lost)]
           ss == [i \in DOMAIN asked |-> Nodes!Unless(asked[i].hash \in lost, got[i])]
<1>1. IsList(asked) /\ ToSet(asked) \subseteq ToSet(blocks)
  BY AskedFrom DEF ChainOf, IsList
<1>2. Nodes!SuiGetBlocksByRange(blocks, from, end, lost) = Nodes!FlattenSeq(ss)
  BY DEF Nodes!SuiGetBlocksByRange
<1> HIDE DEF asked
<1>3. Appends(asked, ss, got)
  BY DEF Nodes!Unless, Appends
<1>4. \A i \in DOMAIN asked : got[i] = Nodes!SuiGetBlock(asked[i], end + 1, lost)
  OBVIOUS
<1> HIDE DEF got, ss
<1>5. \A i \in DOMAIN asked : asked[i] \in ToSet(blocks)
  BY <1>1, ListTyped
<1>6. \A i \in DOMAIN asked : BlockFrom(got[i], asked[i], FALSE)
  BY <1>4, <1>5, SuiBlockFrom DEF ChainOf
<1> QED
  BY <1>1, <1>2, <1>3, <1>6, RangeFrom

LEMMA ChainsTyped ==
  ASSUME NEW c \in DOMAIN Blockchain
  PROVE  ChainOf(Blockchain[c])
BY BlockchainAssumption DEF ChainOf

LEMMA GetFrom ==
  ASSUME NEW c \in DOMAIN Blockchain, NEW from \in Nat \ {0}, NEW end \in Nat,
         end <= Len(Blockchain[c]), NEW lost
  PROVE  FetchedFrom(GetBlocksByRange(c, from, end, lost), Blockchain[c], c # "sui")
<1> DEFINE blocks == Blockchain[c]
<1>1. ChainOf(blocks)
  BY ChainsTyped
<1>2. c \in {"ethereum", "bsc", "solana", "sui"}
  BY SetupsAssumption
<1>3. CASE c = "ethereum"
  <2>1. GetBlocksByRange(c, from, end, lost)
          = Nodes!EthereumGetBlocksByRange(blocks, from, end, lost)
    BY <1>3 DEF GetBlocksByRange
  <2> QED
    BY <1>1, <1>3, <2>1, EthereumFrom
<1>4. CASE c = "bsc"
  <2>1. GetBlocksByRange(c, from, end, lost) = Nodes!BscGetBlocksByRange(blocks, from, end, lost)
    BY <1>4 DEF GetBlocksByRange
  <2> QED
    BY <1>1, <1>4, <2>1, BscFrom
<1>5. CASE c = "solana"
  <2>1. GetBlocksByRange(c, from, end, lost)
          = Nodes!SolanaGetBlocksByRange(blocks, from, end, lost)
    BY <1>5 DEF GetBlocksByRange
  <2> QED
    BY <1>1, <1>5, <2>1, SolanaFrom
<1>6. CASE c = "sui"
  <2>1. GetBlocksByRange(c, from, end, lost) = Nodes!SuiGetBlocksByRange(blocks, from, end, lost)
    BY <1>6 DEF GetBlocksByRange
  <2> QED
    BY <1>1, <1>6, <2>1, SuiFrom
<1> QED
  BY <1>2, <1>3, <1>4, <1>5, <1>6

-----------------------------------------------------------------------------
(* The tables.                                                             *)

\* A table after a write has rows of before, and rows that were written.
TableFrom(new, old, written) ==
  \A k \in DOMAIN new :
    \/ k \in DOMAIN old /\ new[k] = old[k]
    \/ \E r \in ToSet(written) : r.key = k /\ new[k] = r

\* A list has a first and a last row of each of its keys.
LEMMA PlacesBounded ==
  ASSUME NEW written, IsList(written), NEW k \in Keys(written)
  PROVE  /\ Max(Places(written, k)) \in Places(written, k)
         /\ Min(Places(written, k)) \in Places(written, k)
<1> DEFINE P == Places(written, k)
           n == Len(written)
           Q == {n - i : i \in P}
<1>1. n \in Nat /\ DOMAIN written = 1..n
  BY ListTyped
<1>2. P # {} /\ P \in SUBSET Nat /\ \A i \in P : i <= n
  BY <1>1 DEF Keys, Places
<1> HIDE DEF P, n
<1>3. Q # {} /\ Q \in SUBSET Nat
  BY <1>1, <1>2
<1>4. PICK i \in P : \A j \in P : i <= j
  BY <1>2, LeastNatural
<1>5. PICK q \in Q : \A p \in Q : q <= p
  BY <1>3, LeastNatural
<1>6. PICK l \in P : q = n - l
  OBVIOUS
<1>7. \A j \in P : l >= j
  <2> TAKE j \in P
  <2>1. q <= n - j
    BY <1>5
  <2> QED
    BY <1>1, <1>2, <1>6, <2>1
<1>8. Max(P) \in P
  BY <1>7 DEF Max
<1>9. Min(P) \in P
  BY <1>4 DEF Min
<1> QED
  BY <1>8, <1>9 DEF P

LEMMA WritesFrom ==
  ASSUME NEW old, NEW written, IsList(written)
  PROVE  /\ TableFrom(Overwritten(old, written), old, written)
         /\ TableFrom(Completed(old, written), old, written)
<1>1. ASSUME NEW k \in Keys(written)
      PROVE  /\ \E r \in ToSet(written) : r.key = k /\ written[Max(Places(written, k))] = r
             /\ \E r \in ToSet(written) : r.key = k /\ written[Min(Places(written, k))] = r
  <2>1. \A i \in Places(written, k) : written[i] \in ToSet(written) /\ written[i].key = k
    BY ListTyped DEF Places
  <2> QED
    BY <2>1, PlacesBounded
<1>2. TableFrom(Overwritten(old, written), old, written)
  BY <1>1 DEF TableFrom, Overwritten
<1>3. TableFrom(Completed(old, written), old, written)
  BY <1>1 DEF TableFrom, Completed
<1> QED
  BY <1>2, <1>3

\* A statement, or the statements of a transaction up to one that failed, have
\* written at most the rows into their table.
Wrote(d, e, t, written) ==
  \/ e = d
  \/ \E new : /\ IsList(written) => TableFrom(new, d[t], written)
             /\ e = [d EXCEPT ![t] = new]

IsTx(tx) == {"db", "failed"} \subseteq DOMAIN tx

LEMMA MysqlTables ==
  /\ \A old, written : Mysql!Overwritten(old, written) = Overwritten(old, written)
  /\ \A old, written : Mysql!Completed(old, written) = Completed(old, written)
<1>1. \A S : Mysql!Max(S) = Max(S) /\ Mysql!Min(S) = Min(S)
  BY Zenon DEF Mysql!Max, Mysql!Min, Max, Min
<1>2. \A written : Mysql!Keys(written) = Keys(written)
  BY DEF Mysql!Keys, Keys
<1>3. \A written, k : Mysql!Places(written, k) = Places(written, k)
  BY DEF Mysql!Places, Places
<1> QED
  BY <1>1, <1>2, <1>3 DEF Mysql!Overwritten, Mysql!Completed, Overwritten, Completed

LEMMA PgsqlTables ==
  /\ \A old, written : Pgsql!Overwritten(old, written) = Overwritten(old, written)
  /\ \A old, written : Pgsql!Completed(old, written) = Completed(old, written)
<1>1. \A S : Pgsql!Max(S) = Max(S) /\ Pgsql!Min(S) = Min(S)
  BY Zenon DEF Pgsql!Max, Pgsql!Min, Max, Min
<1>2. \A written : Pgsql!Keys(written) = Keys(written)
  BY DEF Pgsql!Keys, Keys
<1>3. \A written, k : Pgsql!Places(written, k) = Places(written, k)
  BY DEF Pgsql!Places, Places
<1> QED
  BY <1>1, <1>2, <1>3 DEF Pgsql!Overwritten, Pgsql!Completed, Overwritten, Completed

LEMMA MysqlStatements ==
  ASSUME NEW tx, IsTx(tx), NEW t, NEW written
  PROVE  /\ IsTx(Mysql!OnDuplicateKeyUpdate(tx, t, written))
         /\ Wrote(tx.db, Mysql!OnDuplicateKeyUpdate(tx, t, written).db, t, written)
         /\ IsTx(Mysql!InsertIgnore(tx, t, written))
         /\ Wrote(tx.db, Mysql!InsertIgnore(tx, t, written).db, t, written)
<1> DEFINE u == Mysql!OnDuplicateKeyUpdate(tx, t, written)
           v == Mysql!InsertIgnore(tx, t, written)
<1>1. /\ u = tx \/ u = [tx EXCEPT !.db[t] = Overwritten(tx.db[t], written)]
      /\ v = tx \/ v = [tx EXCEPT !.db[t] = Completed(tx.db[t], written)]
  BY MysqlTables
     DEF Mysql!OnDuplicateKeyUpdate, Mysql!InsertIgnore, Mysql!Statement
<1> HIDE DEF u, v
<1>2. /\ IsTx(u) /\ (u.db = tx.db \/ u.db = [tx.db EXCEPT ![t] = Overwritten(tx.db[t], written)])
      /\ IsTx(v) /\ (v.db = tx.db \/ v.db = [tx.db EXCEPT ![t] = Completed(tx.db[t], written)])
  BY <1>1 DEF IsTx
<1> QED
  BY <1>2, WritesFrom DEF Wrote, u, v

LEMMA PgsqlStatements ==
  ASSUME NEW tx, IsTx(tx), NEW t, NEW written
  PROVE  /\ IsTx(Pgsql!OnConflictDoUpdate(tx, t, written))
         /\ Wrote(tx.db, Pgsql!OnConflictDoUpdate(tx, t, written).db, t, written)
         /\ IsTx(Pgsql!OnConflictDoNothing(tx, t, written))
         /\ Wrote(tx.db, Pgsql!OnConflictDoNothing(tx, t, written).db, t, written)
<1> DEFINE u == Pgsql!OnConflictDoUpdate(tx, t, written)
           v == Pgsql!OnConflictDoNothing(tx, t, written)
<1>1. /\ \/ u = tx \/ u = [tx EXCEPT !.failed = TRUE]
         \/ u = [tx EXCEPT !.db[t] = Overwritten(tx.db[t], written)]
      /\ v = tx \/ v = [tx EXCEPT !.db[t] = Completed(tx.db[t], written)]
  BY PgsqlTables
     DEF Pgsql!OnConflictDoUpdate, Pgsql!OnConflictDoNothing, Pgsql!Statement
<1> HIDE DEF u, v
<1>2. /\ IsTx(u) /\ (u.db = tx.db \/ u.db = [tx.db EXCEPT ![t] = Overwritten(tx.db[t], written)])
      /\ IsTx(v) /\ (v.db = tx.db \/ v.db = [tx.db EXCEPT ![t] = Completed(tx.db[t], written)])
  BY <1>1 DEF IsTx
<1> QED
  BY <1>2, WritesFrom DEF Wrote, u, v

-----------------------------------------------------------------------------
(* Rows of the chain c that may be written, and tables that hold nothing   *)
(* else.                                                                   *)

RightBlocks(c) == {<<b.hash, b.number>> : b \in ToSet(Blockchain[c])}

RightTxs(c) ==
  UNION {{<<tx.hash, b.number>> : tx \in ToSet(b.txs)} : b \in ToSet(Blockchain[c])}

Right(t, key, row, c) ==
  /\ t = "blocks" => <<key, row.number>> \in RightBlocks(c)
  /\ t = "raw" => <<key, row.number>> \in RightTxs(c)
  /\ t = "txs" => <<key[1], row.number>> \in RightTxs(c)

Fits(t, written, c) ==
  c # "sui" => IsList(written) /\ \A r \in ToSet(written) : Right(t, r.key, r, c)

DbOf(d, c) ==
  /\ DOMAIN d = SqlTable
  /\ c # "sui" => \A t \in SqlTable : \A k \in DOMAIN d[t] : Right(t, k, d[t][k], c)

TxOf(tx, c) == IsTx(tx) /\ DbOf(tx.db, c)

LEMMA WroteOf ==
  ASSUME NEW c, NEW d, NEW e, DbOf(d, c), NEW t \in SqlTable, NEW written,
         Fits(t, written, c), Wrote(d, e, t, written)
  PROVE  DbOf(e, c)
<1>1. CASE e = d
  BY <1>1
<1>2. ASSUME NEW new, IsList(written) => TableFrom(new, d[t], written),
             e = [d EXCEPT ![t] = new]
      PROVE  DbOf(e, c)
  <2>1. DOMAIN e = SqlTable /\ e[t] = new /\ \A u \in SqlTable \ {t} : e[u] = d[u]
    BY <1>2 DEF DbOf
  <2>2. ASSUME c # "sui", NEW k \in DOMAIN new PROVE Right(t, k, new[k], c)
    <3>1. \/ k \in DOMAIN d[t] /\ new[k] = d[t][k]
          \/ \E r \in ToSet(written) : r.key = k /\ new[k] = r
      BY <1>2, <2>2 DEF Fits, TableFrom
    <3>2. CASE k \in DOMAIN d[t] /\ new[k] = d[t][k]
      BY <2>2, <3>2 DEF DbOf
    <3>3. CASE \E r \in ToSet(written) : r.key = k /\ new[k] = r
      BY <2>2, <3>3 DEF Fits
    <3> QED
      BY <3>1, <3>2, <3>3
  <2> QED
    BY <2>1, <2>2 DEF DbOf
<1> QED
  BY <1>1, <1>2 DEF Wrote

LEMMA MysqlKeeps ==
  ASSUME NEW c, NEW d, DbOf(d, c)
  PROVE  /\ \A bs : Fits("blocks", [i \in DOMAIN bs |-> BlockRow(bs[i])], c)
                   => DbOf(Mysql!StoreBlocks(d, bs).db, c)
         /\ \A txs : Fits("raw", [i \in DOMAIN txs |-> RawRow(txs[i])], c)
                    => DbOf(Mysql!StoreTransactions(d, txs).db, c)
         /\ \A data : (\A t \in Tables : Fits(t, data[t], c))
                     => DbOf(Mysql!StoreDexData(d, data).db, c)
<1> DEFINE begun == Mysql!BeginTx(d)
<1>1. TxOf(begun, c)
  BY DEF TxOf, IsTx, Mysql!BeginTx
<1>2. ASSUME NEW tx, TxOf(tx, c), NEW t \in SqlTable, NEW written, Fits(t, written, c)
      PROVE  /\ TxOf(Mysql!OnDuplicateKeyUpdate(tx, t, written), c)
             /\ TxOf(Mysql!InsertIgnore(tx, t, written), c)
  BY <1>2, MysqlStatements, WroteOf DEF TxOf
<1>3. ASSUME NEW tx, TxOf(tx, c) PROVE DbOf(Mysql!Commit(tx).db, c)
  BY <1>3 DEF Mysql!Commit, TxOf
<1>4. SqlTable = {"blocks", "raw"} \cup {"pools", "tokens", "txs", "liqs", "reserves"}
  BY DEF SqlTable, Tables
<1> HIDE DEF begun
<1>5. ASSUME NEW bs, Fits("blocks", [i \in DOMAIN bs |-> BlockRow(bs[i])], c)
      PROVE  DbOf(Mysql!StoreBlocks(d, bs).db, c)
  <2> DEFINE written == [i \in DOMAIN bs |-> BlockRow(bs[i])]
             tx == Mysql!OnDuplicateKeyUpdate(begun, "blocks", written)
  <2>1. Mysql!StoreBlocks(d, bs) = Mysql!Commit(tx)
    BY DEF Mysql!StoreBlocks, Mysql!batchInsertBlocks, Mysql!BlockRow, BlockRow, begun
  <2> HIDE DEF written
  <2>2. TxOf(tx, c)
    BY <1>1, <1>2, <1>4, <1>5 DEF written
  <2> HIDE DEF tx
  <2> QED
    BY <1>3, <2>1, <2>2
<1>6. ASSUME NEW txs, Fits("raw", [i \in DOMAIN txs |-> RawRow(txs[i])], c)
      PROVE  DbOf(Mysql!StoreTransactions(d, txs).db, c)
  <2> DEFINE written == [i \in DOMAIN txs |-> RawRow(txs[i])]
             tx == Mysql!OnDuplicateKeyUpdate(begun, "raw", written)
  <2>1. Mysql!StoreTransactions(d, txs) = Mysql!Commit(tx)
    BY DEF Mysql!StoreTransactions, Mysql!batchInsertTransactions, Mysql!RawRow, RawRow, begun
  <2> HIDE DEF written
  <2>2. TxOf(tx, c)
    BY <1>1, <1>2, <1>4, <1>6 DEF written
  <2> HIDE DEF tx
  <2> QED
    BY <1>3, <2>1, <2>2
<1>7. ASSUME NEW data, \A t \in Tables : Fits(t, data[t], c)
      PROVE  DbOf(Mysql!StoreDexData(d, data).db, c)
  <2> DEFINE tx1 == Mysql!OnDuplicateKeyUpdate(begun, "pools", data["pools"])
             tx2 == Mysql!OnDuplicateKeyUpdate(tx1, "tokens", data["tokens"])
             tx3 == Mysql!InsertIgnore(tx2, "txs", data["txs"])
             tx4 == Mysql!InsertIgnore(tx3, "liqs", data["liqs"])
             tx5 == Mysql!OnDuplicateKeyUpdate(tx4, "reserves", data["reserves"])
  <2>1. Mysql!StoreDexData(d, data) = Mysql!Commit(tx5)
    BY DEF Mysql!StoreDexData, Mysql!batchUpsertPools, Mysql!batchUpsertTokens,
           Mysql!batchInsertDexTransactions, Mysql!batchInsertLiquidities,
           Mysql!batchUpsertReserves, begun
  <2>2. \A t \in {"pools", "tokens", "txs", "liqs", "reserves"} :
          t \in SqlTable /\ Fits(t, data[t], c)
    BY <1>4, <1>7 DEF Tables
  <2> HIDE DEF tx1, tx2, tx3, tx4, tx5
  <2>3. TxOf(tx1, c)
    BY <1>1, <1>2, <2>2 DEF tx1
  <2>4. TxOf(tx2, c)
    BY <1>2, <2>2, <2>3 DEF tx2
  <2>5. TxOf(tx3, c)
    BY <1>2, <2>2, <2>4 DEF tx3
  <2>6. TxOf(tx4, c)
    BY <1>2, <2>2, <2>5 DEF tx4
  <2>7. TxOf(tx5, c)
    BY <1>2, <2>2, <2>6 DEF tx5
  <2> QED
    BY <1>3, <2>1, <2>7
<1> QED
  BY <1>5, <1>6, <1>7

LEMMA PgsqlKeeps ==
  ASSUME NEW c, NEW d, DbOf(d, c)
  PROVE  /\ \A bs : Fits("blocks", [i \in DOMAIN bs |-> BlockRow(bs[i])], c)
                   => DbOf(Pgsql!StoreBlocks(d, bs).db, c)
         /\ \A txs : Fits("raw", [i \in DOMAIN txs |-> RawRow(txs[i])], c)
                    => DbOf(Pgsql!StoreTransactions(d, txs).db, c)
         /\ \A data : (\A t \in Tables : Fits(t, data[t], c))
                     => DbOf(Pgsql!StoreDexData(d, data).db, c)
<1> DEFINE begun == Pgsql!BeginTx(d)
<1>1. TxOf(begun, c)
  BY DEF TxOf, IsTx, Pgsql!BeginTx
<1>2. ASSUME NEW tx, TxOf(tx, c), NEW t \in SqlTable, NEW written, Fits(t, written, c)
      PROVE  /\ TxOf(Pgsql!OnConflictDoUpdate(tx, t, written), c)
             /\ TxOf(Pgsql!OnConflictDoNothing(tx, t, written), c)
  BY <1>2, PgsqlStatements, WroteOf DEF TxOf
<1>3. ASSUME NEW tx, TxOf(tx, c) PROVE DbOf(Pgsql!Committed(d, tx).db, c)
  BY <1>3 DEF Pgsql!Commit, Pgsql!Committed, TxOf
<1>4. SqlTable = {"blocks", "raw"} \cup {"pools", "tokens", "txs", "liqs", "reserves"}
  BY DEF SqlTable, Tables
<1> HIDE DEF begun
<1>5. ASSUME NEW bs, Fits("blocks", [i \in DOMAIN bs |-> BlockRow(bs[i])], c)
      PROVE  DbOf(Pgsql!StoreBlocks(d, bs).db, c)
  <2> DEFINE written == [i \in DOMAIN bs |-> BlockRow(bs[i])]
             tx == Pgsql!OnConflictDoUpdate(begun, "blocks", written)
  <2>1. Pgsql!StoreBlocks(d, bs) = Pgsql!Committed(d, tx)
    BY DEF Pgsql!StoreBlocks, Pgsql!batchInsertBlocks, Pgsql!BlockRow, BlockRow, begun
  <2> HIDE DEF written
  <2>2. TxOf(tx, c)
    BY <1>1, <1>2, <1>4, <1>5 DEF written
  <2> HIDE DEF tx
  <2> QED
    BY <1>3, <2>1, <2>2
<1>6. ASSUME NEW txs, Fits("raw", [i \in DOMAIN txs |-> RawRow(txs[i])], c)
      PROVE  DbOf(Pgsql!StoreTransactions(d, txs).db, c)
  <2> DEFINE written == [i \in DOMAIN txs |-> RawRow(txs[i])]
             tx == Pgsql!OnConflictDoUpdate(begun, "raw", written)
  <2>1. Pgsql!StoreTransactions(d, txs) = Pgsql!Committed(d, tx)
    BY DEF Pgsql!StoreTransactions, Pgsql!batchInsertTransactions, Pgsql!RawRow, RawRow, begun
  <2> HIDE DEF written
  <2>2. TxOf(tx, c)
    BY <1>1, <1>2, <1>4, <1>6 DEF written
  <2> HIDE DEF tx
  <2> QED
    BY <1>3, <2>1, <2>2
<1>7. ASSUME NEW data, \A t \in Tables : Fits(t, data[t], c)
      PROVE  DbOf(Pgsql!StoreDexData(d, data).db, c)
  <2> DEFINE tx1 == Pgsql!OnConflictDoUpdate(begun, "pools", data["pools"])
             tx2 == Pgsql!OnConflictDoUpdate(tx1, "tokens", data["tokens"])
             tx3 == Pgsql!OnConflictDoNothing(tx2, "txs", data["txs"])
             tx4 == Pgsql!OnConflictDoNothing(tx3, "liqs", data["liqs"])
             tx5 == Pgsql!OnConflictDoUpdate(tx4, "reserves", data["reserves"])
  <2>1. Pgsql!StoreDexData(d, data) = Pgsql!Committed(d, tx5)
    BY DEF Pgsql!StoreDexData, Pgsql!batchUpsertPools, Pgsql!batchUpsertTokens,
           Pgsql!batchInsertDexTransactions, Pgsql!batchInsertLiquidities,
           Pgsql!batchUpsertReserves, begun
  <2>2. \A t \in {"pools", "tokens", "txs", "liqs", "reserves"} :
          t \in SqlTable /\ Fits(t, data[t], c)
    BY <1>4, <1>7 DEF Tables
  <2> HIDE DEF tx1, tx2, tx3, tx4, tx5
  <2>3. TxOf(tx1, c)
    BY <1>1, <1>2, <2>2 DEF tx1
  <2>4. TxOf(tx2, c)
    BY <1>2, <2>2, <2>3 DEF tx2
  <2>5. TxOf(tx3, c)
    BY <1>2, <2>2, <2>4 DEF tx3
  <2>6. TxOf(tx4, c)
    BY <1>2, <2>2, <2>5 DEF tx4
  <2>7. TxOf(tx5, c)
    BY <1>2, <2>2, <2>6 DEF tx5
  <2> QED
    BY <1>3, <2>1, <2>7
<1> QED
  BY <1>5, <1>6, <1>7

-----------------------------------------------------------------------------
(* A batch: what is fetched, what the extractors make of it, what is        *)
(* written.                                                                 *)

LEMMA FetchedRight ==
  ASSUME NEW c \in DOMAIN Blockchain, NEW fs, FetchedFrom(fs, Blockchain[c], TRUE)
  PROVE  /\ BlocksOf(fs, RightTxs(c))
         /\ \A f \in ToSet(fs) : <<f.hash, f.number>> \in RightBlocks(c)
<1>1. \A b \in ToSet(Blockchain[c]) : \A tx \in ToSet(b.txs) :
        /\ <<tx.hash, b.number>> \in RightTxs(c)
        /\ IsList(tx.events) /\ \A e \in ToSet(tx.events) : IsList(e.tokens)
  BY ChainsTyped DEF ChainOf, RightTxs
<1>2. ASSUME NEW f \in ToSet(fs)
      PROVE  /\ "txs" \in DOMAIN f /\ IsList(f.txs)
             /\ <<f.hash, f.number>> \in RightBlocks(c)
             /\ \A tx \in ToSet(f.txs) :
                  /\ {"hash", "number", "time", "events"} \subseteq DOMAIN tx
                  /\ <<tx.hash, tx.number>> \in RightTxs(c)
                  /\ IsList(tx.events) /\ \A e \in ToSet(tx.events) : IsList(e.tokens)
  <2>1. PICK b \in ToSet(Blockchain[c]) : BlockFrom(f, b, TRUE)
    BY DEF FetchedFrom
  <2>2. <<f.hash, f.number>> \in RightBlocks(c)
    BY <2>1 DEF BlockFrom, RightBlocks
  <2>3. ASSUME NEW t \in ToSet(f.txs)
        PROVE  /\ {"hash", "number", "time", "events"} \subseteq DOMAIN t
               /\ <<t.hash, t.number>> \in RightTxs(c)
               /\ IsList(t.events) /\ \A e \in ToSet(t.events) : IsList(e.tokens)
    <3>1. TxFrom(t, b, f.number) /\ f.number = b.number
      BY <2>1 DEF BlockFrom
    <3>2. PICK tx \in ToSet(b.txs) : t.hash = tx.hash /\ t.events = tx.events
      BY <3>1 DEF TxFrom
    <3> QED
      BY <1>1, <3>1, <3>2 DEF TxFrom
  <2> QED
    BY <2>1, <2>2, <2>3 DEF BlockFrom
<1> QED
  BY <1>2 DEF BlocksOf, FetchedFrom

LEMMA FetchedEvents ==
  ASSUME NEW fs, NEW blocks, NEW exact, FetchedFrom(fs, blocks, exact)
  PROVE  EventsOf(fs) \subseteq EventsOf(blocks)
<1>1. ASSUME NEW f \in ToSet(fs), NEW t \in ToSet(f.txs), NEW e \in ToSet(t.events)
      PROVE  e \in EventsOf(blocks)
  <2>1. PICK b \in ToSet(blocks) : BlockFrom(f, b, exact)
    BY DEF FetchedFrom
  <2>2. PICK tx \in ToSet(b.txs) : t.events = tx.events
    BY <2>1 DEF BlockFrom, TxFrom
  <2> QED
    BY <2>2 DEF EventsOf
<1> QED
  BY <1>1 DEF EventsOf

LEMMA KeptBlocksOf ==
  ASSUME NEW S, NEW bs, BlocksOf(bs, S), NEW wanted
  PROVE  BlocksOf(Kept(bs, wanted), S)
BY KeptOf DEF BlocksOf

LEMMA SupportedOf ==
  ASSUME NEW S, NEW fs, BlocksOf(fs, S)
  PROVE  /\ BlocksOf(Supported(fs, Uniswap!SupportsBlock), S)
         /\ BlocksOf(Supported(fs, Pancake!SupportsBlock), S)
         /\ BlocksOf(Supported(fs, FourMeme!SupportsBlock), S)
         /\ BlocksOf(Supported(fs, PumpFun!SupportsBlock), S)
         /\ BlocksOf(Supported(fs, PumpSwap!SupportsBlock), S)
<1>1. \A wanted : BlocksOf(Kept(fs, wanted), S)
  BY KeptBlocksOf
<1> QED
  BY <1>1 DEF Supported

\* Whatever was not read, on Sui.
LEMMA ExtractedOf ==
  ASSUME NEW c, NEW fs, NEW mem, NEW unread, c \in {"ethereum", "bsc", "solana", "sui"}
  PROVE  /\ c = "sui" => DOMAIN Extracted(c, fs, mem, unread) = Tables
         /\ c # "sui" => \A S : BlocksOf(fs, S) => DataOf(Extracted(c, fs, mem, unread), S)
<1>1. CASE c = "sui"
  BY <1>1 DEF Extracted, Merge
<1>2. ASSUME c # "sui", NEW S, BlocksOf(fs, S)
      PROVE  DataOf(Extracted(c, fs, mem, unread), S)
  <2>1. CASE c = "ethereum"
    <3>1. DataOf(Uniswap!ExtractDexData(mem, Supported(fs, Uniswap!SupportsBlock)).rows, S)
      BY <1>2, SupportedOf, UniswapOf
    <3> QED
      BY <2>1, <3>1 DEF Extracted, UniswapResult
  <2>2. CASE c = "bsc"
    <3> DEFINE d == Pancake!ExtractDexData(Supported(fs, Pancake!SupportsBlock))
               e == FourMeme!ExtractDexData(Supported(fs, FourMeme!SupportsBlock))
    <3>1. DataOf(d, S) /\ DataOf(e, S)
      BY <1>2, SupportedOf, PancakeOf, FourMemeOf
    <3>2. Extracted(c, fs, mem, unread) = Merge(<<d, e>>)
      BY <2>2 DEF Extracted
    <3> HIDE DEF d, e
    <3> QED
      BY <3>1, <3>2, MergePairOf
  <2>3. CASE c = "solana"
    <3> DEFINE d == PumpFun!ExtractDexData(Supported(fs, PumpFun!SupportsBlock))
               e == PumpSwap!ExtractDexData(Supported(fs, PumpSwap!SupportsBlock))
    <3>1. DataOf(d, S) /\ DataOf(e, S)
      BY <1>2, SupportedOf, PumpFunOf, PumpSwapOf
    <3>2. Extracted(c, fs, mem, unread) = Merge(<<d, e>>)
      BY <2>3 DEF Extracted
    <3> HIDE DEF d, e
    <3> QED
      BY <3>1, <3>2, MergePairOf
  <2> QED
    BY <1>2, <2>1, <2>2, <2>3
<1> QED
  BY <1>1, <1>2

\* The rows of a list, one for each.
LEMMA RowsFit ==
  ASSUME NEW t, NEW c, NEW s, c # "sui" => IsList(s), NEW rs,
         rs = [i \in DOMAIN s |-> rs[i]],
         c # "sui" => \A i \in DOMAIN s : Right(t, rs[i].key, rs[i], c)
  PROVE  Fits(t, rs, c)
<1> SUFFICES ASSUME c # "sui"
             PROVE  IsList(rs) /\ \A r \in ToSet(rs) : Right(t, r.key, r, c)
  BY DEF Fits
<1> DEFINE n == Len(s)
           R == {rs[i] : i \in 1..n}
<1>1. n \in Nat /\ DOMAIN s = 1..n
  BY ListTyped
<1> HIDE DEF n
<1>2. rs \in [1..n -> R] /\ \A r \in R : Right(t, r.key, r, c)
  BY <1>1
<1> HIDE DEF R
<1>3. IsList(rs) /\ ToSet(rs) \subseteq R
  BY <1>1, <1>2, ListFrom, SeqIsList
<1> QED
  BY <1>2, <1>3

LEMMA BlockRowsFit ==
  ASSUME chain \in DOMAIN Blockchain, FetchedFrom(fetched, TheChain, chain # "sui")
  PROVE  Fits("blocks", [i \in DOMAIN fetched |-> BlockRow(fetched[i])], chain)
<1> DEFINE rs == [i \in DOMAIN fetched |-> BlockRow(fetched[i])]
<1>1. \A i \in DOMAIN fetched : rs[i].key = fetched[i].hash /\ rs[i].number = fetched[i].number
  BY DEF BlockRow
<1>2. rs = [i \in DOMAIN fetched |-> rs[i]]
  OBVIOUS
<1> HIDE DEF rs
<1>3. IsList(fetched) /\ \A i \in DOMAIN fetched : fetched[i] \in ToSet(fetched)
  BY ListTyped DEF FetchedFrom
<1>4. chain # "sui" => \A i \in DOMAIN fetched : Right("blocks", rs[i].key, rs[i], chain)
  <2>1. chain # "sui" => FetchedFrom(fetched, Blockchain[chain], TRUE)
    BY DEF TheChain
  <2>2. chain # "sui" =>
          \A i \in DOMAIN fetched : <<fetched[i].hash, fetched[i].number>> \in RightBlocks(chain)
    BY <1>3, <2>1, FetchedRight
  <2> QED
    BY <1>1, <2>2 DEF Right
<1>5. Fits("blocks", rs, chain)
  BY <1>2, <1>3, <1>4, RowsFit
<1> QED
  BY <1>5 DEF rs

LEMMA RawRowsFit ==
  ASSUME chain \in DOMAIN Blockchain, FetchedFrom(fetched, TheChain, chain # "sui")
  PROVE  Fits("raw", [i \in DOMAIN allTxs |-> RawRow(allTxs[i])], chain)
<1> DEFINE parts == [b \in DOMAIN fetched |-> fetched[b].txs]
           all == allTxs
           rs == [i \in DOMAIN all |-> RawRow(all[i])]
<1>1. all = FlattenSeq(parts)
  BY DEF allTxs
<1>2. \A i \in DOMAIN all : rs[i].key = all[i].hash /\ rs[i].number = all[i].number
  BY DEF RawRow
<1>3. rs = [i \in DOMAIN all |-> rs[i]]
  OBVIOUS
<1> HIDE DEF rs, all
<1>4. ASSUME chain # "sui"
      PROVE  IsList(all) /\ \A i \in DOMAIN all : <<all[i].hash, all[i].number>> \in RightTxs(chain)
  <2>1. BlocksOf(fetched, RightTxs(chain))
    BY <1>4, FetchedRight DEF TheChain
  <2>2. /\ Len(fetched) \in Nat /\ DOMAIN fetched = 1..Len(fetched)
        /\ \A i \in DOMAIN fetched : fetched[i] \in ToSet(fetched)
    BY <2>1, ListTyped DEF BlocksOf
  <2>3. /\ parts = [b \in 1..Len(fetched) |-> parts[b]]
        /\ \A b \in 1..Len(fetched) : parts[b] = fetched[b].txs
    BY <2>2
  <2> HIDE DEF parts
  <2>4. \A b \in 1..Len(fetched) :
          /\ IsList(parts[b])
          /\ \A tx \in ToSet(parts[b]) : <<tx.hash, tx.number>> \in RightTxs(chain)
    BY <2>1, <2>2, <2>3 DEF BlocksOf
  <2>5. /\ IsList(FlattenSeq(parts))
        /\ \A x \in ToSet(FlattenSeq(parts)) : \E b \in 1..Len(fetched) : x \in ToSet(parts[b])
    BY <2>2, <2>3, <2>4, FlattenParts
  <2>6. IsList(all) /\ \A i \in DOMAIN all : all[i] \in ToSet(all)
    BY <1>1, <2>5, ListTyped
  <2> QED
    BY <1>1, <2>4, <2>5, <2>6
<1>5. chain # "sui" => \A i \in DOMAIN all : Right("raw", rs[i].key, rs[i], chain)
  BY <1>2, <1>4 DEF Right
<1>6. Fits("raw", rs, chain)
  BY <1>3, <1>4, <1>5, RowsFit
<1> QED
  BY <1>6 DEF rs, all

LEMMA DataFits ==
  ASSUME NEW d, NEW c, c # "sui" => DataOf(d, RightTxs(c))
  PROVE  \A t \in Tables : Fits(t, d[t], c)
<1>1. ASSUME c # "sui", NEW t \in Tables
      PROVE  IsList(d[t]) /\ \A r \in ToSet(d[t]) : Right(t, r.key, r, c)
  <2>1. t # "blocks" /\ t # "raw"
    BY DEF Tables
  <2> QED
    BY <1>1, <2>1 DEF DataOf, Right
<1> QED
  BY <1>1 DEF Fits

-----------------------------------------------------------------------------
(* The invariant.  What makes NumbersRight inductive is that the batch on  *)
(* its way to the tables is right too, block by block and row by row.      *)

BatchRight ==
  /\ pc # "idle" => to > 0
  /\ FetchedFrom(fetched, TheChain, chain # "sui")
  /\ chain # "sui" => DataOf(rows, RightTxs(chain))

IngestInv == TypeOK /\ BatchRight /\ DbOf(db, chain)

LEMMA Typed ==
  ASSUME IngestInv
  PROVE  /\ chain \in DOMAIN Blockchain /\ chain \in {"ethereum", "bsc", "solana", "sui"}
         /\ store \in {"mysql", "pgsql"}
         /\ Len(TheChain) \in Nat /\ head \in Nat /\ head <= Len(TheChain)
         /\ position \in Nat /\ position <= head
         /\ faults \in 0..MaxFaults
<1>1. chain \in DOMAIN Blockchain /\ store \in {"mysql", "pgsql"}
  BY SetupsAssumption DEF IngestInv, TypeOK
<1>2. Len(TheChain) \in Nat
  BY <1>1, ChainsTyped, ListTyped DEF ChainOf, TheChain
<1> QED
  BY <1>1, <1>2, SetupsAssumption DEF IngestInv, TypeOK

LEMMA TablesOfTheStores == Mysql!SqlTable = SqlTable
BY DEF Mysql!SqlTable, Mysql!Tables, SqlTable, Tables

LEMMA RestIsRight ==
  ASSUME NEW c
  PROVE  FetchedFrom(<<>>, Blockchain[c], c # "sui") /\ DataOf(NoRows, RightTxs(c))
<1>1. \A n, x : FetchedFrom(<<>>, n, x)
  BY EmptyList DEF FetchedFrom
<1> QED
  BY <1>1, NoRowsOf

LEMMA NoEvents == EventsOf(<<>>) = {}
BY EmptyList DEF EventsOf

LEMMA InitRight ==
  ASSUME Init
  PROVE  IngestInv
<1>1. <<chain, store>> \in Setups /\ chain \in DOMAIN Blockchain
  BY SetupsAssumption DEF Init
<1>2. Len(TheChain) \in Nat
  BY <1>1, ChainsTyped, ListTyped DEF ChainOf, TheChain
<1>3. DOMAIN rows = Tables
  BY DEF Init, NoRows
<1>4. DOMAIN db = SqlTable /\ \A t \in SqlTable : db[t] = <<>>
  BY TablesOfTheStores DEF Init, Mysql!EmptyDatabase
<1>5. Idle
  BY DEF Init, Idle, batchVars
<1>6. TypeOK
  BY <1>1, <1>2, <1>3, <1>4, <1>5, NoEvents, TablesOfTheStores, MaxFaultsAssumption DEF TypeOK, Init
<1>7. BatchRight
  BY RestIsRight DEF BatchRight, Init, TheChain
<1>8. DbOf(db, chain)
  <2>1. DOMAIN <<>> = {}
    OBVIOUS
  <2> QED
    BY <1>4, <2>1 DEF DbOf
<1> QED
  BY <1>6, <1>7, <1>8 DEF IngestInv

LEMMA FetchRight ==
  ASSUME IngestInv, Fetch
  PROVE  IngestInv'
<1>1. /\ pc = "idle" /\ position + 1 < End /\ to' = End /\ pc' = "extract"
      /\ UNCHANGED <<chain, store, head, position, rows, memory, db, gone>>
  BY DEF Fetch, Start, setup
<1>2. End \in Nat /\ End <= head /\ End > 0
  BY <1>1, Typed, BatchSizeAssumption DEF End, Start
<1>3. PICK lost \in Unanswered(Start, End) :
        /\ fetched' = GetBlocksByRange(chain, Start, End, lost)
        /\ Counted(lost)
        /\ missed' = {e.id : e \in EventsOf(SubSeq(TheChain, Start, End))}
                       \ {e.id : e \in EventsOf(GetBlocksByRange(chain, Start, End, lost))}
  BY Zenon DEF Fetch
<1>4. FetchedFrom(fetched', TheChain, chain # "sui")
  <2>1. Start \in Nat \ {0} /\ End <= Len(TheChain)
    BY <1>2, Typed DEF Start
  <2> QED
    BY <1>2, <1>3, <2>1, Typed, GetFrom DEF TheChain
<1>5. EventsOf(fetched') \subseteq EventsOf(TheChain)
  BY <1>4, FetchedEvents
<1>6. EventsOf(SubSeq(TheChain, Start, End)) \subseteq EventsOf(TheChain)
  <2>1. TheChain \in Seq(ToSet(TheChain)) /\ Start \in Nat \ {0} /\ End <= Len(TheChain)
    BY <1>2, Typed, ChainsTyped DEF ChainOf, TheChain, IsList, Start
  <2>2. ToSet(SubSeq(TheChain, Start, End)) \subseteq ToSet(TheChain)
    BY <1>2, <2>1, AskedFrom
  <2> QED
    BY <2>2 DEF EventsOf
<1>7. faults' \in 0..MaxFaults
  <2>1. lost = {} \/ faults < MaxFaults
    BY <1>3 DEF Unanswered, MayGoWrong
  <2> QED
    BY <1>3, <2>1, Typed, MaxFaultsAssumption DEF Counted
<1>8. TypeOK'
  <2>1. ~Idle'
    BY <1>1, <1>2 DEF Idle, batchVars
  <2>2. missed' \subseteq {e.id : e \in EventsOf(TheChain)}
    BY <1>3, <1>6
  <2> QED
    BY <1>1, <1>2, <1>5, <1>7, <2>1, <2>2 DEF IngestInv, TypeOK, TheChain
<1>9. BatchRight'
  BY <1>1, <1>2, <1>4 DEF IngestInv, BatchRight, TheChain
<1> QED
  BY <1>1, <1>8, <1>9 DEF IngestInv

LEMMA ExtractRight ==
  ASSUME IngestInv, Extract
  PROVE  IngestInv'
<1>1. /\ pc = "extract" /\ pc' = "blocks"
      /\ UNCHANGED <<chain, store, head, position, fetched, to, db, gone>>
  BY DEF Extract, setup
<1>2. PICK unread \in Unread : /\ rows' = Extracted(chain, fetched, memory, unread)
                               /\ missed' = missed \cup unread
                               /\ Counted(unread)
  BY DEF Extract
<1>3. ASSUME chain # "sui" PROVE DataOf(rows', RightTxs(chain))
  <2>1. FetchedFrom(fetched, Blockchain[chain], TRUE)
    BY <1>3 DEF IngestInv, BatchRight, TheChain
  <2>2. BlocksOf(fetched, RightTxs(chain))
    BY <2>1, Typed, FetchedRight
  <2> QED
    BY <1>2, <1>3, <2>2, Typed, ExtractedOf
<1>4. DOMAIN rows' = Tables
  <2>1. CASE chain = "sui"
    BY <1>2, <2>1, Typed, ExtractedOf
  <2>2. CASE chain # "sui"
    BY <1>3, <2>2 DEF DataOf
  <2> QED
    BY <2>1, <2>2
<1>5. missed' \subseteq {e.id : e \in EventsOf(TheChain)}
  <2>1. unread \subseteq {e.id : e \in EventsOf(fetched)}
    BY <1>2 DEF Unread
  <2> QED
    BY <1>2, <2>1 DEF IngestInv, TypeOK
<1>6. faults' \in 0..MaxFaults
  <2>1. unread = {} \/ faults < MaxFaults
    BY <1>2 DEF Unread, MayGoWrong
  <2> QED
    BY <1>2, <2>1, Typed, MaxFaultsAssumption DEF Counted
<1>7. TypeOK'
  <2>1. ~Idle'
    BY <1>1 DEF IngestInv, BatchRight, Idle, batchVars
  <2> QED
    BY <1>1, <1>4, <1>5, <1>6, <2>1 DEF IngestInv, TypeOK, TheChain
<1>8. BatchRight'
  BY <1>1, <1>3 DEF IngestInv, BatchRight, TheChain
<1> QED
  BY <1>1, <1>7, <1>8 DEF IngestInv

\* What the three writes leave in the tables, whether they succeed or not.
LEMMA WritesAreRight ==
  ASSUME IngestInv
  PROVE  DbOf(BlocksWrite.db, chain) /\ DbOf(RawWrite.db, chain) /\ DbOf(DexWrite.db, chain)
<1>1. DbOf(db, chain) /\ FetchedFrom(fetched, TheChain, chain # "sui")
  BY DEF IngestInv, BatchRight
<1>2. Fits("blocks", [i \in DOMAIN fetched |-> BlockRow(fetched[i])], chain)
  BY <1>1, Typed, BlockRowsFit
<1>3. Fits("raw", [i \in DOMAIN allTxs |-> RawRow(allTxs[i])], chain)
  BY <1>1, Typed, RawRowsFit
<1>4. \A t \in Tables : Fits(t, rows[t], chain)
  BY DataFits DEF IngestInv, BatchRight
<1>5. /\ DbOf(Mysql!StoreBlocks(db, fetched).db, chain)
      /\ DbOf(Mysql!StoreTransactions(db, allTxs).db, chain)
      /\ DbOf(Mysql!StoreDexData(db, rows).db, chain)
  BY <1>1, <1>2, <1>3, <1>4, MysqlKeeps
<1>6. /\ DbOf(Pgsql!StoreBlocks(db, fetched).db, chain)
      /\ DbOf(Pgsql!StoreTransactions(db, allTxs).db, chain)
      /\ DbOf(Pgsql!StoreDexData(db, rows).db, chain)
  BY <1>1, <1>2, <1>3, <1>4, PgsqlKeeps
<1> QED
  BY <1>5, <1>6 DEF BlocksWrite, RawWrite, DexWrite

LEMMA WrittenRight ==
  ASSUME IngestInv, pc # "idle", NEW write, DbOf(write.db, chain),
         NEW next \in {"raw", "dex", "save"}, Written(write, next)
  PROVE  IngestInv'
<1>1. /\ db' = write.db /\ pc' = next
      /\ UNCHANGED <<chain, store, head, position, fetched, to, rows, missed, faults, gone>>
  BY DEF Written, setup, batchVars
<1>2. ~Idle'
  BY <1>1 DEF IngestInv, BatchRight, Idle, batchVars
<1>3. DbOf(db', chain')
  BY <1>1
<1>4. TypeOK'
  BY <1>1, <1>2, <1>3, TablesOfTheStores DEF IngestInv, TypeOK, TheChain, DbOf
<1>5. BatchRight'
  BY <1>1 DEF IngestInv, BatchRight, TheChain
<1> QED
  BY <1>3, <1>4, <1>5 DEF IngestInv

\* A batch that ends, in whichever way.
LEMMA RestRight ==
  ASSUME IngestInv, AtRest, UNCHANGED <<chain, store, head>>,
         position' \in 0..head, faults' \in 0..MaxFaults,
         gone' \subseteq gone \cup missed, DbOf(db', chain)
  PROVE  IngestInv'
<1>1. pc' = "idle" /\ fetched' = <<>> /\ to' = 0 /\ rows' = NoRows /\ missed' = {}
  BY DEF AtRest
<1>2. Idle' /\ DOMAIN rows' = Tables
  BY <1>1 DEF Idle, batchVars, NoRows
<1>3. EventsOf(fetched') = {}
  BY <1>1, NoEvents
<1>4. TypeOK'
  BY <1>1, <1>2, <1>3, Typed, TablesOfTheStores DEF IngestInv, TypeOK, TheChain, DbOf
<1>5. BatchRight'
  <2>1. FetchedFrom(fetched', Blockchain[chain], chain # "sui") /\ DataOf(rows', RightTxs(chain))
    BY <1>1, RestIsRight
  <2> QED
    BY <1>1, <2>1 DEF BatchRight, TheChain
<1> QED
  BY <1>4, <1>5 DEF IngestInv

LEMMA WriteFailsRight ==
  ASSUME IngestInv, NEW write, DbOf(write.db, chain), WriteFails(write)
  PROVE  IngestInv'
<1>1. AtRest /\ UNCHANGED <<chain, store, head, position, gone>>
  BY DEF WriteFails, GiveUp, setup
<1>2. faults' \in 0..MaxFaults
  BY Typed, MaxFaultsAssumption DEF WriteFails, GoesWrong
<1>3. DbOf(db', chain)
  BY DEF WriteFails, IngestInv
<1>4. position' \in 0..head
  BY <1>1, Typed
<1> QED
  BY <1>1, <1>2, <1>3, <1>4, RestRight

LEMMA SaveProgressRight ==
  ASSUME IngestInv, SaveProgress
  PROVE  IngestInv'
<1>1. AtRest /\ UNCHANGED <<chain, store, head, db, faults>>
  BY DEF SaveProgress, setup
<1>2. position' \in 0..head
  BY DEF SaveProgress, IngestInv, TypeOK
<1>3. gone' \subseteq gone \cup missed
  BY DEF SaveProgress
<1> QED
  BY <1>1, <1>2, <1>3, Typed, RestRight DEF IngestInv

LEMMA SaveProgressFailsRight ==
  ASSUME IngestInv, SaveProgressFails
  PROVE  IngestInv'
<1>1. AtRest /\ UNCHANGED <<chain, store, head, position, gone, db>>
  BY DEF SaveProgressFails, GiveUp, setup
<1>2. faults' \in 0..MaxFaults /\ position' \in 0..head
  BY <1>1, Typed, MaxFaultsAssumption DEF SaveProgressFails, GoesWrong
<1> QED
  BY <1>1, <1>2, RestRight DEF IngestInv

LEMMA CrashRight ==
  ASSUME IngestInv, CrashAndRestart
  PROVE  IngestInv'
<1>1. AtRest /\ UNCHANGED <<chain, store, head, position, gone, db>>
  BY DEF CrashAndRestart, setup
<1>2. faults' \in 0..MaxFaults /\ position' \in 0..head
  BY <1>1, Typed, MaxFaultsAssumption DEF CrashAndRestart, GoesWrong
<1> QED
  BY <1>1, <1>2, RestRight DEF IngestInv

LEMMA NewBlockRight ==
  ASSUME IngestInv, NewBlock
  PROVE  IngestInv'
<1>1. /\ head' = head + 1 /\ head < Len(TheChain)
      /\ UNCHANGED <<chain, store, position, pc, fetched, to, rows, missed, db, faults, gone>>
  BY DEF NewBlock, setup, batchVars
<1>2. Idle' <=> Idle
  BY <1>1 DEF Idle, batchVars
<1>3. TypeOK'
  BY <1>1, <1>2, Typed DEF IngestInv, TypeOK, TheChain
<1>4. BatchRight'
  BY <1>1 DEF IngestInv, BatchRight, TheChain
<1> QED
  BY <1>1, <1>3, <1>4 DEF IngestInv

\* The memory of the Uniswap extractor is no part of the invariant.
LEMMA RememberedRight ==
  ASSUME IngestInv, UNCHANGED <<setup, head, position, pc, batchVars, db, faults, gone>>
  PROVE  IngestInv'
<1>1. UNCHANGED <<chain, store, head, position, pc, fetched, to, rows, missed, db, faults, gone>>
  BY DEF setup, batchVars
<1>2. Idle' <=> Idle
  BY <1>1 DEF Idle, batchVars
<1>3. TypeOK'
  BY <1>1, <1>2 DEF IngestInv, TypeOK, TheChain
<1>4. BatchRight'
  BY <1>1 DEF IngestInv, BatchRight, TheChain
<1> QED
  BY <1>1, <1>3, <1>4 DEF IngestInv

-----------------------------------------------------------------------------
(* The theorems.                                                           *)

\* Every step of a batch, done or failed, and every restart in between keeps the
\* types, and keeps what was fetched, what was extracted and what was stored with
\* the number of the block it came from (engine.go:259-356).
THEOREM BatchesStayRight == Spec => []IngestInv
<1>1. Init => IngestInv
  BY InitRight
<1>2. IngestInv /\ [Next]_vars => IngestInv'
  <2> SUFFICES ASSUME IngestInv, [Next]_vars PROVE IngestInv'
    OBVIOUS
  <2>1. CASE Fetch
    BY <2>1, FetchRight
  <2>2. CASE NothingToDo \/ vars' = vars
    <3>1. UNCHANGED <<setup, head, position, pc, batchVars, db, faults, gone>>
      BY <2>2 DEF NothingToDo, vars
    <3> QED
      BY <3>1, RememberedRight
  <2>3. CASE Extract
    BY <2>3, ExtractRight
  <2>4. CASE StoreBlocks
    <3>1. pc # "idle" /\ Written(BlocksWrite, "raw")
      BY <2>4 DEF StoreBlocks
    <3> QED
      BY <3>1, WritesAreRight, WrittenRight
  <2>5. CASE StoreTransactions
    <3>1. pc # "idle" /\ Written(RawWrite, "dex")
      BY <2>5 DEF StoreTransactions
    <3> QED
      BY <3>1, WritesAreRight, WrittenRight
  <2>6. CASE StoreDexData
    <3>1. pc # "idle" /\ Written(DexWrite, "save")
      BY <2>6 DEF StoreDexData
    <3> QED
      BY <3>1, WritesAreRight, WrittenRight
  <2>7. CASE SaveProgress
    BY <2>7, SaveProgressRight
  <2>8. CASE StoreBlocksFails
    BY <2>8, WritesAreRight, WriteFailsRight DEF StoreBlocksFails
  <2>9. CASE StoreTransactionsFails
    BY <2>9, WritesAreRight, WriteFailsRight DEF StoreTransactionsFails
  <2>10. CASE StoreDexDataFails
    BY <2>10, WritesAreRight, WriteFailsRight DEF StoreDexDataFails
  <2>11. CASE SaveProgressFails
    BY <2>11, SaveProgressFailsRight
  <2>12. CASE NewBlock
    BY <2>12, NewBlockRight
  <2>13. CASE PoolLearnt
    BY <2>13, RememberedRight DEF PoolLearnt
  <2>14. CASE CrashAndRestart
    BY <2>14, CrashRight
  <2> QED
    BY <2>1, <2>2, <2>3, <2>4, <2>5, <2>6, <2>7, <2>8, <2>9, <2>10, <2>11, <2>12, <2>13, <2>14
       DEF Next, BatchStep, FailedStep
<1> QED
  BY <1>1, <1>2, PTL DEF Spec

\* Every value of every variable is one the code can have: in particular the
\* saved position never passes the head that was seen, and between two batches
\* nothing is left of the last one (engine.go:211-365).
THEOREM IngestTypeCorrect == Spec => []TypeOK
<1>1. IngestInv => TypeOK
  BY DEF IngestInv
<1> QED
  BY <1>1, BatchesStayRight, PTL

\* Whatever the blocks hold, whichever answers, writes and saves fail, and
\* however often a batch is half stored and run again: the rows of a block, of
\* its transactions and of its swaps carry that block's number, on every chain
\* but Sui (docs/database-design.md:217, 333).
THEOREM NumbersAreRight == Spec => []NumbersRight
<1>1. IngestInv => NumbersRight
  <2> SUFFICES ASSUME IngestInv, chain # "sui", NEW b \in ToSet(TheChain)
               PROVE  /\ b.hash \in DOMAIN db.blocks => db.blocks[b.hash].number = b.number
                      /\ \A tx \in ToSet(b.txs) :
                           /\ tx.hash \in DOMAIN db.raw => db.raw[tx.hash].number = b.number
                           /\ \A k \in DOMAIN db.txs :
                                k[1] = tx.hash => db.txs[k].number = b.number
    BY DEF NumbersRight
  <2>1. \A t \in {"blocks", "raw", "txs"} : \A k \in DOMAIN db[t] : Right(t, k, db[t][k], chain)
    BY DEF IngestInv, DbOf, SqlTable, Tables
  <2>2. \A b2 \in ToSet(TheChain) :
          /\ b.hash = b2.hash => b = b2
          /\ \A tx1 \in ToSet(b.txs), tx2 \in ToSet(b2.txs) : tx1.hash = tx2.hash => b = b2
    BY Typed, HashesAssumption DEF TheChain
  <2>3. ASSUME NEW n, <<b.hash, n>> \in RightBlocks(chain) PROVE n = b.number
    <3>1. PICK b2 \in ToSet(TheChain) : b2.hash = b.hash /\ b2.number = n
      BY <2>3 DEF RightBlocks, TheChain
    <3> QED
      BY <2>2, <3>1
  <2>4. ASSUME NEW tx \in ToSet(b.txs), NEW n, <<tx.hash, n>> \in RightTxs(chain)
        PROVE  n = b.number
    <3>1. PICK b2 \in ToSet(TheChain) : \E tx2 \in ToSet(b2.txs) : tx2.hash = tx.hash /\ b2.number = n
      BY <2>4 DEF RightTxs, TheChain
    <3> QED
      BY <2>2, <3>1
  <2>5. b.hash \in DOMAIN db.blocks => db.blocks[b.hash].number = b.number
    BY <2>1, <2>3 DEF Right
  <2>6. ASSUME NEW tx \in ToSet(b.txs)
        PROVE  /\ tx.hash \in DOMAIN db.raw => db.raw[tx.hash].number = b.number
               /\ \A k \in DOMAIN db.txs : k[1] = tx.hash => db.txs[k].number = b.number
    BY <2>1, <2>4 DEF Right
  <2> QED
    BY <2>5, <2>6
<1> QED
  BY <1>1, BatchesStayRight, PTL

-----------------------------------------------------------------------------
(* What one pass makes.  First, lists again: a concatenation has all of    *)
(* its parts.                                                              *)

LEMMA ConcatSet ==
  ASSUME NEW S, NEW s \in Seq(S), NEW u \in Seq(S)
  PROVE  s \o u \in Seq(S) /\ ToSet(s \o u) = ToSet(s) \cup ToSet(u)
<1> DEFINE w == s \o u
           m == Len(s)
           n == Len(u)
<1>1. /\ m \in Nat /\ DOMAIN s = 1..m /\ n \in Nat /\ DOMAIN u = 1..n
      /\ w \in Seq(S) /\ Len(w) = m + n
      /\ \A i \in 1..(m + n) : w[i] = IF i <= m THEN s[i] ELSE u[i - m]
  BY ConcatProperties, LenProperties
<1> HIDE DEF w, m, n
<1>2. DOMAIN w = 1..(m + n)
  BY <1>1, LenProperties
<1>3. ToSet(w) \subseteq ToSet(s) \cup ToSet(u)
  <2>1. ASSUME NEW i \in 1..(m + n) PROVE w[i] \in ToSet(s) \cup ToSet(u)
    <3>1. CASE i <= m
      <4>1. w[i] = s[i] /\ i \in DOMAIN s
        BY <1>1, <3>1
      <4> QED
        BY <4>1 DEF ToSet
    <3>2. CASE ~(i <= m)
      <4>1. w[i] = u[i - m] /\ i - m \in DOMAIN u
        BY <1>1, <3>2
      <4> QED
        BY <4>1 DEF ToSet
    <3> QED
      BY <3>1, <3>2
  <2> QED
    BY <1>2, <2>1 DEF ToSet
<1>4. ASSUME NEW i \in DOMAIN s PROVE s[i] \in ToSet(w)
  <2>1. i \in DOMAIN w /\ w[i] = s[i]
    BY <1>1, <1>2
  <2> QED
    BY <2>1 DEF ToSet
<1>5. ASSUME NEW i \in DOMAIN u PROVE u[i] \in ToSet(w)
  <2>1. i + m \in DOMAIN w /\ w[i + m] = u[i]
    BY <1>1, <1>2
  <2> QED
    BY <2>1 DEF ToSet
<1>6. ToSet(s) \subseteq ToSet(w) /\ ToSet(u) \subseteq ToSet(w)
  BY <1>4, <1>5 DEF ToSet
<1> QED
  BY <1>1, <1>3, <1>6 DEF w

LEMMA FlattenAll ==
  ASSUME NEW n \in Nat, NEW ss, ss = [i \in 1..n |-> ss[i]], \A i \in 1..n : IsList(ss[i])
  PROVE  /\ IsList(FlattenSeq(ss))
         /\ \A x : x \in ToSet(FlattenSeq(ss)) <=> \E i \in 1..n : x \in ToSet(ss[i])
<1> DEFINE S == UNION {ToSet(ss[i]) : i \in 1..n}
<1>1. \A i \in 1..n : ss[i] \in Seq(S)
  <2>1. \A i \in 1..n : ToSet(ss[i]) \subseteq S
    OBVIOUS
  <2> HIDE DEF S
  <2> QED
    BY <2>1, SeqMonotonic DEF IsList
<1> HIDE DEF S
<1>2. Len(ss) = n
  <2>1. ss \in [1..n -> Seq(S)]
    BY <1>1
  <2> QED
    BY <2>1, ListFrom
<1>3. ASSUME NEW m \in 1..n, NEW x \in ToSet(ss[m]) PROVE x \in ToSet(FlattenSeq(ss))
  <2>1. n # 0
    OBVIOUS
  <2>2. PICK f : Joins(f, ss, n) /\ FlattenSeq(ss) = f[n]
    BY <1>2, <2>1, FlattenDef
  <2> DEFINE wrong == {i \in 1..n : ~(f[i] \in Seq(S) /\ (m <= i => x \in ToSet(f[i])))}
  <2>3. CASE wrong = {}
    BY <2>1, <2>2, <2>3
  <2>4. CASE wrong # {}
    <3>1. wrong \in SUBSET Nat
      OBVIOUS
    <3>2. PICK i \in wrong : \A k \in wrong : i <= k
      BY <2>4, <3>1, LeastNatural
    <3>3. i \in 1..n /\ ~(f[i] \in Seq(S) /\ (m <= i => x \in ToSet(f[i])))
      OBVIOUS
    <3>4. f[i] = IF i = 1 THEN ss[i] ELSE f[i - 1] \o ss[i]
      BY <2>2, <3>3, Zenon DEF Joins
    <3>5. CASE i = 1
      <4>1. f[i] = ss[i] /\ (m <= i => m = i)
        BY <3>4, <3>5
      <4> QED
        BY <1>1, <1>3, <3>3, <4>1
    <3>6. CASE i # 1
      <4>1. i - 1 \in 1..n /\ ~(i <= i - 1)
        BY <3>3, <3>6
      <4>2. f[i - 1] \in Seq(S) /\ (m <= i - 1 => x \in ToSet(f[i - 1]))
        BY <3>2, <4>1
      <4>3. ss[i] \in Seq(S) /\ f[i] = f[i - 1] \o ss[i]
        BY <1>1, <3>3, <3>4, <3>6
      <4>4. f[i] \in Seq(S) /\ ToSet(f[i]) = ToSet(f[i - 1]) \cup ToSet(ss[i])
        BY <4>2, <4>3, ConcatSet
      <4>5. m <= i => m <= i - 1 \/ m = i
        BY <3>3
      <4> QED
        BY <1>3, <3>3, <4>2, <4>4, <4>5
    <3> QED
      BY <3>5, <3>6
  <2> QED
    BY <2>3, <2>4
<1> QED
  BY <1>3, FlattenParts

\* What a loop that skips some of its items collects.
LEMMA UnlessAll ==
  ASSUME NEW s, IsList(s), NEW out, NEW g,
         NEW ss, ss = [i \in DOMAIN s |-> ss[i]],
         \A i \in DOMAIN s : ss[i] = Nodes!Unless(out[i], g[i])
  PROVE  /\ IsList(FlattenSeq(ss))
         /\ \A x : x \in ToSet(FlattenSeq(ss)) <=> \E i \in DOMAIN s : ~out[i] /\ x = g[i]
<1>1. Len(s) \in Nat /\ DOMAIN s = 1..Len(s)
  BY ListTyped
<1>2. ASSUME NEW i \in 1..Len(s)
      PROVE  IsList(ss[i]) /\ \A x : x \in ToSet(ss[i]) <=> ~out[i] /\ x = g[i]
  <2>1. CASE out[i]
    <3>1. ss[i] = <<>>
      BY <1>1, <2>1 DEF Nodes!Unless
    <3> QED
      BY <2>1, <3>1, EmptyList
  <2>2. CASE ~out[i]
    <3>1. ss[i] = <<g[i]>>
      BY <1>1, <2>2 DEF Nodes!Unless
    <3> QED
      BY <2>2, <3>1, SingleList
  <2> QED
    BY <2>1, <2>2
<1>3. ss = [i \in 1..Len(s) |-> ss[i]]
  BY <1>1
<1> QED
  BY <1>1, <1>2, <1>3, FlattenAll

LEMMA KeptAll ==
  ASSUME NEW s, NEW wanted, IsList(s)
  PROVE  /\ IsList(Kept(s, wanted))
         /\ ToSet(Kept(s, wanted)) = ToSet(s) \cap wanted
<1> DEFINE ss == [i \in DOMAIN s |-> IF s[i] \in wanted THEN <<s[i]>> ELSE <<>>]
<1>1. Len(s) \in Nat /\ DOMAIN s = 1..Len(s) /\ ToSet(s) = {s[i] : i \in 1..Len(s)}
  BY ListTyped DEF ToSet
<1>2. /\ ss = [i \in 1..Len(s) |-> ss[i]]
      /\ \A i \in 1..Len(s) : ss[i] = IF s[i] \in wanted THEN <<s[i]>> ELSE <<>>
  BY <1>1
<1>3. Kept(s, wanted) = FlattenSeq(ss)
  BY DEF Kept
<1> HIDE DEF ss
<1>4. \A i \in 1..Len(s) :
        IsList(ss[i]) /\ \A x : x \in ToSet(ss[i]) <=> s[i] \in wanted /\ x = s[i]
  BY <1>2, EmptyList, SingleList
<1>5. /\ IsList(FlattenSeq(ss))
      /\ \A x : x \in ToSet(FlattenSeq(ss)) <=> \E i \in 1..Len(s) : x \in ToSet(ss[i])
  BY <1>1, <1>2, <1>4, FlattenAll
<1>6. \A x : x \in ToSet(s) <=> \E i \in 1..Len(s) : x = s[i]
  BY <1>1
<1>7. ASSUME NEW x PROVE x \in ToSet(FlattenSeq(ss)) <=> x \in ToSet(s) /\ x \in wanted
  <2>1. x \in ToSet(FlattenSeq(ss)) <=> \E i \in 1..Len(s) : s[i] \in wanted /\ x = s[i]
    BY <1>4, <1>5
  <2>2. x \in ToSet(s) <=> \E i \in 1..Len(s) : x = s[i]
    BY <1>6
  <2> QED
    BY <2>1, <2>2
<1>8. ToSet(FlattenSeq(ss)) = ToSet(s) \cap wanted
  BY <1>7
<1> QED
  BY <1>3, <1>5, <1>8, Zenon

-----------------------------------------------------------------------------
(* The rows of some data, table by table.                                  *)

Lists(d) == d = [t \in Tables |-> d[t]] /\ \A t \in Tables : IsList(d[t])

LEMMA MergeRows ==
  ASSUME NEW n \in Nat, NEW all, all = [i \in 1..n |-> all[i]], \A i \in 1..n : Lists(all[i])
  PROVE  /\ Lists(Merge(all))
         /\ \A t \in Tables : \A r :
              r \in ToSet(Merge(all)[t]) <=> \E i \in 1..n : r \in ToSet(all[i][t])
<1> DEFINE parts(t) == [i \in 1..n |-> all[i][t]]
           d == Merge(all)
<1>1. DOMAIN all = 1..n
  OBVIOUS
<1>2. d = [t \in Tables |-> FlattenSeq(parts(t))]
  BY <1>1 DEF Merge
<1>3. \A t : /\ parts(t) = [i \in 1..n |-> parts(t)[i]]
             /\ \A i \in 1..n : parts(t)[i] = all[i][t]
  OBVIOUS
<1> HIDE DEF parts, d
<1>4. \A t \in Tables :
        /\ IsList(FlattenSeq(parts(t)))
        /\ \A r : r \in ToSet(FlattenSeq(parts(t))) <=> \E i \in 1..n : r \in ToSet(all[i][t])
  <2> TAKE t \in Tables
  <2>1. \A i \in 1..n : IsList(parts(t)[i])
    BY <1>3 DEF Lists
  <2> QED
    BY <2>1, <1>3, FlattenAll
<1>5. \A t \in Tables : d[t] = FlattenSeq(parts(t))
  BY <1>2
<1>6. d = [t \in Tables |-> d[t]]
  BY <1>2
<1> QED
  BY <1>4, <1>5, <1>6 DEF Lists, d

LEMMA MergeTwo ==
  ASSUME NEW d, NEW e, Lists(d), Lists(e)
  PROVE  /\ Lists(Merge(<<d, e>>))
         /\ \A t \in Tables : ToSet(Merge(<<d, e>>)[t]) = ToSet(d[t]) \cup ToSet(e[t])
<1> DEFINE all == <<d, e>>
<1>1. all = [i \in 1..2 |-> all[i]] /\ all[1] = d /\ all[2] = e
  OBVIOUS
<1> HIDE DEF all
<1>2. \A i \in 1..2 : Lists(all[i])
  BY <1>1
<1>3. /\ Lists(Merge(all))
      /\ \A t \in Tables : \A r :
           r \in ToSet(Merge(all)[t]) <=> \E i \in 1..2 : r \in ToSet(all[i][t])
  BY <1>1, <1>2, MergeRows
<1>4. \A t \in Tables : \A r :
        r \in ToSet(Merge(all)[t]) <=> r \in ToSet(d[t]) \cup ToSet(e[t])
  BY <1>1, <1>3
<1> QED
  BY <1>3, <1>4 DEF all

LEMMA MergeThree ==
  ASSUME NEW d, NEW e, NEW f, Lists(d), Lists(e), Lists(f)
  PROVE  /\ Lists(Merge(<<d, e, f>>))
         /\ \A t \in Tables :
              ToSet(Merge(<<d, e, f>>)[t]) = ToSet(d[t]) \cup ToSet(e[t]) \cup ToSet(f[t])
<1> DEFINE all == <<d, e, f>>
<1>1. all = [i \in 1..3 |-> all[i]] /\ all[1] = d /\ all[2] = e /\ all[3] = f
  OBVIOUS
<1> HIDE DEF all
<1>2. \A i \in 1..3 : Lists(all[i])
  BY <1>1
<1>3. /\ Lists(Merge(all))
      /\ \A t \in Tables : \A r :
           r \in ToSet(Merge(all)[t]) <=> \E i \in 1..3 : r \in ToSet(all[i][t])
  BY <1>1, <1>2, MergeRows
<1>4. \A t \in Tables : \A r :
        r \in ToSet(Merge(all)[t]) <=> r \in ToSet(d[t]) \cup ToSet(e[t]) \cup ToSet(f[t])
  BY <1>1, <1>3
<1> QED
  BY <1>3, <1>4 DEF all

\* The data of a list, one for each of its items: R[x] is that of x.
LEMMA RowsOfItems ==
  ASSUME NEW all, IsList(all), NEW R, \A x \in ToSet(all) : Lists(R[x]),
         NEW parts, parts = [i \in DOMAIN all |-> parts[i]],
         \A i \in DOMAIN all : parts[i] = R[all[i]]
  PROVE  /\ Lists(Merge(parts))
         /\ \A t \in Tables : \A r :
              r \in ToSet(Merge(parts)[t]) <=> \E x \in ToSet(all) : r \in ToSet(R[x][t])
<1>1. Len(all) \in Nat /\ DOMAIN all = 1..Len(all) /\ ToSet(all) = {all[i] : i \in 1..Len(all)}
  BY ListTyped DEF ToSet
<1>2. \A i \in 1..Len(all) : all[i] \in ToSet(all) /\ parts[i] = R[all[i]]
  BY <1>1
<1>3. parts = [i \in 1..Len(all) |-> parts[i]] /\ \A i \in 1..Len(all) : Lists(parts[i])
  BY <1>1, <1>2
<1>4. /\ Lists(Merge(parts))
      /\ \A t \in Tables : \A r :
           r \in ToSet(Merge(parts)[t]) <=> \E i \in 1..Len(all) : r \in ToSet(parts[i][t])
  BY <1>1, <1>3, MergeRows
<1>5. \A t \in Tables : \A r :
        (\E i \in 1..Len(all) : r \in ToSet(parts[i][t]))
          <=> \E x \in ToSet(all) : r \in ToSet(R[x][t])
  BY <1>1, <1>2
<1> QED
  BY <1>4, <1>5

LEMMA NoRowsLists == Lists(NoRows) /\ \A t \in Tables : ToSet(NoRows[t]) = {}
<1>1. \A t \in Tables : NoRows[t] = <<>>
  BY DEF NoRows
<1>2. NoRows = [t \in Tables |-> NoRows[t]]
  BY DEF NoRows
<1> QED
  BY <1>1, <1>2, EmptyList DEF Lists

LEMMA OnlyLists ==
  ASSUME NEW t \in Tables, NEW row
  PROVE  /\ Lists(Only(t, row))
         /\ \A u \in Tables : ToSet(Only(t, row)[u]) = IF u = t THEN {row} ELSE {}
<1> DEFINE d == Only(t, row)
<1>1. d = [u \in Tables |-> IF u = t THEN <<row>> ELSE <<>>]
  BY DEF Only, NoRows
<1> HIDE DEF d
<1>2. d = [u \in Tables |-> d[u]] /\ \A u \in Tables : d[u] = IF u = t THEN <<row>> ELSE <<>>
  BY <1>1
<1>3. \A u \in Tables : IsList(d[u]) /\ ToSet(d[u]) = IF u = t THEN {row} ELSE {}
  BY <1>2, EmptyList, SingleList
<1> QED
  BY <1>2, <1>3 DEF Lists, d

\* The rows of d are made of the event of it, and are keyed as those of a
\* transaction or a liquidity are: by the transaction's hash, the number n of the
\* event, and a word.
MadeOf(d, it, n, sides, words) ==
  /\ Lists(d)
  /\ \A t \in Tables : \A r \in ToSet(d[t]) : r.of = it.ev.id
  /\ \A r \in ToSet(d["txs"]) : r.key[1] = it.hash /\ r.key[2] = n /\ r.key[3] \in sides
  /\ \A r \in ToSet(d["liqs"]) :
       r.key[1][1] = it.hash /\ r.key[1][2] \in words /\ r.key[1][3] = n

LEMMA OnlyMade ==
  ASSUME NEW it, NEW n, NEW sides, NEW words, NEW t \in Tables, NEW row,
         row.of = it.ev.id,
         t = "txs" => row.key[1] = it.hash /\ row.key[2] = n /\ row.key[3] \in sides,
         t = "liqs" => row.key[1][1] = it.hash /\ row.key[1][2] \in words /\ row.key[1][3] = n
  PROVE  MadeOf(Only(t, row), it, n, sides, words)
<1> DEFINE d == Only(t, row)
<1>1. Lists(d) /\ \A u \in Tables : ToSet(d[u]) = IF u = t THEN {row} ELSE {}
  BY OnlyLists
<1> HIDE DEF d
<1>2. \A u \in Tables : \A r \in ToSet(d[u]) : u = t /\ r = row
  BY <1>1
<1>3. "txs" \in Tables /\ "liqs" \in Tables
  BY DEF Tables
<1>4. \A r \in ToSet(d["txs"]) : t = "txs" /\ r = row
  BY <1>2, <1>3
<1>5. \A r \in ToSet(d["liqs"]) : t = "liqs" /\ r = row
  BY <1>2, <1>3
<1> QED
  BY <1>1, <1>2, <1>4, <1>5 DEF MadeOf, d

LEMMA MakersMade ==
  ASSUME NEW it, NEW n, NEW sides, NEW words
  PROVE  /\ \A side \in sides : MadeOf(TransactionRow(it, n, side), it, n, sides, words)
         /\ \A word \in words : \A addr :
              MadeOf(LiquidityRow(it, <<it.hash, word, n>>, addr), it, n, sides, words)
         /\ \A word \in words : \A addr, i :
              MadeOf(LiquidityRow(it, <<it.hash, word, n, i>>, addr), it, n, sides, words)
         /\ \A addr, tokens : MadeOf(PoolRow(it, addr, tokens), it, n, sides, words)
         /\ \A addr : MadeOf(TokenRow(it, addr), it, n, sides, words)
         /\ \A addr : MadeOf(ReserveRow(it, addr), it, n, sides, words)
<1>1. Tables = {"pools", "tokens", "txs", "liqs", "reserves"}
  BY DEF Tables
<1>2. ASSUME NEW side \in sides PROVE MadeOf(TransactionRow(it, n, side), it, n, sides, words)
  <2> DEFINE row == [key |-> <<it.hash, n, side>>, of |-> it.ev.id, number |-> it.number]
  <2>1. row.key[1] = it.hash /\ row.key[2] = n /\ row.key[3] = side /\ row.of = it.ev.id
    OBVIOUS
  <2> HIDE DEF row
  <2>2. MadeOf(Only("txs", row), it, n, sides, words)
    BY <1>1, <2>1, OnlyMade
  <2> QED
    BY <2>2 DEF TransactionRow, row
<1>3. ASSUME NEW name, NEW addr, name[1] = it.hash, name[2] \in words, name[3] = n
      PROVE  MadeOf(LiquidityRow(it, name, addr), it, n, sides, words)
  <2> DEFINE row == [key |-> <<name, addr>>, of |-> it.ev.id]
  <2>1. row.key[1] = name /\ row.of = it.ev.id
    OBVIOUS
  <2> HIDE DEF row
  <2>2. MadeOf(Only("liqs", row), it, n, sides, words)
    BY <1>1, <1>3, <2>1, OnlyMade
  <2> QED
    BY <2>2 DEF LiquidityRow, row
<1>4. ASSUME NEW word \in words, NEW addr, NEW i
      PROVE  /\ MadeOf(LiquidityRow(it, <<it.hash, word, n>>, addr), it, n, sides, words)
             /\ MadeOf(LiquidityRow(it, <<it.hash, word, n, i>>, addr), it, n, sides, words)
  <2> DEFINE three == <<it.hash, word, n>>
             four == <<it.hash, word, n, i>>
  <2>1. /\ three[1] = it.hash /\ three[2] \in words /\ three[3] = n
        /\ four[1] = it.hash /\ four[2] \in words /\ four[3] = n
    OBVIOUS
  <2> HIDE DEF three, four
  <2>2. /\ MadeOf(LiquidityRow(it, three, addr), it, n, sides, words)
        /\ MadeOf(LiquidityRow(it, four, addr), it, n, sides, words)
    BY <1>3, <2>1
  <2> QED
    BY <2>2 DEF three, four
<1>5. ASSUME NEW t \in {"pools", "tokens", "reserves"}, NEW row, row.of = it.ev.id
      PROVE  MadeOf(Only(t, row), it, n, sides, words)
  BY <1>1, <1>5, OnlyMade
<1>6. \A addr, tokens : MadeOf(PoolRow(it, addr, tokens), it, n, sides, words)
  BY <1>5 DEF PoolRow
<1>7. \A addr : /\ MadeOf(TokenRow(it, addr), it, n, sides, words)
                /\ MadeOf(ReserveRow(it, addr), it, n, sides, words)
  BY <1>5 DEF TokenRow, ReserveRow
<1> QED
  BY <1>2, <1>4, <1>6, <1>7

LEMMA WhenMade ==
  ASSUME NEW it, NEW n, NEW sides, NEW words, NEW c, NEW d, c => MadeOf(d, it, n, sides, words)
  PROVE  MadeOf(When(c, d), it, n, sides, words)
<1>1. MadeOf(NoRows, it, n, sides, words)
  <2>1. "txs" \in Tables /\ "liqs" \in Tables
    BY DEF Tables
  <2> QED
    BY <2>1, NoRowsLists DEF MadeOf
<1> QED
  BY <1>1 DEF When

LEMMA MergeMade ==
  ASSUME NEW it, NEW n, NEW sides, NEW words, NEW m \in Nat,
         NEW all, all = [i \in 1..m |-> all[i]],
         \A i \in 1..m : MadeOf(all[i], it, n, sides, words)
  PROVE  MadeOf(Merge(all), it, n, sides, words)
<1>1. \A i \in 1..m : Lists(all[i])
  BY DEF MadeOf
<1>2. /\ Lists(Merge(all))
      /\ \A t \in Tables : \A r :
           r \in ToSet(Merge(all)[t]) <=> \E i \in 1..m : r \in ToSet(all[i][t])
  BY <1>1, MergeRows
<1>3. \A t \in Tables : \A r \in ToSet(Merge(all)[t]) : r.of = it.ev.id
  BY <1>2 DEF MadeOf
<1>4. "txs" \in Tables /\ "liqs" \in Tables
  BY DEF Tables
<1>5. \A r \in ToSet(Merge(all)["txs"]) : \E i \in 1..m : r \in ToSet(all[i]["txs"])
  BY <1>2, <1>4
<1>6. \A r \in ToSet(Merge(all)["liqs"]) : \E i \in 1..m : r \in ToSet(all[i]["liqs"])
  BY <1>2, <1>4
<1>7. \A r \in ToSet(Merge(all)["txs"]) :
        r.key[1] = it.hash /\ r.key[2] = n /\ r.key[3] \in sides
  BY <1>5 DEF MadeOf
<1>8. \A r \in ToSet(Merge(all)["liqs"]) :
        r.key[1][1] = it.hash /\ r.key[1][2] \in words /\ r.key[1][3] = n
  BY <1>6 DEF MadeOf
<1> QED
  BY <1>2, <1>3, <1>7, <1>8 DEF MadeOf

-----------------------------------------------------------------------------
(* The events as an extractor is given them.                               *)

ItemAt(tx, events, i) ==
  [ev |-> events[i], pos |-> i - 1, hash |-> tx.hash, time |-> tx.time, number |-> tx.number]

InTx(it, tx, events) == \E i \in DOMAIN events : it = ItemAt(tx, events, i)

LEMMA ItemsAll ==
  ASSUME NEW S, NEW blocks, BlocksOf(blocks, S)
  PROVE  /\ IsList(Items(blocks))
         /\ \A it : it \in ToSet(Items(blocks)) <=>
              \E b \in ToSet(blocks) : \E tx \in ToSet(b.txs) : InTx(it, tx, tx.events)
<1> DEFINE ofTx(tx) == [i \in DOMAIN tx.events |-> ItemAt(tx, tx.events, i)]
           txParts(b) == [t \in DOMAIN b.txs |-> ofTx(b.txs[t])]
           parts == [b \in DOMAIN blocks |-> FlattenSeq(txParts(blocks[b]))]
<1>1. Items(blocks) = FlattenSeq(parts)
  BY DEF Items, ItemAt
<1>2. ASSUME NEW tx, IsList(tx.events)
      PROVE  /\ IsList(ofTx(tx))
             /\ \A it : it \in ToSet(ofTx(tx)) <=> InTx(it, tx, tx.events)
  <2> DEFINE n == Len(tx.events)
             R == {ItemAt(tx, tx.events, i) : i \in 1..n}
  <2>1. n \in Nat /\ DOMAIN tx.events = 1..n
    BY <1>2, ListTyped
  <2>2. ofTx(tx) \in [1..n -> R] /\ \A i \in 1..n : ofTx(tx)[i] = ItemAt(tx, tx.events, i)
    BY <2>1
  <2> HIDE DEF R, n, ofTx
  <2>3. IsList(ofTx(tx)) /\ ToSet(ofTx(tx)) \subseteq R /\ DOMAIN ofTx(tx) = 1..n
    BY <2>1, <2>2, ListFrom, SeqIsList
  <2>4. R \subseteq ToSet(ofTx(tx))
    BY <2>2, <2>3, ListTyped DEF R
  <2> QED
    BY <2>1, <2>3, <2>4 DEF R, InTx
<1> HIDE DEF ofTx
<1>3. ASSUME NEW b \in ToSet(blocks)
      PROVE  /\ IsList(FlattenSeq(txParts(b)))
             /\ \A it : it \in ToSet(FlattenSeq(txParts(b))) <=>
                  \E tx \in ToSet(b.txs) : InTx(it, tx, tx.events)
  <2> DEFINE n == Len(b.txs)
  <2>1. n \in Nat /\ DOMAIN b.txs = 1..n /\ ToSet(b.txs) = {b.txs[t] : t \in 1..n}
    BY ListTyped DEF BlocksOf, ToSet
  <2> HIDE DEF n
  <2>2. /\ txParts(b) = [t \in 1..n |-> txParts(b)[t]]
        /\ \A t \in 1..n : txParts(b)[t] = ofTx(b.txs[t])
    BY <2>1
  <2>3. \A tx \in ToSet(b.txs) : IsList(tx.events)
    BY DEF BlocksOf
  <2> HIDE DEF txParts
  <2>4. \A t \in 1..n :
          /\ IsList(txParts(b)[t])
          /\ \A it : it \in ToSet(txParts(b)[t]) <=>
               InTx(it, b.txs[t], b.txs[t].events)
    BY <1>2, <2>1, <2>2, <2>3
  <2>5. /\ IsList(FlattenSeq(txParts(b)))
        /\ \A it : it \in ToSet(FlattenSeq(txParts(b)))
             <=> \E t \in 1..n : it \in ToSet(txParts(b)[t])
    BY <2>1, <2>2, <2>4, FlattenAll
  <2>6. ASSUME NEW it
        PROVE  (\E t \in 1..n : InTx(it, b.txs[t], b.txs[t].events)) <=> \E tx \in ToSet(b.txs) : InTx(it, tx, tx.events)
    BY <2>1
  <2>7. \A it : it \in ToSet(FlattenSeq(txParts(b))) <=> \E t \in 1..n : InTx(it, b.txs[t], b.txs[t].events)
    BY <2>4, <2>5
  <2> QED
    BY <2>5, <2>6, <2>7
<1> HIDE DEF txParts
<1>4. Len(blocks) \in Nat /\ DOMAIN blocks = 1..Len(blocks)
      /\ ToSet(blocks) = {blocks[b] : b \in 1..Len(blocks)}
  BY ListTyped DEF BlocksOf, ToSet
<1>5. /\ parts = [b \in 1..Len(blocks) |-> parts[b]]
      /\ \A b \in 1..Len(blocks) : parts[b] = FlattenSeq(txParts(blocks[b]))
  BY <1>4
<1> HIDE DEF parts
<1>6. \A b \in 1..Len(blocks) :
        /\ IsList(parts[b])
        /\ \A it : it \in ToSet(parts[b]) <=> \E tx \in ToSet(blocks[b].txs) : InTx(it, tx, tx.events)
  BY <1>3, <1>4, <1>5
<1>7. /\ IsList(FlattenSeq(parts))
      /\ \A it : it \in ToSet(FlattenSeq(parts)) <=>
           \E b \in 1..Len(blocks) : it \in ToSet(parts[b])
  BY <1>4, <1>5, <1>6, FlattenAll
<1>8. \A it : it \in ToSet(FlattenSeq(parts)) <=>
        \E b \in 1..Len(blocks) : \E tx \in ToSet(blocks[b].txs) : InTx(it, tx, tx.events)
  BY <1>6, <1>7
<1>9. ASSUME NEW it
      PROVE  (\E b \in 1..Len(blocks) : \E tx \in ToSet(blocks[b].txs) : InTx(it, tx, tx.events))
               <=> \E b \in ToSet(blocks) : \E tx \in ToSet(b.txs) : InTx(it, tx, tx.events)
  BY <1>4
<1> QED
  BY <1>1, <1>7, <1>8, <1>9

\* The same on Solana, where the lines are decoded first.
LEMMA EventItemsAll ==
  ASSUME NEW S, NEW blocks, BlocksOf(blocks, S)
  PROVE  /\ IsList(EventItems(blocks))
         /\ \A it : it \in ToSet(EventItems(blocks)) <=>
              \E b \in ToSet(blocks) : \E tx \in ToSet(b.txs) :
                InTx(it, tx, ExtractSolanaEventData(tx))
<1> DEFINE decoded(tx) == [tx EXCEPT !.events = ExtractSolanaEventData(tx)]
           txs(b) == [t \in DOMAIN b.txs |-> decoded(b.txs[t])]
           all(b) == [b EXCEPT !.txs = txs(b)]
           bs == [b \in DOMAIN blocks |-> all(blocks[b])]
           TxOk(tx) == /\ {"hash", "number", "time", "events"} \subseteq DOMAIN tx
                       /\ <<tx.hash, tx.number>> \in S
                       /\ IsList(tx.events) /\ \A e \in ToSet(tx.events) : IsList(e.tokens)
<1>1. EventItems(blocks) = Items(bs)
  BY DEF EventItems
<1>2. ASSUME NEW tx, TxOk(tx)
      PROVE  /\ TxOk(decoded(tx))
             /\ decoded(tx).events = ExtractSolanaEventData(tx)
             /\ decoded(tx).hash = tx.hash /\ decoded(tx).number = tx.number
             /\ decoded(tx).time = tx.time
  <2> DEFINE got == ExtractSolanaEventData(tx)
  <2>1. IsList(got) /\ \A e \in ToSet(got) : e \in ToSet(tx.events)
    BY <1>2, KeptOf DEF ExtractSolanaEventData
  <2> HIDE DEF got
  <2>2. /\ DOMAIN decoded(tx) = DOMAIN tx
        /\ decoded(tx).hash = tx.hash /\ decoded(tx).number = tx.number
        /\ decoded(tx).time = tx.time
        /\ decoded(tx).events = got
    BY <1>2 DEF got
  <2> HIDE DEF decoded
  <2> QED
    BY <1>2, <2>1, <2>2 DEF got
<1> HIDE DEF decoded
<1>3. ASSUME NEW tx, TxOk(tx)
      PROVE  \A i : ItemAt(decoded(tx), decoded(tx).events, i)
                      = ItemAt(tx, ExtractSolanaEventData(tx), i)
  BY <1>2, <1>3 DEF ItemAt
<1>4. ASSUME NEW b \in ToSet(blocks)
      PROVE  /\ "txs" \in DOMAIN all(b) /\ IsList(all(b).txs)
             /\ ToSet(all(b).txs) = {decoded(tx) : tx \in ToSet(b.txs)}
             /\ \A tx \in ToSet(b.txs) : TxOk(tx)
  <2> DEFINE n == Len(b.txs)
             R == {decoded(tx) : tx \in ToSet(b.txs)}
  <2>1. n \in Nat /\ DOMAIN b.txs = 1..n /\ ToSet(b.txs) = {b.txs[t] : t \in 1..n}
    BY ListTyped DEF BlocksOf, ToSet
  <2>2. /\ txs(b) \in [1..n -> R]
        /\ \A t \in 1..n : txs(b)[t] = decoded(b.txs[t])
    BY <2>1
  <2>3. \A tx \in ToSet(b.txs) : TxOk(tx)
    BY DEF BlocksOf
  <2>4. "txs" \in DOMAIN all(b) /\ all(b).txs = txs(b)
    <3>1. "txs" \in DOMAIN b
      BY DEF BlocksOf
    <3> HIDE DEF txs
    <3> QED
      BY <3>1
  <2> HIDE DEF R, txs, all, TxOk, n
  <2>5. IsList(txs(b)) /\ ToSet(txs(b)) \subseteq R /\ DOMAIN txs(b) = 1..n
    BY <2>1, <2>2, ListFrom, SeqIsList
  <2>6. R \subseteq ToSet(txs(b))
    <3>1. \A t \in 1..n : txs(b)[t] \in ToSet(txs(b))
      BY <2>5, ListTyped
    <3> QED
      BY <2>1, <2>2, <3>1 DEF R
  <2> QED
    BY <2>3, <2>4, <2>5, <2>6 DEF R
<1> HIDE DEF all
<1>5. BlocksOf(bs, S) /\ ToSet(bs) = {all(b) : b \in ToSet(blocks)}
  <2> DEFINE n == Len(blocks)
             R == {all(b) : b \in ToSet(blocks)}
  <2>1. n \in Nat /\ DOMAIN blocks = 1..n /\ ToSet(blocks) = {blocks[b] : b \in 1..n}
    BY ListTyped DEF BlocksOf, ToSet
  <2>2. bs \in [1..n -> R] /\ \A b \in 1..n : bs[b] = all(blocks[b])
    BY <2>1
  <2>3. \A b \in R : /\ "txs" \in DOMAIN b /\ IsList(b.txs)
                     /\ \A tx \in ToSet(b.txs) : TxOk(tx)
    <3> HIDE DEF TxOk, bs, n
    <3>1. ASSUME NEW b \in ToSet(blocks), NEW tx \in ToSet(all(b).txs) PROVE TxOk(tx)
      <4>1. PICK raw \in ToSet(b.txs) : tx = decoded(raw)
        BY <1>4, <3>1
      <4> QED
        BY <1>2, <1>4, <4>1
    <3> QED
      BY <1>4, <3>1
  <2> HIDE DEF R, bs, n
  <2>4. IsList(bs) /\ ToSet(bs) \subseteq R /\ DOMAIN bs = 1..n
    BY <2>1, <2>2, ListFrom, SeqIsList
  <2>5. R \subseteq ToSet(bs)
    <3>1. \A b \in 1..n : bs[b] \in ToSet(bs)
      BY <2>4, ListTyped
    <3> QED
      BY <2>1, <2>2, <3>1 DEF R
  <2>6. BlocksOf(bs, S)
    BY <2>3, <2>4 DEF BlocksOf
  <2> QED
    BY <2>4, <2>5, <2>6 DEF R
<1> HIDE DEF bs, TxOk
<1>6. /\ IsList(Items(bs))
      /\ \A it : it \in ToSet(Items(bs)) <=>
           \E b \in ToSet(bs) : \E tx \in ToSet(b.txs) : InTx(it, tx, tx.events)
  BY <1>5, ItemsAll
<1>7. ASSUME NEW it
      PROVE  (\E b \in ToSet(bs) : \E tx \in ToSet(b.txs) : InTx(it, tx, tx.events))
             <=> \E b \in ToSet(blocks) : \E tx \in ToSet(b.txs) : InTx(it, decoded(tx), decoded(tx).events)
  BY <1>4, <1>5
<1>8. ASSUME NEW it, NEW b \in ToSet(blocks), NEW tx \in ToSet(b.txs)
      PROVE  InTx(it, decoded(tx), decoded(tx).events)
             <=> InTx(it, tx, ExtractSolanaEventData(tx))
  <2>1. TxOk(tx)
    BY <1>4
  <2>2. decoded(tx).events = ExtractSolanaEventData(tx)
    BY <1>2, <2>1
  <2> QED
    BY <1>3, <2>1, <2>2 DEF InTx
<1>9. \A it : (\E b \in ToSet(blocks) : \E tx \in ToSet(b.txs) : InTx(it, decoded(tx), decoded(tx).events))
               <=> \E b \in ToSet(blocks) : \E tx \in ToSet(b.txs) :
                     InTx(it, tx, ExtractSolanaEventData(tx))
  BY <1>8
<1> QED
  BY <1>1, <1>6, <1>7, <1>9

\* The events as the extractors of the chain c are given them.
LinesOf(c, tx) == IF c = "solana" THEN ExtractSolanaEventData(tx) ELSE tx.events

ItemsOf(c, blocks) == IF c = "solana" THEN EventItems(blocks) ELSE Items(blocks)

LEMMA ItemsOfAll ==
  ASSUME NEW c, NEW S, NEW blocks, BlocksOf(blocks, S)
  PROVE  /\ IsList(ItemsOf(c, blocks))
         /\ \A it : it \in ToSet(ItemsOf(c, blocks)) <=>
              \E b \in ToSet(blocks) : \E tx \in ToSet(b.txs) : InTx(it, tx, LinesOf(c, tx))
<1>1. CASE c = "solana"
  <2>1. ItemsOf(c, blocks) = EventItems(blocks) /\ \A tx : LinesOf(c, tx) = ExtractSolanaEventData(tx)
    BY <1>1 DEF ItemsOf, LinesOf
  <2> QED
    BY <2>1, EventItemsAll
<1>2. CASE c # "solana"
  <2>1. ItemsOf(c, blocks) = Items(blocks) /\ \A tx : LinesOf(c, tx) = tx.events
    BY <1>2 DEF ItemsOf, LinesOf
  <2> QED
    BY <2>1, ItemsAll
<1> QED
  BY <1>1, <1>2

LEMMA ItemsByBlock ==
  ASSUME NEW c, NEW S, NEW blocks, BlocksOf(blocks, S), NEW it
  PROVE  it \in ToSet(ItemsOf(c, blocks))
           <=> \E b \in ToSet(blocks) : it \in ToSet(ItemsOf(c, <<b>>))
<1>1. ASSUME NEW b \in ToSet(blocks)
      PROVE  it \in ToSet(ItemsOf(c, <<b>>)) <=>
               \E tx \in ToSet(b.txs) : InTx(it, tx, LinesOf(c, tx))
  <2>1. ToSet(<<b>>) = {b} /\ IsList(<<b>>)
    BY SingleList
  <2> DEFINE one == <<b>>
  <2> HIDE DEF one
  <2>2. BlocksOf(one, S)
    BY <2>1 DEF BlocksOf, one
  <2>3. it \in ToSet(ItemsOf(c, one)) <=>
          \E b2 \in ToSet(one) : \E tx \in ToSet(b2.txs) : InTx(it, tx, LinesOf(c, tx))
    BY <2>2, ItemsOfAll
  <2>4. \A b2 : b2 \in ToSet(one) <=> b2 = b
    BY <2>1 DEF one
  <2>5. (\E b2 \in ToSet(one) : \E tx \in ToSet(b2.txs) : InTx(it, tx, LinesOf(c, tx)))
          <=> \E tx \in ToSet(b.txs) : InTx(it, tx, LinesOf(c, tx))
    BY <2>4
  <2> QED
    BY <2>3, <2>5 DEF one
<1>2. it \in ToSet(ItemsOf(c, blocks)) <=>
        \E b \in ToSet(blocks) : \E tx \in ToSet(b.txs) : InTx(it, tx, LinesOf(c, tx))
  BY ItemsOfAll
<1> QED
  BY <1>1, <1>2

\* d has the rows that R gives to the items of bs, and no other.
Collects(d, R, c, bs) ==
  /\ Lists(d)
  /\ \A t \in Tables : \A r :
       r \in ToSet(d[t]) <=> \E it \in ToSet(ItemsOf(c, bs)) : r \in ToSet(R[it][t])

PartsOf(parts, all, R) ==
  parts = [i \in DOMAIN all |-> parts[i]] /\ \A i \in DOMAIN all : parts[i] = R[all[i]]

LEMMA CollectedRows ==
  ASSUME NEW all, IsList(all), NEW R, \A x \in ToSet(all) : Lists(R[x]),
         NEW parts, PartsOf(parts, all, R)
  PROVE  /\ Lists(Merge(parts))
         /\ \A t \in Tables : \A r :
              r \in ToSet(Merge(parts)[t]) <=> \E x \in ToSet(all) : r \in ToSet(R[x][t])
BY RowsOfItems DEF PartsOf

\* An extractor makes its rows of each event alone: that it is not given the blocks
\* without any event of its own makes no difference.
LEMMA ExtractorAll ==
  ASSUME NEW c, NEW S, NEW bs, BlocksOf(bs, S), NEW W,
         NEW R, \A it \in ToSet(ItemsOf(c, bs)) : Lists(R[it]),
         \A b \in ToSet(bs) : \A it \in ToSet(ItemsOf(c, bs)) : \A t \in Tables :
           it \in ToSet(ItemsOf(c, <<b>>)) /\ ToSet(R[it][t]) # {} => b \in W,
         NEW all, all = ItemsOf(c, Kept(bs, W)),
         NEW parts, parts = [i \in DOMAIN all |-> parts[i]],
         \A i \in DOMAIN all : all[i] \in ToSet(ItemsOf(c, bs)) => parts[i] = R[all[i]]
  PROVE  Collects(Merge(parts), R, c, bs)
<1> DEFINE some == Kept(bs, W)
<1>1. BlocksOf(some, S) /\ ToSet(some) = ToSet(bs) \cap W
  BY KeptBlocksOf, KeptAll DEF BlocksOf
<1>2. all = ItemsOf(c, some)
  OBVIOUS
<1> HIDE DEF some
<1>3. IsList(all)
  BY <1>1, <1>2, ItemsOfAll
<1>4. \A it : it \in ToSet(all) <=> \E b \in ToSet(bs) \cap W : it \in ToSet(ItemsOf(c, <<b>>))
  BY <1>1, <1>2, ItemsByBlock
<1>5. \A it : it \in ToSet(ItemsOf(c, bs)) <=> \E b \in ToSet(bs) : it \in ToSet(ItemsOf(c, <<b>>))
  <2> TAKE it
  <2> QED
    BY ItemsByBlock
<1>6. \A it \in ToSet(all) : it \in ToSet(ItemsOf(c, bs)) /\ Lists(R[it])
  BY <1>4, <1>5
<1>7. PartsOf(parts, all, R)
  <2>1. \A i \in DOMAIN all : all[i] \in ToSet(all)
    BY DEF ToSet
  <2>2. ASSUME NEW i \in DOMAIN all PROVE parts[i] = R[all[i]]
    <3>1. all[i] \in ToSet(ItemsOf(c, bs))
      BY <1>6, <2>1
    <3> QED
      BY <3>1
  <2> QED
    BY <2>2 DEF PartsOf
<1>8. /\ Lists(Merge(parts))
      /\ \A t \in Tables : \A r :
           r \in ToSet(Merge(parts)[t]) <=> \E it \in ToSet(all) : r \in ToSet(R[it][t])
  BY <1>3, <1>6, <1>7, CollectedRows
<1>9. ASSUME NEW t \in Tables, NEW r, NEW it \in ToSet(ItemsOf(c, bs)), r \in ToSet(R[it][t])
      PROVE  it \in ToSet(all)
  <2>1. PICK b \in ToSet(bs) : it \in ToSet(ItemsOf(c, <<b>>))
    BY <1>5
  <2>2. b \in W
    BY <1>9, <2>1
  <2> QED
    BY <1>4, <2>1, <2>2
<1>10. ASSUME NEW t \in Tables, NEW r
       PROVE  (\E it \in ToSet(all) : r \in ToSet(R[it][t]))
                <=> \E it \in ToSet(ItemsOf(c, bs)) : r \in ToSet(R[it][t])
  BY <1>6, <1>9
<1> QED
  BY <1>8, <1>10 DEF Collects

-----------------------------------------------------------------------------
(* BSC.                                                                    *)

PancakeRow(it) == When(Pancake!isPancakeSwapLog(it.ev), Pancake!ParseLog(it))

LEMMA PancakeMade ==
  ASSUME NEW it
  PROVE  MadeOf(PancakeRow(it), it, it.ev.index, {"swap"}, {"add", "remove"})
<1> DEFINE Made(d) == MadeOf(d, it, it.ev.index, {"swap"}, {"add", "remove"})
<1>1. /\ Made(TransactionRow(it, it.ev.index, "swap"))
      /\ \A addr : /\ Made(LiquidityRow(it, <<it.hash, "add", it.ev.index>>, addr))
                   /\ Made(LiquidityRow(it, <<it.hash, "remove", it.ev.index>>, addr))
      /\ \A addr, tokens : Made(PoolRow(it, addr, tokens))
  BY MakersMade
<1>2. \A c, d : Made(d) => Made(When(c, d))
  BY WhenMade
<1>3. Made(NoRows)
  <2>1. NoRows = When(FALSE, NoRows)
    BY DEF When
  <2> QED
    BY <2>1, WhenMade
<1> HIDE DEF Made
<1>4. ASSUME Pancake!isPancakeSwapLog(it.ev) PROVE Made(Pancake!ParseLog(it))
  <2>1. /\ Made(Pancake!parseV2Swap(it)) /\ Made(Pancake!parseV3Swap(it))
        /\ Made(Pancake!parseLiquidity(it, "add"))
        /\ Made(Pancake!parseLiquidity(it, "remove"))
        /\ Made(Pancake!parseV2PairCreated(it)) /\ Made(Pancake!parseV3PoolCreated(it))
    BY <1>1, <1>2, PancakeRows
       DEF Pancake!parseV2Swap, Pancake!parseV3Swap, Pancake!parseLiquidity,
           Pancake!parseV2PairCreated, Pancake!parseV3PoolCreated
  <2>2. Pancake!getLogType[it.ev.sig]
          \in {"swap_v2", "swap_v3", "mint", "burn", "pair_created", "pool_created"}
    BY <1>4 DEF Pancake!isPancakeSwapLog, Pancake!getLogType
  <2> QED
    BY <2>1, <2>2 DEF Pancake!ParseLog
<1>5. Made(PancakeRow(it))
  BY <1>3, <1>4 DEF PancakeRow, When
<1> QED
  BY <1>5 DEF Made

FourMemeRow(it) == When(FourMeme!isFourMemeLog(it.ev), FourMeme!ParseLog(it))

LEMMA FourMemeMade ==
  ASSUME NEW it
  PROVE  MadeOf(FourMemeRow(it), it, it.pos, {"buy", "sell"}, {"liquidity"})
<1> DEFINE Made(d) == MadeOf(d, it, it.pos, {"buy", "sell"}, {"liquidity"})
<1>1. /\ Made(TransactionRow(it, it.pos, "buy")) /\ Made(TransactionRow(it, it.pos, "sell"))
      /\ \A addr : Made(LiquidityRow(it, <<it.hash, "liquidity", it.pos>>, addr))
      /\ \A addr, tokens : Made(PoolRow(it, addr, tokens))
  BY MakersMade
<1>2. \A c, d : Made(d) => Made(When(c, d))
  BY WhenMade
<1>3. Made(NoRows)
  <2>1. NoRows = When(FALSE, NoRows)
    BY DEF When
  <2> QED
    BY <2>1, WhenMade
<1> HIDE DEF Made
<1>4. Made(FourMeme!ParseLog(it))
  <2>1. /\ Made(FourMeme!parseV2Purchase(it)) /\ Made(FourMeme!parseV2Sale(it))
        /\ Made(FourMeme!parseV1Purchase(it)) /\ Made(FourMeme!parseV1Sale(it))
        /\ Made(FourMeme!parseV2TokenCreate(it)) /\ Made(FourMeme!parseV1TokenCreate(it))
        /\ Made(FourMeme!parseV2LiquidityAdded(it))
    BY <1>1, <1>2, FourMemeRows
       DEF FourMeme!parseV2Purchase, FourMeme!parseV2Sale, FourMeme!parseV1Purchase,
           FourMeme!parseV1Sale, FourMeme!parseV2TokenCreate,
           FourMeme!parseV1TokenCreate, FourMeme!parseV2LiquidityAdded
  <2>2. Made(FourMeme!NoRows)
    BY <1>3, FourMemeRows
  <2> QED
    BY <2>1, <2>2 DEF FourMeme!ParseLog
<1>5. Made(FourMemeRow(it))
  BY <1>3, <1>4 DEF FourMemeRow, When
<1> QED
  BY <1>5 DEF Made

LEMMA PancakeAll ==
  ASSUME NEW S, NEW bs, BlocksOf(bs, S)
  PROVE  Collects(Pancake!ExtractDexData(Supported(bs, Pancake!SupportsBlock)),
                  [it \in ToSet(ItemsOf("bsc", bs)) |-> PancakeRow(it)], "bsc", bs)
<1> DEFINE W == {b \in ToSet(bs) : Pancake!SupportsBlock(b)}
           R == [it \in ToSet(ItemsOf("bsc", bs)) |-> PancakeRow(it)]
           all == ItemsOf("bsc", Kept(bs, W))
           parts == [i \in DOMAIN all |->
                       When(Pancake!isPancakeSwapLog(all[i].ev), Pancake!ParseLog(all[i]))]
<1>1. Pancake!ExtractDexData(Supported(bs, Pancake!SupportsBlock)) = Merge(parts)
  BY PancakeRows DEF Pancake!ExtractDexData, Supported, ItemsOf
<1>2. \A it \in ToSet(ItemsOf("bsc", bs)) : Lists(R[it]) /\ R[it] = PancakeRow(it)
  BY PancakeMade DEF MadeOf
<1>3. ASSUME NEW b \in ToSet(bs), NEW it \in ToSet(ItemsOf("bsc", bs)), NEW t \in Tables,
             it \in ToSet(ItemsOf("bsc", <<b>>)), ToSet(R[it][t]) # {}
      PROVE  b \in W
  <2>1. Pancake!isPancakeSwapLog(it.ev)
    BY <1>2, <1>3, NoRowsLists DEF PancakeRow, When
  <2>2. Pancake!Items(<<b>>) = ItemsOf("bsc", <<b>>)
    BY PancakeRows DEF ItemsOf
  <2>3. Pancake!SupportsBlock(b)
    BY <1>3, <2>1, <2>2, Zenon DEF Pancake!SupportsBlock, Pancake!ToSet, ToSet
  <2> QED
    BY <2>3
<1>4. /\ parts = [i \in DOMAIN all |-> parts[i]]
      /\ \A i \in DOMAIN all : all[i] \in ToSet(ItemsOf("bsc", bs)) => parts[i] = R[all[i]]
  <2> HIDE DEF all
  <2> QED
    BY DEF PancakeRow
<1> HIDE DEF W, R, parts
<1>5. Collects(Merge(parts), R, "bsc", bs)
  BY <1>2, <1>3, <1>4, ExtractorAll
<1> QED
  BY <1>1, <1>5 DEF R

LEMMA FourMemeAll ==
  ASSUME NEW S, NEW bs, BlocksOf(bs, S)
  PROVE  Collects(FourMeme!ExtractDexData(Supported(bs, FourMeme!SupportsBlock)),
                  [it \in ToSet(ItemsOf("bsc", bs)) |-> FourMemeRow(it)], "bsc", bs)
<1> DEFINE W == {b \in ToSet(bs) : FourMeme!SupportsBlock(b)}
           R == [it \in ToSet(ItemsOf("bsc", bs)) |-> FourMemeRow(it)]
           all == ItemsOf("bsc", Kept(bs, W))
           parts == [i \in DOMAIN all |->
                       When(FourMeme!isFourMemeLog(all[i].ev), FourMeme!ParseLog(all[i]))]
<1>1. FourMeme!ExtractDexData(Supported(bs, FourMeme!SupportsBlock)) = Merge(parts)
  BY FourMemeRows DEF FourMeme!ExtractDexData, Supported, ItemsOf
<1>2. \A it \in ToSet(ItemsOf("bsc", bs)) : Lists(R[it]) /\ R[it] = FourMemeRow(it)
  BY FourMemeMade DEF MadeOf
<1>3. ASSUME NEW b \in ToSet(bs), NEW it \in ToSet(ItemsOf("bsc", bs)), NEW t \in Tables,
             it \in ToSet(ItemsOf("bsc", <<b>>)), ToSet(R[it][t]) # {}
      PROVE  b \in W
  <2>1. FourMeme!isFourMemeLog(it.ev)
    BY <1>2, <1>3, NoRowsLists DEF FourMemeRow, When
  <2>2. FourMeme!Items(<<b>>) = ItemsOf("bsc", <<b>>)
    BY FourMemeRows DEF ItemsOf
  <2>3. FourMeme!SupportsBlock(b)
    BY <1>3, <2>1, <2>2, Zenon DEF FourMeme!SupportsBlock, FourMeme!ToSet, ToSet
  <2> QED
    BY <2>3
<1>4. /\ parts = [i \in DOMAIN all |-> parts[i]]
      /\ \A i \in DOMAIN all : all[i] \in ToSet(ItemsOf("bsc", bs)) => parts[i] = R[all[i]]
  <2> HIDE DEF all
  <2> QED
    BY DEF FourMemeRow
<1> HIDE DEF W, R, parts
<1>5. Collects(Merge(parts), R, "bsc", bs)
  BY <1>2, <1>3, <1>4, ExtractorAll
<1> QED
  BY <1>1, <1>5 DEF R

-----------------------------------------------------------------------------
(* Solana.                                                                 *)

LEMMA PumpFunEvents == \A blocks : PumpFun!EventItems(blocks) = EventItems(blocks)
BY PumpFunRows, Zenon
   DEF PumpFun!EventItems, EventItems, PumpFun!ExtractSolanaEventData, ExtractSolanaEventData,
       PumpFun!ToSet, ToSet

LEMMA PumpSwapEvents == \A blocks : PumpSwap!EventItems(blocks) = EventItems(blocks)
BY PumpSwapRows, Zenon
   DEF PumpSwap!EventItems, EventItems, PumpSwap!ExtractSolanaEventData, ExtractSolanaEventData,
       PumpSwap!ToSet, ToSet

PumpFunRow(it) == When(it.ev.sig \in PumpFun!Discriminators, PumpFun!ParseEvent(it))

LEMMA PumpFunMade ==
  ASSUME NEW it
  PROVE  MadeOf(PumpFunRow(it), it, it.pos, {it.ev.side}, {"graduate"})
<1> DEFINE Made(d) == MadeOf(d, it, it.pos, {it.ev.side}, {"graduate"})
           pair == <<PoolRow(it, it.ev.pool, it.ev.tokens), TokenRow(it, it.ev.tokens[1])>>
<1>1. /\ Made(TransactionRow(it, it.pos, it.ev.side))
      /\ \A addr : Made(LiquidityRow(it, <<it.hash, "graduate", it.pos>>, addr))
      /\ \A addr, tokens : Made(PoolRow(it, addr, tokens))
      /\ \A addr : Made(TokenRow(it, addr))
  BY MakersMade
<1>2. \A c, d : Made(d) => Made(When(c, d))
  BY WhenMade
<1>3. Made(NoRows)
  <2>1. NoRows = When(FALSE, NoRows)
    BY DEF When
  <2> QED
    BY <2>1, WhenMade
<1>4. Made(Merge(pair))
  <2>1. pair = [i \in 1..2 |-> pair[i]]
    OBVIOUS
  <2>2. \A i \in 1..2 : Made(pair[i])
    <3> HIDE DEF Made
    <3> QED
      BY <1>1
  <2> HIDE DEF pair
  <2> QED
    BY <2>1, <2>2, MergeMade
<1> HIDE DEF Made, pair
<1>5. ASSUME it.ev.sig \in PumpFun!Discriminators PROVE Made(PumpFun!ParseEvent(it))
  <2>1. Made(PumpFun!parseTradeEvent(it)) /\ Made(PumpFun!parseCompleteEvent(it))
    BY <1>1, <1>2, PumpFunRows DEF PumpFun!parseTradeEvent, PumpFun!parseCompleteEvent
  <2>2. PumpFun!parseCreateEvent(it) = When(it.ev.bytes >= 108, Merge(pair))
    BY PumpFunRows DEF PumpFun!parseCreateEvent, pair
  <2>3. Made(PumpFun!parseCreateEvent(it))
    BY <1>2, <1>4, <2>2
  <2>4. it.ev.sig \in {"Trade", "Create", "Complete"}
    BY <1>5 DEF PumpFun!Discriminators
  <2> QED
    BY <2>1, <2>3, <2>4 DEF PumpFun!ParseEvent
<1>6. Made(PumpFunRow(it))
  BY <1>3, <1>5 DEF PumpFunRow, When
<1> QED
  BY <1>6 DEF Made

PumpSwapRow(it) == When(it.ev.sig \in PumpSwap!Discriminators, PumpSwap!ParseEvent(it))

LEMMA PumpSwapMade ==
  ASSUME NEW it
  PROVE  MadeOf(PumpSwapRow(it), it, it.pos, {"buy", "sell"}, {"add", "remove"})
<1> DEFINE Made(d) == MadeOf(d, it, it.pos, {"buy", "sell"}, {"add", "remove"})
<1>1. /\ Made(TransactionRow(it, it.pos, "buy")) /\ Made(TransactionRow(it, it.pos, "sell"))
      /\ \A addr : /\ Made(LiquidityRow(it, <<it.hash, "add", it.pos>>, addr))
                   /\ Made(LiquidityRow(it, <<it.hash, "remove", it.pos>>, addr))
      /\ \A addr, tokens : Made(PoolRow(it, addr, tokens))
  BY MakersMade
<1>2. \A c, d : Made(d) => Made(When(c, d))
  BY WhenMade
<1>3. Made(NoRows)
  <2>1. NoRows = When(FALSE, NoRows)
    BY DEF When
  <2> QED
    BY <2>1, WhenMade
<1> HIDE DEF Made
<1>4. ASSUME it.ev.sig \in PumpSwap!Discriminators PROVE Made(PumpSwap!ParseEvent(it))
  <2>1. /\ Made(PumpSwap!parseBuyEvent(it)) /\ Made(PumpSwap!parseSellEvent(it))
        /\ Made(PumpSwap!parseCreatePoolEvent(it))
        /\ Made(PumpSwap!parseDepositEvent(it)) /\ Made(PumpSwap!parseWithdrawEvent(it))
    BY <1>1, <1>2, PumpSwapRows
       DEF PumpSwap!parseBuyEvent, PumpSwap!parseSellEvent, PumpSwap!parseCreatePoolEvent,
           PumpSwap!parseDepositEvent, PumpSwap!parseWithdrawEvent
  <2>2. it.ev.sig \in {"Buy", "Sell", "CreatePool", "Deposit", "Withdraw"}
    BY <1>4 DEF PumpSwap!Discriminators
  <2> QED
    BY <2>1, <2>2 DEF PumpSwap!ParseEvent
<1>5. Made(PumpSwapRow(it))
  BY <1>3, <1>4 DEF PumpSwapRow, When
<1> QED
  BY <1>5 DEF Made

LEMMA PumpFunAll ==
  ASSUME NEW S, NEW bs, BlocksOf(bs, S)
  PROVE  Collects(PumpFun!ExtractDexData(Supported(bs, PumpFun!SupportsBlock)),
                  [it \in ToSet(ItemsOf("solana", bs)) |-> PumpFunRow(it)], "solana", bs)
<1> DEFINE W == {b \in ToSet(bs) : PumpFun!SupportsBlock(b)}
           R == [it \in ToSet(ItemsOf("solana", bs)) |-> PumpFunRow(it)]
           all == ItemsOf("solana", Kept(bs, W))
           parts == [i \in DOMAIN all |->
                       When(all[i].ev.sig \in PumpFun!Discriminators, PumpFun!ParseEvent(all[i]))]
<1>1. PumpFun!ExtractDexData(Supported(bs, PumpFun!SupportsBlock)) = Merge(parts)
  BY PumpFunRows, PumpFunEvents DEF PumpFun!ExtractDexData, Supported, ItemsOf
<1>2. \A it \in ToSet(ItemsOf("solana", bs)) : Lists(R[it]) /\ R[it] = PumpFunRow(it)
  BY PumpFunMade DEF MadeOf
<1>3. ASSUME NEW b \in ToSet(bs), NEW it \in ToSet(ItemsOf("solana", bs)), NEW t \in Tables,
             it \in ToSet(ItemsOf("solana", <<b>>)), ToSet(R[it][t]) # {}
      PROVE  b \in W
  <2>1. it.ev.sig \in PumpFun!Discriminators
    BY <1>2, <1>3, NoRowsLists DEF PumpFunRow, When
  <2>2. PumpFun!EventItems(<<b>>) = ItemsOf("solana", <<b>>)
    BY PumpFunEvents DEF ItemsOf
  <2>3. PumpFun!SupportsBlock(b)
    BY <1>3, <2>1, <2>2, Zenon DEF PumpFun!SupportsBlock, PumpFun!ToSet, ToSet
  <2> QED
    BY <2>3
<1>4. /\ parts = [i \in DOMAIN all |-> parts[i]]
      /\ \A i \in DOMAIN all : all[i] \in ToSet(ItemsOf("solana", bs)) => parts[i] = R[all[i]]
  <2> HIDE DEF all
  <2> QED
    BY DEF PumpFunRow
<1> HIDE DEF W, R, parts
<1>5. Collects(Merge(parts), R, "solana", bs)
  BY <1>2, <1>3, <1>4, ExtractorAll
<1> QED
  BY <1>1, <1>5 DEF R

LEMMA PumpSwapAll ==
  ASSUME NEW S, NEW bs, BlocksOf(bs, S)
  PROVE  Collects(PumpSwap!ExtractDexData(Supported(bs, PumpSwap!SupportsBlock)),
                  [it \in ToSet(ItemsOf("solana", bs)) |-> PumpSwapRow(it)], "solana", bs)
<1> DEFINE W == {b \in ToSet(bs) : PumpSwap!SupportsBlock(b)}
           R == [it \in ToSet(ItemsOf("solana", bs)) |-> PumpSwapRow(it)]
           all == ItemsOf("solana", Kept(bs, W))
           parts == [i \in DOMAIN all |->
                       When(all[i].ev.sig \in PumpSwap!Discriminators, PumpSwap!ParseEvent(all[i]))]
<1>1. PumpSwap!ExtractDexData(Supported(bs, PumpSwap!SupportsBlock)) = Merge(parts)
  BY PumpSwapRows, PumpSwapEvents DEF PumpSwap!ExtractDexData, Supported, ItemsOf
<1>2. \A it \in ToSet(ItemsOf("solana", bs)) : Lists(R[it]) /\ R[it] = PumpSwapRow(it)
  BY PumpSwapMade DEF MadeOf
<1>3. ASSUME NEW b \in ToSet(bs), NEW it \in ToSet(ItemsOf("solana", bs)), NEW t \in Tables,
             it \in ToSet(ItemsOf("solana", <<b>>)), ToSet(R[it][t]) # {}
      PROVE  b \in W
  <2>1. it.ev.sig \in PumpSwap!Discriminators
    BY <1>2, <1>3, NoRowsLists DEF PumpSwapRow, When
  <2>2. PumpSwap!EventItems(<<b>>) = ItemsOf("solana", <<b>>)
    BY PumpSwapEvents DEF ItemsOf
  <2>3. PumpSwap!SupportsBlock(b)
    BY <1>3, <2>1, <2>2, Zenon DEF PumpSwap!SupportsBlock, PumpSwap!ToSet, ToSet
  <2> QED
    BY <2>3
<1>4. /\ parts = [i \in DOMAIN all |-> parts[i]]
      /\ \A i \in DOMAIN all : all[i] \in ToSet(ItemsOf("solana", bs)) => parts[i] = R[all[i]]
  <2> HIDE DEF all
  <2> QED
    BY DEF PumpSwapRow
<1> HIDE DEF W, R, parts
<1>5. Collects(Merge(parts), R, "solana", bs)
  BY <1>2, <1>3, <1>4, ExtractorAll
<1> QED
  BY <1>1, <1>5 DEF R

-----------------------------------------------------------------------------
(* Sui.  Both extractors make the same rows of an event of a kind; an      *)
(* event that was not read gives none.                                     *)

SuiPool(it) ==
  Merge(<<PoolRow(it, it.ev.pool, it.ev.tokens)>>
        \o [i \in 1..2 |-> TokenRow(it, it.ev.tokens[i])]
        \o <<ReserveRow(it, it.ev.pool)>>)

SuiSwap(it) ==
  Merge(<<SuiPool(it), TransactionRow(it, it.ev.seq, "sell"), TransactionRow(it, it.ev.seq, "buy")>>)

SuiLiquidity(it, side) ==
  Merge(<<SuiPool(it)>>
        \o [i \in 1..2 |-> LiquidityRow(it, <<it.hash, side, it.ev.seq, i - 1>>, it.ev.tokens[i])])

SuiRow(kind, it) ==
  CASE kind = "swap" -> SuiSwap(it)
    [] kind = "add" -> SuiLiquidity(it, "add")
    [] kind = "remove" -> SuiLiquidity(it, "remove")
    [] kind = "create" -> PoolRow(it, it.ev.pool, it.ev.tokens)
    [] OTHER -> NoRows

LEMMA MergeList ==
  ASSUME NEW all, IsList(all), \A d \in ToSet(all) : Lists(d)
  PROVE  /\ Lists(Merge(all))
         /\ \A t \in Tables : \A r :
              r \in ToSet(Merge(all)[t]) <=> \E d \in ToSet(all) : r \in ToSet(d[t])
<1>1. Len(all) \in Nat /\ DOMAIN all = 1..Len(all) /\ ToSet(all) = {all[i] : i \in 1..Len(all)}
  BY ListTyped DEF ToSet
<1>2. all = [i \in 1..Len(all) |-> all[i]]
  BY <1>1 DEF IsList
<1>3. \A i \in 1..Len(all) : Lists(all[i])
  BY <1>1
<1>4. /\ Lists(Merge(all))
      /\ \A t \in Tables : \A r :
           r \in ToSet(Merge(all)[t]) <=> \E i \in 1..Len(all) : r \in ToSet(all[i][t])
  BY <1>1, <1>2, <1>3, MergeRows
<1>5. \A t \in Tables : \A r :
        (\E i \in 1..Len(all) : r \in ToSet(all[i][t])) <=> \E d \in ToSet(all) : r \in ToSet(d[t])
  BY <1>1
<1> QED
  BY <1>4, <1>5

\* To every row of d belongs one of e with the same key.
Within(d, e) ==
  /\ Lists(d) /\ Lists(e)
  /\ \A t \in Tables : \A r \in ToSet(d[t]) : \E q \in ToSet(e[t]) : q.key = r.key /\ q.of = r.of

LEMMA MergeWithin ==
  ASSUME NEW all, NEW others, IsList(all), IsList(others),
         \A d \in ToSet(all) : Lists(d), \A e \in ToSet(others) : Lists(e),
         \A d \in ToSet(all) : \E e \in ToSet(others) : Within(d, e)
  PROVE  Within(Merge(all), Merge(others))
<1>1. /\ Lists(Merge(all))
      /\ \A t \in Tables : \A r :
           r \in ToSet(Merge(all)[t]) <=> \E d \in ToSet(all) : r \in ToSet(d[t])
  BY MergeList
<1>2. /\ Lists(Merge(others))
      /\ \A t \in Tables : \A r :
           r \in ToSet(Merge(others)[t]) <=> \E e \in ToSet(others) : r \in ToSet(e[t])
  BY MergeList
<1>3. ASSUME NEW t \in Tables, NEW r \in ToSet(Merge(all)[t])
      PROVE  \E q \in ToSet(Merge(others)[t]) : q.key = r.key /\ q.of = r.of
  <2>1. PICK d \in ToSet(all) : r \in ToSet(d[t])
    BY <1>1
  <2>2. PICK e \in ToSet(others) : Within(d, e)
    OBVIOUS
  <2>3. PICK q \in ToSet(e[t]) : q.key = r.key /\ q.of = r.of
    BY <2>1, <2>2 DEF Within
  <2>4. q \in ToSet(Merge(others)[t])
    BY <1>2, <2>3
  <2> QED
    BY <2>3, <2>4
<1> QED
  BY <1>1, <1>2, <1>3 DEF Within

LEMMA OnlyWithin ==
  ASSUME NEW t \in Tables, NEW row, NEW other, other.key = row.key, other.of = row.of
  PROVE  Within(Only(t, row), Only(t, other))
<1>1. /\ Lists(Only(t, row)) /\ Lists(Only(t, other))
      /\ \A u \in Tables : /\ ToSet(Only(t, row)[u]) = IF u = t THEN {row} ELSE {}
                           /\ ToSet(Only(t, other)[u]) = IF u = t THEN {other} ELSE {}
  BY OnlyLists
<1> QED
  BY <1>1 DEF Within

\* The parts of the rows of a pool and of a liquidity, in lists.
LEMMA PairList ==
  ASSUME NEW x, NEW y, NEW s, s = [i \in 1..2 |-> IF i = 1 THEN x ELSE y]
  PROVE  IsList(s) /\ ToSet(s) = {x, y}
<1> DEFINE S == {x, y}
<1>1. s \in [1..2 -> S] /\ DOMAIN s = 1..2
  OBVIOUS
<1> HIDE DEF S
<1>a. s \in Seq(S)
  BY <1>1, ListFrom
<1>2. IsList(s) /\ ToSet(s) \subseteq {x, y} /\ DOMAIN s = 1..2
  BY <1>1, <1>a, SeqIsList DEF S
<1>3. s[1] = x /\ s[2] = y
  OBVIOUS
<1>4. x \in ToSet(s) /\ y \in ToSet(s)
  BY <1>2, <1>3 DEF ToSet
<1> QED
  BY <1>2, <1>4

LEMMA ListsJoined ==
  ASSUME NEW s, NEW u, IsList(s), IsList(u)
  PROVE  IsList(s \o u) /\ ToSet(s \o u) = ToSet(s) \cup ToSet(u)
<1> DEFINE S == ToSet(s) \cup ToSet(u)
<1>1. s \in Seq(S) /\ u \in Seq(S)
  BY SeqMonotonic DEF IsList
<1> HIDE DEF S
<1>2. s \o u \in Seq(S) /\ ToSet(s \o u) = ToSet(s) \cup ToSet(u)
  BY <1>1, ConcatSet
<1> QED
  BY <1>2, SeqIsList

\* Of which parts the rows of an event are made.
LEMMA SuiParts ==
  ASSUME NEW it
  PROVE  /\ \E all : /\ SuiPool(it) = Merge(all) /\ IsList(all)
                     /\ ToSet(all) = {PoolRow(it, it.ev.pool, it.ev.tokens),
                                      TokenRow(it, it.ev.tokens[1]), TokenRow(it, it.ev.tokens[2]),
                                      ReserveRow(it, it.ev.pool)}
         /\ \E all : /\ SuiSwap(it) = Merge(all) /\ IsList(all)
                     /\ ToSet(all) = {SuiPool(it), TransactionRow(it, it.ev.seq, "sell"),
                                      TransactionRow(it, it.ev.seq, "buy")}
         /\ \A side : \E all :
              /\ SuiLiquidity(it, side) = Merge(all) /\ IsList(all)
              /\ ToSet(all) = {SuiPool(it),
                               LiquidityRow(it, <<it.hash, side, it.ev.seq, 0>>, it.ev.tokens[1]),
                               LiquidityRow(it, <<it.hash, side, it.ev.seq, 1>>, it.ev.tokens[2])}
<1>1. \E all : /\ SuiPool(it) = Merge(all) /\ IsList(all)
               /\ ToSet(all) = {PoolRow(it, it.ev.pool, it.ev.tokens),
                                TokenRow(it, it.ev.tokens[1]), TokenRow(it, it.ev.tokens[2]),
                                ReserveRow(it, it.ev.pool)}
  <2> DEFINE p == PoolRow(it, it.ev.pool, it.ev.tokens)
             x == TokenRow(it, it.ev.tokens[1])
             y == TokenRow(it, it.ev.tokens[2])
             z == ReserveRow(it, it.ev.pool)
             s == [i \in 1..2 |-> TokenRow(it, it.ev.tokens[i])]
             all == <<p>> \o s \o <<z>>
  <2>1. s = [i \in 1..2 |-> IF i = 1 THEN x ELSE y]
    OBVIOUS
  <2>2. SuiPool(it) = Merge(all)
    BY Zenon DEF SuiPool
  <2> HIDE DEF p, x, y, z, s
  <2>3. IsList(s) /\ ToSet(s) = {x, y}
    BY <2>1, PairList
  <2>4. IsList(<<p>>) /\ ToSet(<<p>>) = {p} /\ IsList(<<z>>) /\ ToSet(<<z>>) = {z}
    BY SingleList
  <2>5. IsList(<<p>> \o s) /\ ToSet(<<p>> \o s) = {p, x, y}
    BY <2>3, <2>4, ListsJoined
  <2>6. IsList(all) /\ ToSet(all) = {p, x, y, z}
    BY <2>4, <2>5, ListsJoined
  <2> HIDE DEF all
  <2> QED
    BY <2>2, <2>6 DEF p, x, y, z
<1>2. \E all : /\ SuiSwap(it) = Merge(all) /\ IsList(all)
               /\ ToSet(all) = {SuiPool(it), TransactionRow(it, it.ev.seq, "sell"),
                                TransactionRow(it, it.ev.seq, "buy")}
  <2> DEFINE p == SuiPool(it)
             x == TransactionRow(it, it.ev.seq, "sell")
             y == TransactionRow(it, it.ev.seq, "buy")
             all == <<p, x, y>>
             S == {p, x, y}
  <2>1. SuiSwap(it) = Merge(all)
    BY Zenon DEF SuiSwap
  <2> HIDE DEF p, x, y
  <2>2. all \in Seq(S) /\ DOMAIN all = 1..3 /\ all[1] = p /\ all[2] = x /\ all[3] = y
    OBVIOUS
  <2> HIDE DEF all
  <2>3. IsList(all) /\ ToSet(all) \subseteq S
    BY <2>2, SeqIsList
  <2>4. p \in ToSet(all) /\ x \in ToSet(all) /\ y \in ToSet(all)
    <3>1. 1 \in DOMAIN all /\ 2 \in DOMAIN all /\ 3 \in DOMAIN all
      BY <2>2
    <3> QED
      BY <2>2, <3>1 DEF ToSet
  <2>5. ToSet(all) = S
    BY <2>3, <2>4
  <2> QED
    BY <2>1, <2>3, <2>5 DEF p, x, y
<1>3. ASSUME NEW side
      PROVE  \E all :
               /\ SuiLiquidity(it, side) = Merge(all) /\ IsList(all)
               /\ ToSet(all) = {SuiPool(it),
                                LiquidityRow(it, <<it.hash, side, it.ev.seq, 0>>, it.ev.tokens[1]),
                                LiquidityRow(it, <<it.hash, side, it.ev.seq, 1>>, it.ev.tokens[2])}
  <2> DEFINE p == SuiPool(it)
             x == LiquidityRow(it, <<it.hash, side, it.ev.seq, 0>>, it.ev.tokens[1])
             y == LiquidityRow(it, <<it.hash, side, it.ev.seq, 1>>, it.ev.tokens[2])
             s == [i \in 1..2 |-> LiquidityRow(it, <<it.hash, side, it.ev.seq, i - 1>>, it.ev.tokens[i])]
             all == <<p>> \o s
  <2>1. s = [i \in 1..2 |-> IF i = 1 THEN x ELSE y]
    <3>1. 1 - 1 = 0 /\ 2 - 1 = 1 /\ \A i \in 1..2 : i = 1 \/ i = 2
      OBVIOUS
    <3> QED
      BY <3>1
  <2>2. SuiLiquidity(it, side) = Merge(all)
    BY Zenon DEF SuiLiquidity
  <2> HIDE DEF p, x, y, s
  <2>3. IsList(s) /\ ToSet(s) = {x, y}
    BY <2>1, PairList
  <2>4. IsList(<<p>>) /\ ToSet(<<p>>) = {p}
    BY SingleList
  <2>5. IsList(all) /\ ToSet(all) = {p, x, y}
    BY <2>3, <2>4, ListsJoined
  <2> HIDE DEF all
  <2> QED
    BY <2>2, <2>5 DEF p, x, y
<1> QED
  BY <1>1, <1>2, <1>3

LEMMA MergeListMade ==
  ASSUME NEW it, NEW n, NEW sides, NEW words, NEW all, IsList(all),
         \A d \in ToSet(all) : MadeOf(d, it, n, sides, words)
  PROVE  MadeOf(Merge(all), it, n, sides, words)
<1>1. Len(all) \in Nat /\ DOMAIN all = 1..Len(all) /\ \A i \in 1..Len(all) : all[i] \in ToSet(all)
  BY ListTyped
<1>2. all = [i \in 1..Len(all) |-> all[i]]
  BY <1>1 DEF IsList
<1> QED
  BY <1>1, <1>2, MergeMade

LEMMA SuiMade ==
  ASSUME NEW it, NEW kind
  PROVE  MadeOf(SuiRow(kind, it), it, it.ev.seq, {"buy", "sell"}, {"add", "remove"})
<1> DEFINE Made(d) == MadeOf(d, it, it.ev.seq, {"buy", "sell"}, {"add", "remove"})
<1>1. /\ Made(TransactionRow(it, it.ev.seq, "buy")) /\ Made(TransactionRow(it, it.ev.seq, "sell"))
      /\ \A addr, i : /\ Made(LiquidityRow(it, <<it.hash, "add", it.ev.seq, i>>, addr))
                      /\ Made(LiquidityRow(it, <<it.hash, "remove", it.ev.seq, i>>, addr))
      /\ \A addr, tokens : Made(PoolRow(it, addr, tokens))
      /\ \A addr : Made(TokenRow(it, addr)) /\ Made(ReserveRow(it, addr))
  BY MakersMade
<1>2. \A all : IsList(all) /\ (\A d \in ToSet(all) : Made(d)) => Made(Merge(all))
  BY MergeListMade
<1>3. Made(NoRows)
  <2>1. NoRows = When(FALSE, NoRows)
    BY DEF When
  <2> QED
    BY <2>1, WhenMade
<1> HIDE DEF Made
<1>4. Made(SuiPool(it))
  BY <1>1, <1>2, SuiParts
<1>5. Made(SuiSwap(it))
  BY <1>1, <1>2, <1>4, SuiParts
<1>6. ASSUME NEW side \in {"add", "remove"} PROVE Made(SuiLiquidity(it, side))
  <2>1. PICK all :
          /\ SuiLiquidity(it, side) = Merge(all) /\ IsList(all)
          /\ ToSet(all) = {SuiPool(it),
                           LiquidityRow(it, <<it.hash, side, it.ev.seq, 0>>, it.ev.tokens[1]),
                           LiquidityRow(it, <<it.hash, side, it.ev.seq, 1>>, it.ev.tokens[2])}
    BY SuiParts
  <2>2. side = "add" \/ side = "remove"
    OBVIOUS
  <2>3. \A addr, i : Made(LiquidityRow(it, <<it.hash, side, it.ev.seq, i>>, addr))
    BY <1>1, <2>2
  <2>4. \A d \in ToSet(all) : Made(d)
    BY <1>4, <2>1, <2>3
  <2> QED
    BY <1>2, <2>1, <2>4
<1>7. Made(SuiRow(kind, it))
  BY <1>1, <1>3, <1>5, <1>6 DEF SuiRow
<1> QED
  BY <1>7 DEF Made

\* Items of one event whose transaction is numbered differently.
LEMMA SuiWithin ==
  ASSUME NEW it, NEW other, other.ev = it.ev, other.hash = it.hash, other.time = it.time, NEW kind
  PROVE  Within(SuiRow(kind, it), SuiRow(kind, other))
<1>1. \A d : Lists(d) => Within(d, d)
  BY DEF Within
<1>2. Tables = {"pools", "tokens", "txs", "liqs", "reserves"}
  BY DEF Tables
<1>3. \A side : Within(TransactionRow(it, it.ev.seq, side), TransactionRow(other, it.ev.seq, side))
  <2> TAKE side
  <2> DEFINE row(i) == [key |-> <<i.hash, it.ev.seq, side>>, of |-> i.ev.id, number |-> i.number]
  <2>1. row(other).key = row(it).key /\ row(other).of = row(it).of
    OBVIOUS
  <2> HIDE DEF row
  <2>2. Within(Only("txs", row(it)), Only("txs", row(other)))
    BY <1>2, <2>1, OnlyWithin
  <2> QED
    BY <2>2 DEF TransactionRow, row
<1>4. /\ \A name, addr : LiquidityRow(other, name, addr) = LiquidityRow(it, name, addr)
      /\ \A addr, tokens : PoolRow(other, addr, tokens) = PoolRow(it, addr, tokens)
      /\ \A addr : /\ TokenRow(other, addr) = TokenRow(it, addr)
                   /\ ReserveRow(other, addr) = ReserveRow(it, addr)
  BY DEF LiquidityRow, PoolRow, TokenRow, ReserveRow
<1>5. SuiPool(other) = SuiPool(it)
  BY <1>4, Zenon DEF SuiPool
<1>6. \A side : SuiLiquidity(other, side) = SuiLiquidity(it, side)
  BY <1>4, <1>5, Zenon DEF SuiLiquidity
<1>7. \A k : Lists(SuiRow(k, it))
  BY SuiMade DEF MadeOf
<1>8. CASE kind = "swap"
  <2>1. SuiRow(kind, it) = SuiSwap(it) /\ SuiRow(kind, other) = SuiSwap(other)
    BY <1>8 DEF SuiRow
  <2>2. PICK all : /\ SuiSwap(it) = Merge(all) /\ IsList(all)
                   /\ ToSet(all) = {SuiPool(it), TransactionRow(it, it.ev.seq, "sell"),
                                    TransactionRow(it, it.ev.seq, "buy")}
    BY SuiParts
  <2>3. PICK others : /\ SuiSwap(other) = Merge(others) /\ IsList(others)
                      /\ ToSet(others) = {SuiPool(it), TransactionRow(other, it.ev.seq, "sell"),
                                          TransactionRow(other, it.ev.seq, "buy")}
    BY <1>5, SuiParts
  <2>4. Lists(SuiPool(it))
    <3>1. PICK parts : /\ SuiPool(it) = Merge(parts) /\ IsList(parts)
                       /\ ToSet(parts) = {PoolRow(it, it.ev.pool, it.ev.tokens),
                                          TokenRow(it, it.ev.tokens[1]), TokenRow(it, it.ev.tokens[2]),
                                          ReserveRow(it, it.ev.pool)}
      BY SuiParts
    <3>2. \A d \in ToSet(parts) : Lists(d)
      BY <3>1, OnlyLists, <1>2 DEF PoolRow, TokenRow, ReserveRow
    <3> QED
      BY <3>1, <3>2, MergeList
  <2>5. \A d \in ToSet(all) : \E e \in ToSet(others) : Within(d, e)
    BY <1>1, <1>3, <2>2, <2>3, <2>4
  <2>6. (\A d \in ToSet(all) : Lists(d)) /\ \A e \in ToSet(others) : Lists(e)
    BY <1>3, <2>2, <2>3, <2>4 DEF Within
  <2> QED
    BY <2>1, <2>2, <2>3, <2>5, <2>6, MergeWithin
<1>9. CASE kind # "swap"
  <2>1. SuiRow(kind, other) = SuiRow(kind, it)
    BY <1>4, <1>6, <1>9 DEF SuiRow
  <2> QED
    BY <1>1, <1>7, <2>1
<1> QED
  BY <1>8, <1>9

LEMMA CetusRows ==
  /\ Cetus!NoRows = NoRows
  /\ \A all : Cetus!Merge(all) = Merge(all)
  /\ \A c, d : Cetus!When(c, d) = When(c, d)
  /\ \A blocks : Cetus!Items(blocks) = Items(blocks)
  /\ \A it, index, side : Cetus!TransactionRow(it, index, side) = TransactionRow(it, index, side)
  /\ \A it, name, addr : Cetus!LiquidityRow(it, name, addr) = LiquidityRow(it, name, addr)
  /\ \A it, addr, tokens : Cetus!PoolRow(it, addr, tokens) = PoolRow(it, addr, tokens)
  /\ \A it, addr : Cetus!TokenRow(it, addr) = TokenRow(it, addr)
  /\ \A it, addr : Cetus!ReserveRow(it, addr) = ReserveRow(it, addr)
<1>1. \A ss : Cetus!FlattenSeq(ss) = FlattenSeq(ss)
  BY Zenon DEF Cetus!FlattenSeq, FlattenSeq
<1>2. Cetus!Tables = Tables /\ Cetus!NoRows = NoRows
  BY DEF Cetus!Tables, Cetus!NoRows, Tables, NoRows
<1>3. \A t, row : Cetus!Only(t, row) = Only(t, row)
  BY <1>2 DEF Cetus!Only, Only
<1>4. \A all : Cetus!Merge(all) = Merge(all)
  BY <1>1, <1>2 DEF Cetus!Merge, Merge
<1>5. \A c, d : Cetus!When(c, d) = When(c, d)
  BY <1>2 DEF Cetus!When, When
<1>6. \A blocks : Cetus!Items(blocks) = Items(blocks)
  BY <1>1 DEF Cetus!Items, Items
<1> QED
  BY <1>2, <1>3, <1>4, <1>5, <1>6, Zenon
     DEF Cetus!TransactionRow, Cetus!LiquidityRow, Cetus!PoolRow, Cetus!TokenRow, Cetus!ReserveRow,
         TransactionRow, LiquidityRow, PoolRow, TokenRow, ReserveRow

LEMMA BluefinRows ==
  /\ Bluefin!NoRows = NoRows
  /\ \A all : Bluefin!Merge(all) = Merge(all)
  /\ \A c, d : Bluefin!When(c, d) = When(c, d)
  /\ \A blocks : Bluefin!Items(blocks) = Items(blocks)
  /\ \A it, index, side : Bluefin!TransactionRow(it, index, side) = TransactionRow(it, index, side)
  /\ \A it, name, addr : Bluefin!LiquidityRow(it, name, addr) = LiquidityRow(it, name, addr)
  /\ \A it, addr, tokens : Bluefin!PoolRow(it, addr, tokens) = PoolRow(it, addr, tokens)
  /\ \A it, addr : Bluefin!TokenRow(it, addr) = TokenRow(it, addr)
  /\ \A it, addr : Bluefin!ReserveRow(it, addr) = ReserveRow(it, addr)
<1>1. \A ss : Bluefin!FlattenSeq(ss) = FlattenSeq(ss)
  BY Zenon DEF Bluefin!FlattenSeq, FlattenSeq
<1>2. Bluefin!Tables = Tables /\ Bluefin!NoRows = NoRows
  BY DEF Bluefin!Tables, Bluefin!NoRows, Tables, NoRows
<1>3. \A t, row : Bluefin!Only(t, row) = Only(t, row)
  BY <1>2 DEF Bluefin!Only, Only
<1>4. \A all : Bluefin!Merge(all) = Merge(all)
  BY <1>1, <1>2 DEF Bluefin!Merge, Merge
<1>5. \A c, d : Bluefin!When(c, d) = When(c, d)
  BY <1>2 DEF Bluefin!When, When
<1>6. \A blocks : Bluefin!Items(blocks) = Items(blocks)
  BY <1>1 DEF Bluefin!Items, Items
<1> QED
  BY <1>2, <1>3, <1>4, <1>5, <1>6, Zenon
     DEF Bluefin!TransactionRow, Bluefin!LiquidityRow, Bluefin!PoolRow, Bluefin!TokenRow, Bluefin!ReserveRow,
         TransactionRow, LiquidityRow, PoolRow, TokenRow, ReserveRow


\* What kind of rows Cetus's extractor makes of an event.
CetusKind(ev) ==
  IF ~(Cetus!isCetusEvent(ev) /\ ev.parsed /\ Len(ev.tokens) = 2) THEN "none"
  ELSE CASE Cetus!getEventType(ev, "swap") -> "swap"
         [] Cetus!getEventType(ev, "add_liquidity") -> "add"
         [] Cetus!getEventType(ev, "remove_liquidity") -> "remove"
         [] Cetus!getEventType(ev, "pool_created") -> "create"
         [] OTHER -> "none"

CetusRow(it, unread) == When(Cetus!isCetusEvent(it.ev), Cetus!ProcessEvent(it, unread))

LEMMA CetusIs ==
  ASSUME NEW it, NEW unread
  PROVE  CetusRow(it, unread) = IF it.ev.id \in unread THEN NoRows ELSE SuiRow(CetusKind(it.ev), it)
<1> DEFINE ok == it.ev.parsed /\ it.ev.id \notin unread /\ Len(it.ev.tokens) = 2
<1>1. Cetus!PoolTokensAndReserve(it) = SuiPool(it)
  BY CetusRows, Zenon DEF Cetus!PoolTokensAndReserve, SuiPool
<1>2. Cetus!getPoolEventData(it, unread) <=> ok
  BY DEF Cetus!getPoolEventData, Cetus!getPoolObject, Cetus!getTokensMetadata, Cetus!ExtractPoolCoin
<1>3. Cetus!processSwapEvent(it, unread) = When(ok, SuiSwap(it))
  <2>1. Cetus!processSwapEvent(it, unread) = When(Cetus!getPoolEventData(it, unread), SuiSwap(it))
    BY <1>1, CetusRows, Zenon DEF Cetus!processSwapEvent, SuiSwap
  <2> QED
    BY <1>2, <2>1 DEF When
<1>4. \A side : Cetus!createLiquidityFromEvent(it, side, unread) = When(ok, SuiLiquidity(it, side))
  <2>1. \A side : Cetus!createLiquidityFromEvent(it, side, unread)
                    = When(Cetus!getPoolEventData(it, unread), SuiLiquidity(it, side))
    BY <1>1, CetusRows, Zenon DEF Cetus!createLiquidityFromEvent, SuiLiquidity
  <2> QED
    BY <1>2, <2>1 DEF When
<1>5. Cetus!createPoolFromEvent(it, unread) = When(ok, PoolRow(it, it.ev.pool, it.ev.tokens))
  BY CetusRows DEF Cetus!createPoolFromEvent, Cetus!getPoolObject, Cetus!ExtractPoolCoin, When
<1> HIDE DEF ok
<1> DEFINE is(k) == Cetus!getEventType(it.ev, k)
           good == it.ev.parsed /\ Len(it.ev.tokens) = 2
           types == {"swap", "add_liquidity", "remove_liquidity", "pool_created"}
<1>6. \A j, k \in types : is(j) /\ is(k) => j = k
  BY DEF Cetus!getEventType, Cetus!Names
<1>7. ASSUME Cetus!isCetusEvent(it.ev)
      PROVE  /\ is("swap") => Cetus!ProcessEvent(it, unread) = When(ok, SuiSwap(it))
             /\ is("add_liquidity") => Cetus!ProcessEvent(it, unread) = When(ok, SuiLiquidity(it, "add"))
             /\ is("remove_liquidity") => Cetus!ProcessEvent(it, unread) = When(ok, SuiLiquidity(it, "remove"))
             /\ is("pool_created") => Cetus!ProcessEvent(it, unread) = When(ok, PoolRow(it, it.ev.pool, it.ev.tokens))
             /\ (\A k \in types : ~is(k)) => Cetus!ProcessEvent(it, unread) = NoRows
  BY <1>3, <1>4, <1>5, <1>6, CetusRows DEF Cetus!ProcessEvent
<1>8. /\ ~(Cetus!isCetusEvent(it.ev) /\ good) => CetusKind(it.ev) = "none"
      /\ Cetus!isCetusEvent(it.ev) /\ good =>
           /\ is("swap") => CetusKind(it.ev) = "swap"
           /\ is("add_liquidity") => CetusKind(it.ev) = "add"
           /\ is("remove_liquidity") => CetusKind(it.ev) = "remove"
           /\ is("pool_created") => CetusKind(it.ev) = "create"
           /\ (\A k \in types : ~is(k)) => CetusKind(it.ev) = "none"
  BY <1>6 DEF CetusKind
<1>9. /\ SuiRow("none", it) = NoRows /\ SuiRow("swap", it) = SuiSwap(it)
      /\ SuiRow("add", it) = SuiLiquidity(it, "add")
      /\ SuiRow("remove", it) = SuiLiquidity(it, "remove")
      /\ SuiRow("create", it) = PoolRow(it, it.ev.pool, it.ev.tokens)
  BY DEF SuiRow
<1>10. ok <=> good /\ it.ev.id \notin unread
  BY DEF ok
<1> HIDE DEF is, good
<1>11. (\A k \in types : ~is(k)) \/ is("swap") \/ is("add_liquidity") \/ is("remove_liquidity")
         \/ is("pool_created")
  OBVIOUS
<1> HIDE DEF types
<1>12. CASE ~Cetus!isCetusEvent(it.ev)
  BY <1>8, <1>9, <1>12 DEF CetusRow, When
<1>13. CASE Cetus!isCetusEvent(it.ev) /\ ok
  <2>1. CetusRow(it, unread) = Cetus!ProcessEvent(it, unread) /\ it.ev.id \notin unread
    BY <1>10, <1>13 DEF CetusRow, When
  <2> QED
    BY <1>7, <1>8, <1>9, <1>10, <1>11, <1>13, <2>1 DEF When
<1>14. CASE Cetus!isCetusEvent(it.ev) /\ ~ok
  <2>1. CetusRow(it, unread) = Cetus!ProcessEvent(it, unread)
    BY <1>14 DEF CetusRow, When
  <2>2. Cetus!ProcessEvent(it, unread) = NoRows
    BY <1>7, <1>11, <1>14 DEF When
  <2> QED
    BY <1>8, <1>9, <1>10, <1>14, <2>1, <2>2
<1> QED
  BY <1>12, <1>13, <1>14

LEMMA CetusMade ==
  ASSUME NEW it, NEW unread
  PROVE  MadeOf(CetusRow(it, unread), it, it.ev.seq, {"buy", "sell"}, {"add", "remove"})
<1>1. MadeOf(When(it.ev.id \notin unread, SuiRow(CetusKind(it.ev), it)), it, it.ev.seq,
             {"buy", "sell"}, {"add", "remove"})
  BY SuiMade, WhenMade
<1> QED
  BY <1>1, CetusIs DEF When

LEMMA CetusAll ==
  ASSUME NEW S, NEW bs, BlocksOf(bs, S), NEW unread
  PROVE  Collects(Cetus!ExtractDexData(Supported(bs, Cetus!SupportsBlock), unread),
                  [it \in ToSet(ItemsOf("sui", bs)) |-> CetusRow(it, unread)], "sui", bs)
<1> DEFINE W == {b \in ToSet(bs) : Cetus!SupportsBlock(b)}
           R == [it \in ToSet(ItemsOf("sui", bs)) |-> CetusRow(it, unread)]
           all == ItemsOf("sui", Kept(bs, W))
           parts == [i \in DOMAIN all |->
                       When(Cetus!isCetusEvent(all[i].ev), Cetus!ProcessEvent(all[i], unread))]
<1>1. Cetus!ExtractDexData(Supported(bs, Cetus!SupportsBlock), unread) = Merge(parts)
  BY CetusRows DEF Cetus!ExtractDexData, Supported, ItemsOf
<1>2. \A it \in ToSet(ItemsOf("sui", bs)) : Lists(R[it]) /\ R[it] = CetusRow(it, unread)
  BY CetusMade DEF MadeOf
<1>3. ASSUME NEW b \in ToSet(bs), NEW it \in ToSet(ItemsOf("sui", bs)), NEW t \in Tables,
             it \in ToSet(ItemsOf("sui", <<b>>)), ToSet(R[it][t]) # {}
      PROVE  b \in W
  <2>1. Cetus!isCetusEvent(it.ev)
    BY <1>2, <1>3, NoRowsLists DEF CetusRow, When
  <2>2. Cetus!Items(<<b>>) = ItemsOf("sui", <<b>>)
    BY CetusRows DEF ItemsOf
  <2>3. Cetus!SupportsBlock(b)
    BY <1>3, <2>1, <2>2, Zenon DEF Cetus!SupportsBlock, Cetus!ToSet, ToSet
  <2> QED
    BY <2>3
<1>4. /\ parts = [i \in DOMAIN all |-> parts[i]]
      /\ \A i \in DOMAIN all : all[i] \in ToSet(ItemsOf("sui", bs)) => parts[i] = R[all[i]]
  <2> HIDE DEF all
  <2> QED
    BY DEF CetusRow
<1> HIDE DEF W, R, parts
<1>5. Collects(Merge(parts), R, "sui", bs)
  BY <1>2, <1>3, <1>4, ExtractorAll
<1> QED
  BY <1>1, <1>5 DEF R


\* What kind of rows Bluefin's extractor makes of an event.
BluefinKind(ev) ==
  IF ~(Bluefin!isBluefinEvent(ev) /\ ev.parsed /\ Len(ev.tokens) = 2) THEN "none"
  ELSE CASE Bluefin!getEventType[ev.name] = "swap" -> "swap"
         [] Bluefin!getEventType[ev.name] = "add_liquidity" -> "add"
         [] Bluefin!getEventType[ev.name] = "remove_liquidity" -> "remove"
         [] Bluefin!getEventType[ev.name] = "pool_created" -> "create"
         [] OTHER -> "none"

BluefinRow(it, unread) == When(Bluefin!isBluefinEvent(it.ev), Bluefin!ProcessEvent(it, unread))

LEMMA BluefinIs ==
  ASSUME NEW it, NEW unread
  PROVE  BluefinRow(it, unread) = IF it.ev.id \in unread THEN NoRows ELSE SuiRow(BluefinKind(it.ev), it)
<1> DEFINE ok == it.ev.parsed /\ it.ev.id \notin unread /\ Len(it.ev.tokens) = 2
<1>1. Bluefin!PoolTokensAndReserve(it) = SuiPool(it)
  BY BluefinRows, Zenon DEF Bluefin!PoolTokensAndReserve, SuiPool
<1>2. Bluefin!getPoolEventData(it, unread) <=> ok
  BY DEF Bluefin!getPoolEventData, Bluefin!getPoolObject, Bluefin!getTokensMetadata, Bluefin!ExtractPoolCoin
<1>3. Bluefin!processSwapEvent(it, unread) = When(ok, SuiSwap(it))
  <2>1. Bluefin!processSwapEvent(it, unread) = When(Bluefin!getPoolEventData(it, unread), SuiSwap(it))
    BY <1>1, BluefinRows, Zenon DEF Bluefin!processSwapEvent, SuiSwap
  <2> QED
    BY <1>2, <2>1 DEF When
<1>4. \A side : Bluefin!createLiquidityFromEvent(it, side, unread) = When(ok, SuiLiquidity(it, side))
  <2>1. \A side : Bluefin!createLiquidityFromEvent(it, side, unread)
                    = When(Bluefin!getPoolEventData(it, unread), SuiLiquidity(it, side))
    BY <1>1, BluefinRows, Zenon DEF Bluefin!createLiquidityFromEvent, SuiLiquidity
  <2> QED
    BY <1>2, <2>1 DEF When
<1>5. Bluefin!createPoolFromEvent(it, unread) = When(ok, PoolRow(it, it.ev.pool, it.ev.tokens))
  BY BluefinRows DEF Bluefin!createPoolFromEvent, Bluefin!getPoolObject, Bluefin!ExtractPoolCoin, When
<1> HIDE DEF ok
<1> DEFINE is(k) == Bluefin!getEventType[it.ev.name] = k
           good == it.ev.parsed /\ Len(it.ev.tokens) = 2
           types == {"swap", "add_liquidity", "remove_liquidity", "pool_created"}
<1>6. \A j, k \in types : is(j) /\ is(k) => j = k
  OBVIOUS
<1>7. ASSUME Bluefin!isBluefinEvent(it.ev)
      PROVE  /\ is("swap") => Bluefin!ProcessEvent(it, unread) = When(ok, SuiSwap(it))
             /\ is("add_liquidity") => Bluefin!ProcessEvent(it, unread) = When(ok, SuiLiquidity(it, "add"))
             /\ is("remove_liquidity") => Bluefin!ProcessEvent(it, unread) = When(ok, SuiLiquidity(it, "remove"))
             /\ is("pool_created") => Bluefin!ProcessEvent(it, unread) = When(ok, PoolRow(it, it.ev.pool, it.ev.tokens))
             /\ \E k \in types : is(k)
  <2>1. Bluefin!getEventType[it.ev.name] \in types
    BY <1>7 DEF Bluefin!isBluefinEvent, Bluefin!getEventType
  <2> QED
    BY <1>3, <1>4, <1>5, <1>6, <2>1 DEF Bluefin!ProcessEvent
<1>8. /\ ~(Bluefin!isBluefinEvent(it.ev) /\ good) => BluefinKind(it.ev) = "none"
      /\ Bluefin!isBluefinEvent(it.ev) /\ good =>
           /\ is("swap") => BluefinKind(it.ev) = "swap"
           /\ is("add_liquidity") => BluefinKind(it.ev) = "add"
           /\ is("remove_liquidity") => BluefinKind(it.ev) = "remove"
           /\ is("pool_created") => BluefinKind(it.ev) = "create"
           /\ (\A k \in types : ~is(k)) => BluefinKind(it.ev) = "none"
  BY <1>6 DEF BluefinKind
<1>9. /\ SuiRow("none", it) = NoRows /\ SuiRow("swap", it) = SuiSwap(it)
      /\ SuiRow("add", it) = SuiLiquidity(it, "add")
      /\ SuiRow("remove", it) = SuiLiquidity(it, "remove")
      /\ SuiRow("create", it) = PoolRow(it, it.ev.pool, it.ev.tokens)
  BY DEF SuiRow
<1>10. ok <=> good /\ it.ev.id \notin unread
  BY DEF ok
<1> HIDE DEF is, good
<1>11. (\A k \in types : ~is(k)) \/ is("swap") \/ is("add_liquidity") \/ is("remove_liquidity")
         \/ is("pool_created")
  OBVIOUS
<1> HIDE DEF types
<1>12. CASE ~Bluefin!isBluefinEvent(it.ev)
  BY <1>8, <1>9, <1>12 DEF BluefinRow, When
<1>13. CASE Bluefin!isBluefinEvent(it.ev) /\ ok
  <2>1. BluefinRow(it, unread) = Bluefin!ProcessEvent(it, unread) /\ it.ev.id \notin unread
    BY <1>10, <1>13 DEF BluefinRow, When
  <2> QED
    BY <1>7, <1>8, <1>9, <1>10, <1>11, <1>13, <2>1 DEF When
<1>14. CASE Bluefin!isBluefinEvent(it.ev) /\ ~ok
  <2>1. BluefinRow(it, unread) = Bluefin!ProcessEvent(it, unread)
    BY <1>14 DEF BluefinRow, When
  <2>2. Bluefin!ProcessEvent(it, unread) = NoRows
    BY <1>7, <1>11, <1>14 DEF When
  <2> QED
    BY <1>8, <1>9, <1>10, <1>14, <2>1, <2>2
<1> QED
  BY <1>12, <1>13, <1>14

LEMMA BluefinMade ==
  ASSUME NEW it, NEW unread
  PROVE  MadeOf(BluefinRow(it, unread), it, it.ev.seq, {"buy", "sell"}, {"add", "remove"})
<1>1. MadeOf(When(it.ev.id \notin unread, SuiRow(BluefinKind(it.ev), it)), it, it.ev.seq,
             {"buy", "sell"}, {"add", "remove"})
  BY SuiMade, WhenMade
<1> QED
  BY <1>1, BluefinIs DEF When

LEMMA BluefinAll ==
  ASSUME NEW S, NEW bs, BlocksOf(bs, S), NEW unread
  PROVE  Collects(Bluefin!ExtractDexData(Supported(bs, Bluefin!SupportsBlock), unread),
                  [it \in ToSet(ItemsOf("sui", bs)) |-> BluefinRow(it, unread)], "sui", bs)
<1> DEFINE W == {b \in ToSet(bs) : Bluefin!SupportsBlock(b)}
           R == [it \in ToSet(ItemsOf("sui", bs)) |-> BluefinRow(it, unread)]
           all == ItemsOf("sui", Kept(bs, W))
           parts == [i \in DOMAIN all |->
                       When(Bluefin!isBluefinEvent(all[i].ev), Bluefin!ProcessEvent(all[i], unread))]
<1>1. Bluefin!ExtractDexData(Supported(bs, Bluefin!SupportsBlock), unread) = Merge(parts)
  BY BluefinRows DEF Bluefin!ExtractDexData, Supported, ItemsOf
<1>2. \A it \in ToSet(ItemsOf("sui", bs)) : Lists(R[it]) /\ R[it] = BluefinRow(it, unread)
  BY BluefinMade DEF MadeOf
<1>3. ASSUME NEW b \in ToSet(bs), NEW it \in ToSet(ItemsOf("sui", bs)), NEW t \in Tables,
             it \in ToSet(ItemsOf("sui", <<b>>)), ToSet(R[it][t]) # {}
      PROVE  b \in W
  BY DEF Bluefin!SupportsBlock
<1>4. /\ parts = [i \in DOMAIN all |-> parts[i]]
      /\ \A i \in DOMAIN all : all[i] \in ToSet(ItemsOf("sui", bs)) => parts[i] = R[all[i]]
  <2> HIDE DEF all
  <2> QED
    BY DEF BluefinRow
<1> HIDE DEF W, R, parts
<1>5. Collects(Merge(parts), R, "sui", bs)
  BY <1>2, <1>3, <1>4, ExtractorAll
<1> QED
  BY <1>1, <1>5 DEF R

-----------------------------------------------------------------------------
(* The two extractors of a chain together.  What they make of an event     *)
(* depends on the event and on the place it has in its transaction.        *)

Others == {"bsc", "solana", "sui"}

First(c, it, unread) ==
  CASE c = "bsc" -> PancakeRow(it)
    [] c = "solana" -> PumpFunRow(it)
    [] c = "sui" -> CetusRow(it, unread)

Second(c, it, unread) ==
  CASE c = "bsc" -> FourMemeRow(it)
    [] c = "solana" -> PumpSwapRow(it)
    [] c = "sui" -> BluefinRow(it, unread)

RowsMade(c, it, unread, t) ==
  ToSet(First(c, it, unread)[t]) \cup ToSet(Second(c, it, unread)[t])

LEMMA BothCollect ==
  ASSUME NEW c, NEW bs, NEW unread, NEW d, NEW e, NEW R, NEW Q,
         Collects(d, R, c, bs), Collects(e, Q, c, bs),
         \A it \in ToSet(ItemsOf(c, bs)) : R[it] = First(c, it, unread) /\ Q[it] = Second(c, it, unread)
  PROVE  /\ Lists(Merge(<<d, e>>))
         /\ \A t \in Tables : \A r :
              r \in ToSet(Merge(<<d, e>>)[t])
                <=> \E it \in ToSet(ItemsOf(c, bs)) : r \in RowsMade(c, it, unread, t)
<1>1. /\ Lists(Merge(<<d, e>>))
      /\ \A t \in Tables : ToSet(Merge(<<d, e>>)[t]) = ToSet(d[t]) \cup ToSet(e[t])
  BY MergeTwo DEF Collects
<1>2. ASSUME NEW t \in Tables, NEW r
      PROVE  r \in ToSet(Merge(<<d, e>>)[t])
                <=> \E it \in ToSet(ItemsOf(c, bs)) : r \in RowsMade(c, it, unread, t)
  <2>1. r \in ToSet(Merge(<<d, e>>)[t]) <=> r \in ToSet(d[t]) \/ r \in ToSet(e[t])
    BY <1>1
  <2>2. r \in ToSet(d[t]) <=> \E it \in ToSet(ItemsOf(c, bs)) : r \in ToSet(R[it][t])
    BY DEF Collects
  <2>3. r \in ToSet(e[t]) <=> \E it \in ToSet(ItemsOf(c, bs)) : r \in ToSet(Q[it][t])
    BY DEF Collects
  <2>4. \A it \in ToSet(ItemsOf(c, bs)) :
          r \in RowsMade(c, it, unread, t) <=> r \in ToSet(R[it][t]) \/ r \in ToSet(Q[it][t])
    BY DEF RowsMade
  <2> QED
    BY <2>1, <2>2, <2>3, <2>4
<1> QED
  BY <1>1, <1>2

LEMMA ExtractedAll ==
  ASSUME NEW c \in Others, NEW S, NEW bs, BlocksOf(bs, S), NEW mem, NEW unread
  PROVE  /\ Lists(Extracted(c, bs, mem, unread))
         /\ \A t \in Tables : \A r :
              r \in ToSet(Extracted(c, bs, mem, unread)[t])
                <=> \E it \in ToSet(ItemsOf(c, bs)) : r \in RowsMade(c, it, unread, t)
<1>1. CASE c = "bsc"
  <2> DEFINE d == Pancake!ExtractDexData(Supported(bs, Pancake!SupportsBlock))
             e == FourMeme!ExtractDexData(Supported(bs, FourMeme!SupportsBlock))
             R == [it \in ToSet(ItemsOf("bsc", bs)) |-> PancakeRow(it)]
             Q == [it \in ToSet(ItemsOf("bsc", bs)) |-> FourMemeRow(it)]
  <2>1. Collects(d, R, c, bs) /\ Collects(e, Q, c, bs)
    BY <1>1, PancakeAll, FourMemeAll
  <2>2. \A it \in ToSet(ItemsOf(c, bs)) : R[it] = First(c, it, unread) /\ Q[it] = Second(c, it, unread)
    BY <1>1 DEF First, Second
  <2>3. Extracted(c, bs, mem, unread) = Merge(<<d, e>>)
    BY <1>1 DEF Extracted
  <2> HIDE DEF d, e, R, Q
  <2> QED
    BY <2>1, <2>2, <2>3, BothCollect
<1>2. CASE c = "solana"
  <2> DEFINE d == PumpFun!ExtractDexData(Supported(bs, PumpFun!SupportsBlock))
             e == PumpSwap!ExtractDexData(Supported(bs, PumpSwap!SupportsBlock))
             R == [it \in ToSet(ItemsOf("solana", bs)) |-> PumpFunRow(it)]
             Q == [it \in ToSet(ItemsOf("solana", bs)) |-> PumpSwapRow(it)]
  <2>1. Collects(d, R, c, bs) /\ Collects(e, Q, c, bs)
    BY <1>2, PumpFunAll, PumpSwapAll
  <2>2. \A it \in ToSet(ItemsOf(c, bs)) : R[it] = First(c, it, unread) /\ Q[it] = Second(c, it, unread)
    BY <1>2 DEF First, Second
  <2>3. Extracted(c, bs, mem, unread) = Merge(<<d, e>>)
    BY <1>2 DEF Extracted
  <2> HIDE DEF d, e, R, Q
  <2> QED
    BY <2>1, <2>2, <2>3, BothCollect
<1>3. CASE c = "sui"
  <2> DEFINE d == Cetus!ExtractDexData(Supported(bs, Cetus!SupportsBlock), unread)
             e == Bluefin!ExtractDexData(Supported(bs, Bluefin!SupportsBlock), unread)
             R == [it \in ToSet(ItemsOf("sui", bs)) |-> CetusRow(it, unread)]
             Q == [it \in ToSet(ItemsOf("sui", bs)) |-> BluefinRow(it, unread)]
  <2>1. Collects(d, R, c, bs) /\ Collects(e, Q, c, bs)
    BY <1>3, CetusAll, BluefinAll
  <2>2. \A it \in ToSet(ItemsOf(c, bs)) : R[it] = First(c, it, unread) /\ Q[it] = Second(c, it, unread)
    BY <1>3 DEF First, Second
  <2>3. Extracted(c, bs, mem, unread) = Merge(<<d, e>>)
    BY <1>3 DEF Extracted
  <2> HIDE DEF d, e, R, Q
  <2> QED
    BY <2>1, <2>2, <2>3, BothCollect
<1> QED
  BY <1>1, <1>2, <1>3 DEF Others

LEMMA RowsMadeOf ==
  ASSUME NEW c \in Others, NEW it, NEW unread, NEW t \in Tables, NEW r \in RowsMade(c, it, unread, t)
  PROVE  r.of = it.ev.id
<1>1. \A d, n, sides, words : MadeOf(d, it, n, sides, words) /\ r \in ToSet(d[t]) => r.of = it.ev.id
  BY DEF MadeOf
<1>2. CASE c = "bsc"
  BY <1>1, <1>2, PancakeMade, FourMemeMade DEF RowsMade, First, Second
<1>3. CASE c = "solana"
  BY <1>1, <1>3, PumpFunMade, PumpSwapMade DEF RowsMade, First, Second
<1>4. CASE c = "sui"
  BY <1>1, <1>4, CetusMade, BluefinMade DEF RowsMade, First, Second
<1> QED
  BY <1>2, <1>3, <1>4 DEF Others

\* Two events that come at one place of one transaction, or share their number.
SamePlace(c, it, other) ==
  /\ other.hash = it.hash
  /\ \/ c # "sui" /\ other.pos = it.pos
     \/ c = "bsc" /\ other.ev.index = it.ev.index
     \/ c = "sui" /\ other.ev.seq = it.ev.seq

\* Rows of the transactions or the liquidities that have one key.
LEMMA RowsMadeKeys ==
  ASSUME NEW c \in Others, NEW it, NEW other, NEW unread, NEW t \in {"txs", "liqs"},
         NEW r \in RowsMade(c, it, unread, t), NEW q \in RowsMade(c, other, unread, t),
         q.key = r.key
  PROVE  SamePlace(c, it, other)
<1>1. "txs" \in Tables /\ "liqs" \in Tables
  BY DEF Tables
<1>2. ASSUME NEW d, NEW e, NEW m, NEW n, NEW sides, NEW words, NEW sides2, NEW words2,
             MadeOf(d, it, m, sides, words), MadeOf(e, other, n, sides2, words2),
             r \in ToSet(d[t]), q \in ToSet(e[t])
      PROVE  /\ other.hash = it.hash /\ n = m
             /\ \/ \E w : w \in sides /\ w \in sides2
                \/ \E w : w \in words /\ w \in words2
  <2>1. CASE t = "txs"
    BY <1>2, <2>1 DEF MadeOf
  <2>2. CASE t = "liqs"
    BY <1>2, <2>2 DEF MadeOf
  <2> QED
    BY <2>1, <2>2
<1>3. CASE c = "bsc"
  <2>1. /\ MadeOf(PancakeRow(it), it, it.ev.index, {"swap"}, {"add", "remove"})
        /\ MadeOf(FourMemeRow(it), it, it.pos, {"buy", "sell"}, {"liquidity"})
        /\ MadeOf(PancakeRow(other), other, other.ev.index, {"swap"}, {"add", "remove"})
        /\ MadeOf(FourMemeRow(other), other, other.pos, {"buy", "sell"}, {"liquidity"})
    BY PancakeMade, FourMemeMade
  <2>2. /\ r \in ToSet(PancakeRow(it)[t]) \/ r \in ToSet(FourMemeRow(it)[t])
        /\ q \in ToSet(PancakeRow(other)[t]) \/ q \in ToSet(FourMemeRow(other)[t])
    BY <1>3 DEF RowsMade, First, Second
  <2>3. CASE r \in ToSet(PancakeRow(it)[t]) /\ q \in ToSet(PancakeRow(other)[t])
    BY <1>2, <1>3, <2>1, <2>3 DEF SamePlace
  <2>4. CASE r \in ToSet(FourMemeRow(it)[t]) /\ q \in ToSet(FourMemeRow(other)[t])
    BY <1>2, <1>3, <2>1, <2>4 DEF SamePlace
  <2>5. ~(r \in ToSet(PancakeRow(it)[t]) /\ q \in ToSet(FourMemeRow(other)[t]))
    BY <1>2, <2>1
  <2>6. ~(r \in ToSet(FourMemeRow(it)[t]) /\ q \in ToSet(PancakeRow(other)[t]))
    BY <1>2, <2>1
  <2> QED
    BY <2>2, <2>3, <2>4, <2>5, <2>6
<1>4. CASE c = "solana"
  <2>1. /\ MadeOf(PumpFunRow(it), it, it.pos, {it.ev.side}, {"graduate"})
        /\ MadeOf(PumpSwapRow(it), it, it.pos, {"buy", "sell"}, {"add", "remove"})
        /\ MadeOf(PumpFunRow(other), other, other.pos, {other.ev.side}, {"graduate"})
        /\ MadeOf(PumpSwapRow(other), other, other.pos, {"buy", "sell"}, {"add", "remove"})
    BY PumpFunMade, PumpSwapMade
  <2>2. /\ r \in ToSet(PumpFunRow(it)[t]) \/ r \in ToSet(PumpSwapRow(it)[t])
        /\ q \in ToSet(PumpFunRow(other)[t]) \/ q \in ToSet(PumpSwapRow(other)[t])
    BY <1>4 DEF RowsMade, First, Second
  <2> QED
    BY <1>2, <1>4, <2>1, <2>2 DEF SamePlace
<1>5. CASE c = "sui"
  <2>1. \A i : /\ MadeOf(CetusRow(i, unread), i, i.ev.seq, {"buy", "sell"}, {"add", "remove"})
               /\ MadeOf(BluefinRow(i, unread), i, i.ev.seq, {"buy", "sell"}, {"add", "remove"})
    BY CetusMade, BluefinMade
  <2>2. /\ r \in ToSet(CetusRow(it, unread)[t]) \/ r \in ToSet(BluefinRow(it, unread)[t])
        /\ q \in ToSet(CetusRow(other, unread)[t]) \/ q \in ToSet(BluefinRow(other, unread)[t])
    BY <1>5 DEF RowsMade, First, Second
  <2> QED
    BY <1>2, <1>5, <2>1, <2>2 DEF SamePlace
<1> QED
  BY <1>3, <1>4, <1>5 DEF Others

LEMMA RowsMadeRead ==
  ASSUME NEW c \in Others, NEW it, NEW unread, NEW t \in Tables
  PROVE  RowsMade(c, it, unread, t)
           = IF c = "sui" /\ it.ev.id \in unread THEN {} ELSE RowsMade(c, it, {}, t)
<1>1. CASE c # "sui"
  BY <1>1 DEF RowsMade, First, Second, Others
<1>2. CASE c = "sui"
  <2>1. \A u : RowsMade(c, it, u, t) = ToSet(CetusRow(it, u)[t]) \cup ToSet(BluefinRow(it, u)[t])
    BY <1>2 DEF RowsMade, First, Second
  <2>2. CASE it.ev.id \in unread
    <3>1. CetusRow(it, unread) = NoRows /\ BluefinRow(it, unread) = NoRows
      BY <2>2, CetusIs, BluefinIs
    <3> QED
      BY <1>2, <2>1, <2>2, <3>1, NoRowsLists
  <2>3. CASE it.ev.id \notin unread
    <3>1. CetusRow(it, unread) = CetusRow(it, {}) /\ BluefinRow(it, unread) = BluefinRow(it, {})
      BY <2>3, CetusIs, BluefinIs
    <3> QED
      BY <1>2, <2>1, <2>3, <3>1
  <2> QED
    BY <2>2, <2>3
<1> QED
  BY <1>1, <1>2

\* One item, but on Sui, where the number of its block may differ.
Alike(c, it, other) ==
  /\ other.ev = it.ev /\ other.pos = it.pos /\ other.hash = it.hash /\ other.time = it.time
  /\ c # "sui" => other = it

LEMMA RowsMadeAlike ==
  ASSUME NEW c \in Others, NEW it, NEW other, Alike(c, it, other), NEW t \in Tables,
         NEW r \in RowsMade(c, it, {}, t)
  PROVE  \E q \in RowsMade(c, other, {}, t) : q.key = r.key /\ q.of = r.of
<1>1. CASE c # "sui"
  BY <1>1 DEF Alike
<1>2. CASE c = "sui"
  <2>1. \A u : RowsMade(c, u, {}, t)
                 = ToSet(SuiRow(CetusKind(u.ev), u)[t]) \cup ToSet(SuiRow(BluefinKind(u.ev), u)[t])
    BY <1>2, CetusIs, BluefinIs DEF RowsMade, First, Second
  <2>2. \A kind : Within(SuiRow(kind, it), SuiRow(kind, other))
    BY SuiWithin DEF Alike
  <2>3. other.ev = it.ev
    BY DEF Alike
  <2> QED
    BY <2>1, <2>2, <2>3 DEF Within
<1> QED
  BY <1>1, <1>2

-----------------------------------------------------------------------------
(* The processors again: which transactions of a range they hand over, and *)
(* as what.  all: nothing that was asked for stayed unanswered.            *)

\* What a processor of the chain c reads of a block at all.
Readable(c, b, tx) ==
  /\ c = "bsc" => /\ \A i \in DOMAIN b.txs : b.txs[i].typed
                  /\ tx \in ToSet(SubSeq(b.txs, 1, IF Len(b.txs) > MaxTxPerBlock THEN MaxTxPerBlock
                                                   ELSE Len(b.txs)))
  /\ c = "solana" => tx.ok /\ ~b.skipped

\* t is what a processor makes of the transaction tx of the block b; only Sui's
\* depends on the range.
Conveys(t, c, b, tx) ==
  /\ t.hash = tx.hash /\ t.events = tx.events /\ t.time = b.time
  /\ c # "sui" => t = Nodes!Unified(b, tx)

BlockReads(f, c, b, all) ==
  /\ \A t \in ToSet(f.txs) : \E tx \in ToSet(b.txs) : Readable(c, b, tx) /\ Conveys(t, c, b, tx)
  /\ all => \A tx \in ToSet(b.txs) : Readable(c, b, tx) => \E t \in ToSet(f.txs) : Conveys(t, c, b, tx)

RangeReads(fs, c, asked, all) ==
  /\ \A f \in ToSet(fs) : \A t \in ToSet(f.txs) : \E b \in ToSet(asked) :
       \E tx \in ToSet(b.txs) : Readable(c, b, tx) /\ Conveys(t, c, b, tx)
  /\ all => \A b \in ToSet(asked) : \A tx \in ToSet(b.txs) :
       Readable(c, b, tx) => \E f \in ToSet(fs) : \E t \in ToSet(f.txs) : Conveys(t, c, b, tx)

LEMMA TxsAll ==
  ASSUME NEW b, NEW s, IsList(s), NEW out,
         NEW txs, txs = Nodes!FlattenSeq([i \in DOMAIN s |->
                          Nodes!Unless(out[i], Nodes!Unified(b, s[i]))])
  PROVE  \A t : t \in ToSet(txs) <=> \E i \in DOMAIN s : ~out[i] /\ t = Nodes!Unified(b, s[i])
<1> DEFINE g == [i \in DOMAIN s |-> Nodes!Unified(b, s[i])]
           ss == [i \in DOMAIN s |-> Nodes!Unless(out[i], Nodes!Unified(b, s[i]))]
<1>1. txs = FlattenSeq(ss)
  BY NodesFlatten
<1>2. /\ ss = [i \in DOMAIN s |-> ss[i]]
      /\ \A i \in DOMAIN s : ss[i] = Nodes!Unless(out[i], g[i]) /\ g[i] = Nodes!Unified(b, s[i])
  OBVIOUS
<1> HIDE DEF g, ss
<1>3. \A x : x \in ToSet(FlattenSeq(ss)) <=> \E i \in DOMAIN s : ~out[i] /\ x = g[i]
  BY <1>2, UnlessAll
<1> QED
  BY <1>1, <1>2, <1>3

LEMMA Unifies ==
  ASSUME NEW c, NEW b, NEW tx
  PROVE  Conveys(Nodes!Unified(b, tx), c, b, tx)
BY DEF Conveys, Nodes!Unified

LEMMA BscReads ==
  ASSUME NEW b, IsList(b.txs), {"number", "hash", "time", "txs"} \subseteq DOMAIN b, NEW lost
  PROVE  BlockReads(Nodes!BscGetBlock(b, lost), "bsc", b, lost = {})
<1> DEFINE d == Nodes!BscBlockWithRetry(b)
           cut(txs) == IF Len(txs) > MaxTxPerBlock THEN MaxTxPerBlock ELSE Len(txs)
           asked == SubSeq(d.txs, 1, cut(d.txs))
           out == [i \in DOMAIN asked |-> asked[i].hash \in lost]
           txs == Nodes!BscTransactions(d, lost)
           typed == \A i \in DOMAIN b.txs : b.txs[i].typed
<1>1. Nodes!BscGetBlock(b, lost).txs = txs
  BY DEF Nodes!BscGetBlock, Nodes!WithTxs
<1>2. /\ d.number = b.number /\ d.time = b.time
      /\ typed => d.txs = b.txs
      /\ ~typed => d.txs = <<>>
  BY DEF Nodes!BscBlockWithRetry
<1>3. txs = Nodes!FlattenSeq([i \in DOMAIN asked |->
                Nodes!Unless(out[i], Nodes!Unified(d, asked[i]))])
  BY DEF Nodes!BscTransactions
<1>4. \A i \in DOMAIN asked : out[i] <=> asked[i].hash \in lost
  OBVIOUS
<1> HIDE DEF txs, out, d, asked
<1>5. \A tx : Nodes!Unified(d, tx) = Nodes!Unified(b, tx)
  BY <1>2 DEF Nodes!Unified
<1>6. CASE typed
  <2>1. asked = SubSeq(b.txs, 1, cut(b.txs))
    <3>1. d.txs = b.txs
      BY <1>2, <1>6
    <3> HIDE DEF cut
    <3> QED
      BY <3>1, Zenon DEF asked
  <2>2. cut(b.txs) \in Nat /\ cut(b.txs) <= Len(b.txs) /\ b.txs \in Seq(ToSet(b.txs))
    BY ListTyped, CutAssumption DEF IsList
  <2>3. IsList(asked) /\ ToSet(asked) \subseteq ToSet(b.txs)
    <3> HIDE DEF cut
    <3> QED
      BY <2>1, <2>2, AskedFrom
  <2>4. \A t : t \in ToSet(txs) <=> \E i \in DOMAIN asked : ~out[i] /\ t = Nodes!Unified(d, asked[i])
    BY <1>3, <2>3, TxsAll
  <2>5. \A tx : Readable("bsc", b, tx) <=> tx \in ToSet(asked)
    BY <1>6, <2>1, Zenon DEF Readable
  <2>6. ToSet(asked) = {asked[i] : i \in DOMAIN asked}
    BY DEF ToSet
  <2>7. ASSUME NEW t \in ToSet(txs)
        PROVE  \E tx \in ToSet(b.txs) : Readable("bsc", b, tx) /\ Conveys(t, "bsc", b, tx)
    <3>1. PICK i \in DOMAIN asked : t = Nodes!Unified(d, asked[i])
      BY <2>4
    <3>2. asked[i] \in ToSet(asked)
      BY <2>6
    <3> QED
      BY <1>5, <2>3, <2>5, <3>1, <3>2, Unifies
  <2>8. ASSUME lost = {}, NEW tx \in ToSet(b.txs), Readable("bsc", b, tx)
        PROVE  \E t \in ToSet(txs) : Conveys(t, "bsc", b, tx)
    <3>1. PICK i \in DOMAIN asked : tx = asked[i]
      BY <2>5, <2>6, <2>8
    <3>2. ~out[i]
      BY <1>4, <2>8
    <3>3. Nodes!Unified(d, tx) \in ToSet(txs)
      BY <2>4, <3>1, <3>2
    <3> QED
      BY <1>5, <3>3, Unifies
  <2> QED
    BY <1>1, <2>7, <2>8 DEF BlockReads
<1>7. CASE ~typed
  <2>1. \A tx : ~Readable("bsc", b, tx)
    BY <1>7 DEF Readable
  <2>2. asked = SubSeq(<<>>, 1, cut(<<>>)) /\ cut(<<>>) = 0
    <3>1. Len(<<>>) = 0
      OBVIOUS
    <3>2. cut(<<>>) = 0
      BY <3>1, CutAssumption
    <3> QED
      BY <1>2, <1>7, <3>2, Zenon DEF asked
  <2>3. IsList(asked) /\ ToSet(asked) = {}
    <3> DEFINE e == <<>>
    <3>1. e \in Seq({}) /\ Len(e) = 0 /\ ToSet(e) = {}
      BY EmptyList
    <3>2. asked = SubSeq(e, 1, 0)
      BY <2>2, Zenon
    <3> HIDE DEF e
    <3>3. 1 \in Nat \ {0} /\ 0 \in Nat /\ 0 <= Len(e)
      BY <3>1
    <3>4. IsList(SubSeq(e, 1, 0)) /\ ToSet(SubSeq(e, 1, 0)) \subseteq ToSet(e)
      BY <3>1, <3>3, AskedFrom
    <3> QED
      BY <3>1, <3>2, <3>4
  <2>4. \A t : t \in ToSet(txs) <=> \E i \in DOMAIN asked : ~out[i] /\ t = Nodes!Unified(d, asked[i])
    BY <1>3, <2>3, TxsAll
  <2>5. DOMAIN asked = {}
    BY <2>3 DEF ToSet
  <2>6. ToSet(txs) = {}
    BY <2>4, <2>5
  <2> QED
    BY <1>1, <2>1, <2>6 DEF BlockReads
<1> QED
  BY <1>6, <1>7

LEMMA SolanaReads ==
  ASSUME NEW b, IsList(b.txs), ~b.skipped
  PROVE  BlockReads(Nodes!SolanaGetBlock(b), "solana", b, TRUE)
<1> DEFINE out == [i \in DOMAIN b.txs |-> ~b.txs[i].ok]
           txs == Nodes!SolanaBlockTransactions(b)
<1>1. Nodes!SolanaGetBlock(b).txs = txs
  BY DEF Nodes!SolanaGetBlock, Nodes!WithTxs
<1>2. txs = Nodes!FlattenSeq([i \in DOMAIN b.txs |->
                Nodes!Unless(out[i], Nodes!Unified(b, b.txs[i]))])
  BY DEF Nodes!SolanaBlockTransactions
<1>3. \A i \in DOMAIN b.txs : ~out[i] <=> b.txs[i].ok
  OBVIOUS
<1> HIDE DEF txs, out
<1>4. \A t : t \in ToSet(txs) <=> \E i \in DOMAIN b.txs : ~out[i] /\ t = Nodes!Unified(b, b.txs[i])
  BY <1>2, TxsAll
<1>5. \A tx : Readable("solana", b, tx) <=> tx.ok
  BY DEF Readable
<1>6. ToSet(b.txs) = {b.txs[i] : i \in DOMAIN b.txs}
  BY DEF ToSet
<1>7. ASSUME NEW t \in ToSet(txs)
      PROVE  \E tx \in ToSet(b.txs) : Readable("solana", b, tx) /\ Conveys(t, "solana", b, tx)
  <2>1. PICK i \in DOMAIN b.txs : ~out[i] /\ t = Nodes!Unified(b, b.txs[i])
    BY <1>4
  <2> QED
    BY <1>3, <1>5, <1>6, <2>1, Unifies
<1>8. ASSUME NEW tx \in ToSet(b.txs), Readable("solana", b, tx)
      PROVE  \E t \in ToSet(txs) : Conveys(t, "solana", b, tx)
  <2>1. PICK i \in DOMAIN b.txs : tx = b.txs[i]
    BY <1>6
  <2>2. Nodes!Unified(b, tx) \in ToSet(txs)
    BY <1>3, <1>4, <1>5, <1>8, <2>1
  <2> QED
    BY <2>2, Unifies
<1> QED
  BY <1>1, <1>7, <1>8 DEF BlockReads

LEMMA SuiReads ==
  ASSUME NEW b, IsList(b.txs), {"number", "hash", "time", "txs"} \subseteq DOMAIN b,
         NEW counter, NEW lost
  PROVE  BlockReads(Nodes!SuiGetBlock(b, counter, lost), "sui", b, lost = {})
<1> DEFINE d == [b EXCEPT !.number = counter]
           out == [i \in DOMAIN d.txs |-> d.txs[i].hash \in lost]
           txs == Nodes!SuiTransactionDetails(d, lost)
<1>1. Nodes!SuiGetBlock(b, counter, lost).txs = txs
  BY DEF Nodes!SuiGetBlock, Nodes!WithTxs
<1>2. d.time = b.time /\ d.txs = b.txs
  OBVIOUS
<1>3. txs = Nodes!FlattenSeq([i \in DOMAIN d.txs |->
                Nodes!Unless(out[i], Nodes!Unified(d, d.txs[i]))])
  BY DEF Nodes!SuiTransactionDetails
<1>4. \A i \in DOMAIN d.txs : out[i] <=> d.txs[i].hash \in lost
  OBVIOUS
<1> HIDE DEF txs, out, d
<1>5. \A t : t \in ToSet(txs) <=> \E i \in DOMAIN d.txs : ~out[i] /\ t = Nodes!Unified(d, d.txs[i])
  BY <1>2, <1>3, TxsAll
<1>6. \A tx : Readable("sui", b, tx) /\ Conveys(Nodes!Unified(d, tx), "sui", b, tx)
  BY <1>2 DEF Readable, Conveys, Nodes!Unified
<1>7. ToSet(b.txs) = {d.txs[i] : i \in DOMAIN d.txs}
  BY <1>2 DEF ToSet
<1>8. ASSUME NEW t \in ToSet(txs)
      PROVE  \E tx \in ToSet(b.txs) : Readable("sui", b, tx) /\ Conveys(t, "sui", b, tx)
  <2>1. PICK i \in DOMAIN d.txs : t = Nodes!Unified(d, d.txs[i])
    BY <1>5
  <2> QED
    BY <1>6, <1>7, <2>1
<1>9. ASSUME lost = {}, NEW tx \in ToSet(b.txs)
      PROVE  \E t \in ToSet(txs) : Conveys(t, "sui", b, tx)
  <2>1. PICK i \in DOMAIN d.txs : tx = d.txs[i]
    BY <1>7
  <2>2. Nodes!Unified(d, tx) \in ToSet(txs)
    BY <1>4, <1>5, <1>9, <2>1
  <2> QED
    BY <1>6, <2>2
<1> QED
  BY <1>1, <1>8, <1>9 DEF BlockReads

\* ss: what the loop over the range makes of each block of it.
Loops(ss, asked, out, got, c, all) ==
  /\ ss = [i \in DOMAIN asked |-> ss[i]]
  /\ \A i \in DOMAIN asked :
       /\ ss[i] = Nodes!Unless(out[i], got[i])
       /\ ~out[i] => BlockReads(got[i], c, asked[i], all)
       /\ all /\ out[i] => \A tx \in ToSet(asked[i].txs) : ~Readable(c, asked[i], tx)

LEMMA RangeAll ==
  ASSUME NEW c, NEW all, NEW asked, IsList(asked), NEW out, NEW got,
         NEW ss, Loops(ss, asked, out, got, c, all)
  PROVE  RangeReads(Nodes!FlattenSeq(ss), c, asked, all)
<1>0. /\ ss = [i \in DOMAIN asked |-> ss[i]]
      /\ \A i \in DOMAIN asked : ss[i] = Nodes!Unless(out[i], got[i])
  BY DEF Loops
<1>1. \A f : f \in ToSet(FlattenSeq(ss)) <=> \E i \in DOMAIN asked : ~out[i] /\ f = got[i]
  BY <1>0, UnlessAll
<1>2. ToSet(asked) = {asked[i] : i \in DOMAIN asked}
  BY DEF ToSet
<1>3. ASSUME NEW f \in ToSet(FlattenSeq(ss)), NEW t \in ToSet(f.txs)
      PROVE  \E b \in ToSet(asked) : \E tx \in ToSet(b.txs) : Readable(c, b, tx) /\ Conveys(t, c, b, tx)
  <2>1. PICK i \in DOMAIN asked : ~out[i] /\ f = got[i]
    BY <1>1
  <2>2. BlockReads(f, c, asked[i], all) /\ asked[i] \in ToSet(asked)
    BY <1>2, <2>1 DEF Loops
  <2>3. \E tx \in ToSet(asked[i].txs) : Readable(c, asked[i], tx) /\ Conveys(t, c, asked[i], tx)
    BY <2>2 DEF BlockReads
  <2> QED
    BY <2>2, <2>3
<1>4. ASSUME all, NEW b \in ToSet(asked), NEW tx \in ToSet(b.txs), Readable(c, b, tx)
      PROVE  \E f \in ToSet(FlattenSeq(ss)) : \E t \in ToSet(f.txs) : Conveys(t, c, b, tx)
  <2>1. PICK i \in DOMAIN asked : b = asked[i]
    BY <1>2
  <2>2. ~out[i]
    BY <1>4, <2>1 DEF Loops
  <2>3. got[i] \in ToSet(FlattenSeq(ss)) /\ BlockReads(got[i], c, b, all)
    BY <1>1, <2>1, <2>2 DEF Loops
  <2>4. \E t \in ToSet(got[i].txs) : Conveys(t, c, b, tx)
    BY <1>4, <2>3 DEF BlockReads
  <2> QED
    BY <2>3, <2>4
<1>5. RangeReads(FlattenSeq(ss), c, asked, all)
  BY <1>3, <1>4 DEF RangeReads
<1> QED
  BY <1>5, NodesFlatten

LEMMA GetReads ==
  ASSUME NEW c \in DOMAIN Blockchain, c \in Others, NEW from \in Nat \ {0}, NEW end \in Nat,
         end <= Len(Blockchain[c]), NEW lost
  PROVE  RangeReads(GetBlocksByRange(c, from, end, lost), c, SubSeq(Blockchain[c], from, end), lost = {})
<1> DEFINE asked == SubSeq(Blockchain[c], from, end)
           all == lost = {}
<1>1. IsList(asked) /\ ToSet(asked) \subseteq ToSet(Blockchain[c])
  BY AskedFrom, ChainsTyped DEF ChainOf, IsList
<1>2. \A i \in DOMAIN asked : /\ asked[i] \in ToSet(Blockchain[c])
                              /\ IsList(asked[i].txs)
                              /\ {"number", "hash", "time", "txs"} \subseteq DOMAIN asked[i]
  <2>1. \A i \in DOMAIN asked : asked[i] \in ToSet(Blockchain[c])
    BY <1>1, ListTyped
  <2> QED
    BY <2>1, ChainsTyped DEF ChainOf
<1>3. \A ss : RangeReads(Nodes!FlattenSeq(ss), c, asked, all)
              => RangeReads(Nodes!FlattenSeq(ss), c, SubSeq(Blockchain[c], from, end), lost = {})
  OBVIOUS
<1> HIDE DEF asked, all
<1>a. CASE c = "bsc"
  <2> DEFINE got == [i \in DOMAIN asked |-> Nodes!BscGetBlock(asked[i], lost)]
             out == [i \in DOMAIN asked |-> asked[i].hash \in lost]
             ss == [i \in DOMAIN asked |-> Nodes!Unless(asked[i].hash \in lost, Nodes!BscGetBlock(asked[i], lost))]
  <2>1. GetBlocksByRange(c, from, end, lost) = Nodes!FlattenSeq(ss)
    BY <1>a DEF asked, GetBlocksByRange, Nodes!BscGetBlocksByRange
  <2>2. /\ ss = [i \in DOMAIN asked |-> ss[i]]
        /\ \A i \in DOMAIN asked : /\ ss[i] = Nodes!Unless(out[i], got[i])
                                   /\ got[i] = Nodes!BscGetBlock(asked[i], lost)
                                   /\ out[i] <=> asked[i].hash \in lost
    OBVIOUS
  <2> HIDE DEF got, out, ss
  <2>3. \A i \in DOMAIN asked : BlockReads(got[i], c, asked[i], all)
    BY <1>2, <1>a, <2>2, BscReads DEF all
  <2>4. \A i \in DOMAIN asked : all => ~out[i]
    BY <2>2 DEF all
  <2> QED
    <3>1. Loops(ss, asked, out, got, c, all)
      BY <2>2, <2>3, <2>4, Zenon DEF Loops
    <3>2. RangeReads(Nodes!FlattenSeq(ss), c, asked, all)
      BY <1>1, <3>1, RangeAll
    <3> QED
      BY <1>3, <2>1, <3>2
<1>b. CASE c = "solana"
  <2> DEFINE got == [i \in DOMAIN asked |-> Nodes!SolanaGetBlock(asked[i])]
             out == [i \in DOMAIN asked |-> asked[i].hash \in lost \/ asked[i].skipped]
             ss == [i \in DOMAIN asked |->
                      Nodes!Unless(asked[i].hash \in lost \/ asked[i].skipped, Nodes!SolanaGetBlock(asked[i]))]
  <2>1. GetBlocksByRange(c, from, end, lost) = Nodes!FlattenSeq(ss)
    BY <1>b DEF asked, GetBlocksByRange, Nodes!SolanaGetBlocksByRange
  <2>2. /\ ss = [i \in DOMAIN asked |-> ss[i]]
        /\ \A i \in DOMAIN asked : /\ ss[i] = Nodes!Unless(out[i], got[i])
                                   /\ got[i] = Nodes!SolanaGetBlock(asked[i])
                                   /\ out[i] <=> asked[i].hash \in lost \/ asked[i].skipped
    OBVIOUS
  <2> HIDE DEF got, out, ss
  <2>3. \A f, b : BlockReads(f, "solana", b, TRUE) => BlockReads(f, "solana", b, all)
    BY DEF BlockReads
  <2>4. \A i \in DOMAIN asked : ~out[i] => BlockReads(got[i], c, asked[i], all)
    BY <1>2, <1>b, <2>2, <2>3, SolanaReads
  <2>5. \A i \in DOMAIN asked : all /\ out[i] =>
          \A tx \in ToSet(asked[i].txs) : ~Readable(c, asked[i], tx)
    BY <1>b, <2>2 DEF all, Readable
  <2> QED
    <3>1. Loops(ss, asked, out, got, c, all)
      BY <2>2, <2>4, <2>5, Zenon DEF Loops
    <3>2. RangeReads(Nodes!FlattenSeq(ss), c, asked, all)
      BY <1>1, <3>1, RangeAll
    <3> QED
      BY <1>3, <2>1, <3>2
<1>c. CASE c = "sui"
  <2> DEFINE got == [i \in DOMAIN asked |-> Nodes!SuiGetBlock(asked[i], end + 1, lost)]
             out == [i \in DOMAIN asked |-> asked[i].hash \in lost]
             ss == [i \in DOMAIN asked |->
                      Nodes!Unless(asked[i].hash \in lost, Nodes!SuiGetBlock(asked[i], end + 1, lost))]
  <2>1. GetBlocksByRange(c, from, end, lost) = Nodes!FlattenSeq(ss)
    BY <1>c DEF asked, GetBlocksByRange, Nodes!SuiGetBlocksByRange
  <2>2. /\ ss = [i \in DOMAIN asked |-> ss[i]]
        /\ \A i \in DOMAIN asked : /\ ss[i] = Nodes!Unless(out[i], got[i])
                                   /\ got[i] = Nodes!SuiGetBlock(asked[i], end + 1, lost)
                                   /\ out[i] <=> asked[i].hash \in lost
    OBVIOUS
  <2> HIDE DEF got, out, ss
  <2>3. \A i \in DOMAIN asked : BlockReads(got[i], c, asked[i], all)
    BY <1>2, <1>c, <2>2, SuiReads DEF all
  <2>4. \A i \in DOMAIN asked : all => ~out[i]
    BY <2>2 DEF all
  <2> QED
    <3>1. Loops(ss, asked, out, got, c, all)
      BY <2>2, <2>3, <2>4, Zenon DEF Loops
    <3>2. RangeReads(Nodes!FlattenSeq(ss), c, asked, all)
      BY <1>1, <3>1, RangeAll
    <3> QED
      BY <1>3, <2>1, <3>2
<1> QED
  BY <1>a, <1>b, <1>c DEF Others

-----------------------------------------------------------------------------
(* A range that was fetched and the whole of the chain: the items of the   *)
(* one, and what becomes of them, compared with those of the other.        *)

LEMMA BlocksFetched ==
  ASSUME NEW c \in DOMAIN Blockchain, NEW from \in Nat \ {0}, NEW end \in Nat,
         end <= Len(Blockchain[c]), NEW lost
  PROVE  \E S : BlocksOf(GetBlocksByRange(c, from, end, lost), S)
<1> DEFINE fs == GetBlocksByRange(c, from, end, lost)
           S == UNION {{<<t.hash, t.number>> : t \in ToSet(f.txs)} : f \in ToSet(fs)}
           exact == c # "sui"
<1>1. FetchedFrom(fs, Blockchain[c], exact)
  BY GetFrom
<1> HIDE DEF fs, exact
<1>2. \A b \in ToSet(Blockchain[c]) : \A tx \in ToSet(b.txs) :
        IsList(tx.events) /\ \A e \in ToSet(tx.events) : IsList(e.tokens)
  BY ChainsTyped DEF ChainOf
<1>3. ASSUME NEW f \in ToSet(fs)
      PROVE  /\ "txs" \in DOMAIN f /\ IsList(f.txs)
             /\ \A t \in ToSet(f.txs) :
                  /\ {"hash", "number", "time", "events"} \subseteq DOMAIN t
                  /\ <<t.hash, t.number>> \in S
                  /\ IsList(t.events) /\ \A e \in ToSet(t.events) : IsList(e.tokens)
  <2>1. PICK b \in ToSet(Blockchain[c]) : BlockFrom(f, b, exact)
    BY <1>1 DEF FetchedFrom
  <2>2. ASSUME NEW t \in ToSet(f.txs)
        PROVE  /\ {"hash", "number", "time", "events"} \subseteq DOMAIN t
               /\ <<t.hash, t.number>> \in S
               /\ IsList(t.events) /\ \A e \in ToSet(t.events) : IsList(e.tokens)
    <3>1. TxFrom(t, b, f.number)
      BY <2>1 DEF BlockFrom
    <3>2. PICK tx \in ToSet(b.txs) : t.events = tx.events
      BY <3>1 DEF TxFrom
    <3>3. <<t.hash, t.number>> \in S
      OBVIOUS
    <3> HIDE DEF S
    <3> QED
      BY <1>2, <3>1, <3>2, <3>3 DEF TxFrom
  <2> QED
    BY <2>1, <2>2 DEF BlockFrom
<1> HIDE DEF S
<1>4. BlocksOf(fs, S)
  BY <1>1, <1>3 DEF BlocksOf, FetchedFrom
<1> QED
  BY <1>4 DEF fs

\* it is an event of the transaction tx of the block b, as an extractor of the
\* chain c is given it.
ItemOn(c, it, b, tx) ==
  \E t : Conveys(t, c, b, tx) /\ InTx(it, t, LinesOf(c, t))

LEMMA LinesSame ==
  ASSUME NEW c, NEW t, NEW u, t.events = u.events
  PROVE  LinesOf(c, t) = LinesOf(c, u)
BY DEF LinesOf, ExtractSolanaEventData

LEMMA LinesAreEvents ==
  ASSUME NEW c, NEW t, IsList(t.events), NEW it, InTx(it, t, LinesOf(c, t))
  PROVE  it.ev \in ToSet(t.events)
<1> DEFINE lines == LinesOf(c, t)
<1>1. IsList(lines) /\ ToSet(lines) \subseteq ToSet(t.events)
  BY KeptOf DEF LinesOf, ExtractSolanaEventData
<1> HIDE DEF lines
<1>2. PICK i \in DOMAIN lines : it = ItemAt(t, lines, i)
  BY DEF InTx, lines
<1>3. it.ev = lines[i] /\ lines[i] \in ToSet(lines)
  BY <1>1, <1>2, ListTyped DEF ItemAt
<1> QED
  BY <1>1, <1>3

\* The same place in two readings of one transaction.
LEMMA ConveyedAlike ==
  ASSUME NEW c, NEW b, NEW tx, NEW t, NEW u, Conveys(t, c, b, tx), Conveys(u, c, b, tx),
         NEW it, InTx(it, t, LinesOf(c, t))
  PROVE  \E other : InTx(other, u, LinesOf(c, u)) /\ Alike(c, it, other)
<1> DEFINE lines == LinesOf(c, t)
<1>1. LinesOf(c, u) = lines
  BY LinesSame DEF Conveys
<1>2. PICK i \in DOMAIN lines : it = ItemAt(t, lines, i)
  BY DEF InTx
<1> HIDE DEF lines
<1> DEFINE other == ItemAt(u, lines, i)
<1>3. InTx(other, u, LinesOf(c, u))
  BY <1>1 DEF InTx
<1>4. /\ other.ev = it.ev /\ other.pos = it.pos /\ other.hash = u.hash /\ other.time = u.time
      /\ it.hash = t.hash /\ it.time = t.time
      /\ t = u => other = it
  BY <1>2 DEF ItemAt
<1>5. Alike(c, it, other)
  BY <1>4 DEF Alike, Conveys
<1> QED
  BY <1>3, <1>5

LEMMA ItemsComeFrom ==
  ASSUME NEW c \in DOMAIN Blockchain, c \in Others, NEW from \in Nat \ {0}, NEW end \in Nat,
         end <= Len(Blockchain[c]), NEW lost, NEW fs, fs = GetBlocksByRange(c, from, end, lost),
         NEW it \in ToSet(ItemsOf(c, fs))
  PROVE  \E b \in ToSet(SubSeq(Blockchain[c], from, end)) : \E tx \in ToSet(b.txs) :
           Readable(c, b, tx) /\ ItemOn(c, it, b, tx)
<1> DEFINE asked == SubSeq(Blockchain[c], from, end)
           all == lost = {}
<1>1. RangeReads(fs, c, asked, all)
  BY GetReads
<1>2. PICK S : BlocksOf(fs, S)
  BY BlocksFetched
<1> HIDE DEF asked, all
<1>3. PICK f \in ToSet(fs) : \E t \in ToSet(f.txs) : InTx(it, t, LinesOf(c, t))
  BY <1>2, ItemsOfAll
<1>4. PICK t \in ToSet(f.txs) : InTx(it, t, LinesOf(c, t))
  BY <1>3
<1>5. PICK b \in ToSet(asked) : \E tx \in ToSet(b.txs) : Readable(c, b, tx) /\ Conveys(t, c, b, tx)
  BY <1>1 DEF RangeReads
<1>6. PICK tx \in ToSet(b.txs) : Readable(c, b, tx) /\ Conveys(t, c, b, tx)
  BY <1>5
<1>7. ItemOn(c, it, b, tx)
  BY <1>4, <1>6 DEF ItemOn
<1> QED
  BY <1>6, <1>7 DEF asked

\* What is fetched of the transaction of an item has the item.
LEMMA ItemIsFetched ==
  ASSUME NEW c, NEW S, NEW fs, BlocksOf(fs, S), NEW b, NEW tx, NEW it, ItemOn(c, it, b, tx),
         NEW f \in ToSet(fs), NEW u \in ToSet(f.txs), Conveys(u, c, b, tx)
  PROVE  \E other \in ToSet(ItemsOf(c, fs)) : Alike(c, it, other)
<1>1. PICK t : Conveys(t, c, b, tx) /\ InTx(it, t, LinesOf(c, t))
  BY DEF ItemOn
<1>2. PICK other : InTx(other, u, LinesOf(c, u)) /\ Alike(c, it, other)
  BY <1>1, ConveyedAlike
<1>3. other \in ToSet(ItemsOf(c, fs))
  BY <1>2, ItemsOfAll
<1> QED
  BY <1>2, <1>3

\* The pair by which Told knows a row.
PairOf(r) == <<r.key, r.of>>

LEMMA ToldAre ==
  ASSUME NEW c \in DOMAIN Blockchain, c \in Others, NEW t \in Tables
  PROVE  \A p : p \in Told[c][t] <=>
           \E it \in ToSet(ItemsOf(c, Pass(c))) : \E r \in RowsMade(c, it, {}, t) : p = PairOf(r)
<1> DEFINE pass == Extracted(c, Pass(c), Uniswap!NoMemory, {})
<1>1. Told[c] = [u \in Tables |-> {<<r.key, r.of>> : r \in ToSet(pass[u])}]
  <2>1. c \in DOMAIN Blockchain \ {"ethereum"}
    BY DEF Others
  <2> QED
    BY <2>1 DEF Told, Pass
<1>2. PICK S : BlocksOf(Pass(c), S)
  <2>1. Len(Blockchain[c]) \in Nat /\ 1 \in Nat \ {0} /\ Len(Blockchain[c]) <= Len(Blockchain[c])
    BY ChainsTyped, ListTyped DEF ChainOf
  <2> QED
    BY <2>1, BlocksFetched DEF Pass
<1>3. \A r : r \in ToSet(pass[t]) <=>
        \E it \in ToSet(ItemsOf(c, Pass(c))) : r \in RowsMade(c, it, {}, t)
  BY <1>2, ExtractedAll
<1> HIDE DEF pass
<1>4. Told[c][t] = {PairOf(r) : r \in ToSet(pass[t])}
  BY <1>1 DEF PairOf
<1> QED
  BY <1>3, <1>4

LEMMA PassReads ==
  ASSUME NEW c \in DOMAIN Blockchain, c \in Others
  PROVE  /\ \E S : BlocksOf(Pass(c), S)
         /\ \A b \in ToSet(Blockchain[c]) : \A tx \in ToSet(b.txs) : Readable(c, b, tx) =>
              \E f \in ToSet(Pass(c)) : \E t \in ToSet(f.txs) : Conveys(t, c, b, tx)
         /\ \A it \in ToSet(ItemsOf(c, Pass(c))) :
              \E b \in ToSet(Blockchain[c]) : \E tx \in ToSet(b.txs) :
                Readable(c, b, tx) /\ ItemOn(c, it, b, tx)
<1> DEFINE blocks == Blockchain[c]
           n == Len(blocks)
           none == {}
<1>1. IsList(blocks) /\ n \in Nat /\ 1 \in Nat \ {0} /\ n <= n
  BY ChainsTyped, ListTyped DEF ChainOf
<1>2. SubSeq(blocks, 1, n) = blocks
  BY <1>1, SubSeqFull DEF IsList
<1>3. \E S : BlocksOf(Pass(c), S)
  BY <1>1, BlocksFetched DEF Pass
<1>4. RangeReads(Pass(c), c, SubSeq(blocks, 1, n), none = {})
  BY <1>1, GetReads DEF Pass
<1>5. \A it \in ToSet(ItemsOf(c, Pass(c))) :
        \E b \in ToSet(SubSeq(blocks, 1, n)) : \E tx \in ToSet(b.txs) :
          Readable(c, b, tx) /\ ItemOn(c, it, b, tx)
  BY <1>1, ItemsComeFrom DEF Pass
<1>6. none = {}
  OBVIOUS
<1>7. \A b \in ToSet(SubSeq(blocks, 1, n)) : \A tx \in ToSet(b.txs) : Readable(c, b, tx) =>
        \E f \in ToSet(Pass(c)) : \E t \in ToSet(f.txs) : Conveys(t, c, b, tx)
  BY <1>4, <1>6 DEF RangeReads
<1> QED
  BY <1>2, <1>3, <1>5, <1>7

LEMMA RangeOnChain ==
  ASSUME NEW c \in DOMAIN Blockchain, NEW from \in Nat \ {0}, NEW end \in Nat, end <= Len(Blockchain[c])
  PROVE  ToSet(SubSeq(Blockchain[c], from, end)) \subseteq ToSet(Blockchain[c])
BY AskedFrom, ChainsTyped DEF ChainOf, IsList

LEMMA ExtractedIsTold ==
  ASSUME NEW c \in DOMAIN Blockchain, c \in Others, NEW from \in Nat \ {0}, NEW end \in Nat,
         end <= Len(Blockchain[c]), NEW lost, NEW mem, NEW unread, NEW t \in Tables,
         NEW r \in ToSet(Extracted(c, GetBlocksByRange(c, from, end, lost), mem, unread)[t])
  PROVE  PairOf(r) \in Told[c][t]
<1> DEFINE fs == GetBlocksByRange(c, from, end, lost)
<1>1. PICK S : BlocksOf(fs, S)
  BY BlocksFetched
<1>2. PICK it \in ToSet(ItemsOf(c, fs)) : r \in RowsMade(c, it, unread, t)
  BY <1>1, ExtractedAll
<1>3. r \in RowsMade(c, it, {}, t)
  BY <1>2, RowsMadeRead
<1>4. PICK b \in ToSet(SubSeq(Blockchain[c], from, end)) : \E tx \in ToSet(b.txs) :
        Readable(c, b, tx) /\ ItemOn(c, it, b, tx)
  BY ItemsComeFrom
<1>5. PICK tx \in ToSet(b.txs) : Readable(c, b, tx) /\ ItemOn(c, it, b, tx)
  BY <1>4
<1>6. b \in ToSet(Blockchain[c])
  BY RangeOnChain
<1>7. PICK f \in ToSet(Pass(c)) : \E u \in ToSet(f.txs) : Conveys(u, c, b, tx)
  BY <1>5, <1>6, PassReads
<1>8. PICK u \in ToSet(f.txs) : Conveys(u, c, b, tx)
  BY <1>7
<1>9. PICK S2 : BlocksOf(Pass(c), S2)
  BY PassReads
<1>10. PICK other \in ToSet(ItemsOf(c, Pass(c))) : Alike(c, it, other)
  BY <1>5, <1>8, <1>9, ItemIsFetched
<1>11. PICK q \in RowsMade(c, other, {}, t) : q.key = r.key /\ q.of = r.of
  BY <1>3, <1>10, RowsMadeAlike
<1>12. PairOf(r) = PairOf(q)
  BY <1>11 DEF PairOf
<1> QED
  BY <1>10, <1>11, <1>12, ToldAre

LEMMA ToldIsExtracted ==
  ASSUME NEW c \in DOMAIN Blockchain, c \in Others, NEW from \in Nat \ {0}, NEW end \in Nat,
         end <= Len(Blockchain[c]), NEW lost, NEW mem, NEW unread, NEW t \in Tables,
         NEW p \in Told[c][t],
         NEW e \in EventsOf(GetBlocksByRange(c, from, end, lost)), p[2] = e.id,
         c = "sui" => p[2] \notin unread
  PROVE  \E r \in ToSet(Extracted(c, GetBlocksByRange(c, from, end, lost), mem, unread)[t]) :
           p = PairOf(r)
<1> DEFINE fs == GetBlocksByRange(c, from, end, lost)
           asked == SubSeq(Blockchain[c], from, end)
           all == lost = {}
<1>1. PICK it \in ToSet(ItemsOf(c, Pass(c))) : \E r \in RowsMade(c, it, {}, t) : p = PairOf(r)
  BY ToldAre
<1>2. PICK r \in RowsMade(c, it, {}, t) : p = PairOf(r)
  BY <1>1
<1>3. it.ev.id = e.id
  BY <1>2, RowsMadeOf DEF PairOf
<1>4. PICK b \in ToSet(Blockchain[c]) : \E tx \in ToSet(b.txs) : Readable(c, b, tx) /\ ItemOn(c, it, b, tx)
  BY PassReads
<1>5. PICK tx \in ToSet(b.txs) : Readable(c, b, tx) /\ ItemOn(c, it, b, tx)
  BY <1>4
<1>6. it.ev \in ToSet(tx.events)
  <2>1. IsList(tx.events)
    BY ChainsTyped DEF ChainOf
  <2>2. PICK u : Conveys(u, c, b, tx) /\ InTx(it, u, LinesOf(c, u))
    BY <1>5 DEF ItemOn
  <2>3. u.events = tx.events
    BY <2>2 DEF Conveys
  <2> QED
    BY <2>1, <2>2, <2>3, LinesAreEvents
<1>7. PICK f \in ToSet(fs) : \E u \in ToSet(f.txs) : e \in ToSet(u.events)
  BY DEF EventsOf
<1>8. PICK u \in ToSet(f.txs) : e \in ToSet(u.events)
  BY <1>7
<1>9. RangeReads(fs, c, asked, all)
  BY GetReads
<1>10. PICK S : BlocksOf(fs, S)
  BY BlocksFetched
<1>11. ToSet(asked) \subseteq ToSet(Blockchain[c])
  BY RangeOnChain
<1> HIDE DEF fs, asked, all
<1>12. PICK b2 \in ToSet(asked) : \E tx2 \in ToSet(b2.txs) : Conveys(u, c, b2, tx2)
  BY <1>9 DEF RangeReads
<1>13. PICK tx2 \in ToSet(b2.txs) : Conveys(u, c, b2, tx2)
  BY <1>12
<1>14. b2 = b /\ tx2 = tx
  <2>1. b2 \in ToSet(Blockchain[c]) /\ e \in ToSet(tx2.events)
    BY <1>8, <1>11, <1>13 DEF Conveys
  <2> QED
    BY <1>3, <1>6, <2>1, HashesAssumption
<1>15. PICK other \in ToSet(ItemsOf(c, fs)) : Alike(c, it, other)
  BY <1>5, <1>10, <1>13, <1>14, ItemIsFetched
<1>16. PICK q \in RowsMade(c, other, {}, t) : q.key = r.key /\ q.of = r.of
  BY <1>15, RowsMadeAlike
<1>17. q \in RowsMade(c, other, unread, t)
  <2>1. other.ev.id = p[2]
    BY <1>3, <1>15 DEF Alike
  <2> QED
    BY <1>16, <2>1, RowsMadeRead
<1>18. q \in ToSet(Extracted(c, fs, mem, unread)[t])
  BY <1>10, <1>17, ExtractedAll
<1>19. p = PairOf(q)
  BY <1>2, <1>16 DEF PairOf
<1> QED
  BY <1>18, <1>19 DEF fs

\* A key of the transactions or of the liquidities is one event's.
LEMMA ToldOnce ==
  ASSUME NEW c \in DOMAIN Blockchain, c \in Others, NEW t \in {"txs", "liqs"},
         NEW p \in Told[c][t], NEW p2 \in Told[c][t], p2[1] = p[1]
  PROVE  p2[2] = p[2]
<1>1. t \in Tables
  BY DEF Tables
<1>a. PICK it \in ToSet(ItemsOf(c, Pass(c))) : \E r \in RowsMade(c, it, {}, t) : p = PairOf(r)
  BY <1>1, ToldAre
<1>b. PICK it2 \in ToSet(ItemsOf(c, Pass(c))) : \E r \in RowsMade(c, it2, {}, t) : p2 = PairOf(r)
  BY <1>1, ToldAre
<1>2. PICK r \in RowsMade(c, it, {}, t) : p = PairOf(r)
  BY <1>a
<1>3. PICK r2 \in RowsMade(c, it2, {}, t) : p2 = PairOf(r2)
  BY <1>b
<1>4. r2.key = r.key /\ p[2] = it.ev.id /\ p2[2] = it2.ev.id
  BY <1>1, <1>2, <1>3, RowsMadeOf DEF PairOf
<1>5. SamePlace(c, it, it2)
  <2> DEFINE none == {}
  <2>1. r \in RowsMade(c, it, none, t) /\ r2 \in RowsMade(c, it2, none, t) /\ r2.key = r.key
    BY <1>4
  <2> HIDE DEF none
  <2> QED
    BY <2>1, RowsMadeKeys
<1>c. PICK b \in ToSet(Blockchain[c]) : \E tx \in ToSet(b.txs) : ItemOn(c, it, b, tx)
  BY PassReads
<1>d. PICK b2 \in ToSet(Blockchain[c]) : \E tx \in ToSet(b2.txs) : ItemOn(c, it2, b2, tx)
  BY PassReads
<1>6. PICK tx \in ToSet(b.txs) : ItemOn(c, it, b, tx)
  BY <1>c
<1>7. PICK tx2 \in ToSet(b2.txs) : ItemOn(c, it2, b2, tx2)
  BY <1>d
<1>8. PICK u : Conveys(u, c, b, tx) /\ InTx(it, u, LinesOf(c, u))
  BY <1>6 DEF ItemOn
<1>9. PICK u2 : Conveys(u2, c, b2, tx2) /\ InTx(it2, u2, LinesOf(c, u2))
  BY <1>7 DEF ItemOn
<1>10. b2 = b /\ tx2 = tx
  <2>1. \A i, v, lines : InTx(i, v, lines) => i.hash = v.hash
    BY DEF InTx, ItemAt
  <2>2. it.hash = tx.hash /\ it2.hash = tx2.hash
    BY <1>8, <1>9, <2>1 DEF Conveys
  <2> QED
    BY <1>5, <2>2, HashesAssumption DEF SamePlace
<1>11. it.ev \in ToSet(tx.events) /\ it2.ev \in ToSet(tx.events)
  <2>1. IsList(tx.events) /\ u.events = tx.events /\ u2.events = tx.events
    BY <1>8, <1>9, <1>10, ChainsTyped DEF ChainOf, Conveys
  <2> QED
    BY <1>8, <1>9, <2>1, LinesAreEvents
<1>12. CASE c # "sui" /\ it2.pos = it.pos
  <2>1. u2 = u
    BY <1>8, <1>9, <1>10, <1>12 DEF Conveys
  <2> DEFINE lines == LinesOf(c, u)
  <2>2. IsList(lines)
    <3>1. IsList(u.events)
      BY <1>8, ChainsTyped DEF ChainOf, Conveys
    <3> QED
      BY <3>1, KeptOf DEF LinesOf, ExtractSolanaEventData
  <2> HIDE DEF lines
  <2>3. PICK i \in DOMAIN lines : it = ItemAt(u, lines, i)
    BY <1>8 DEF InTx, lines
  <2>4. PICK j \in DOMAIN lines : it2 = ItemAt(u, lines, j)
    BY <1>9, <2>1 DEF InTx, lines
  <2>5. i \in Nat /\ j \in Nat
    BY <2>2, ListTyped
  <2>6. i - 1 = j - 1
    BY <1>12, <2>3, <2>4 DEF ItemAt
  <2>7. i = j
    BY <2>5, <2>6
  <2> QED
    BY <1>4, <2>3, <2>4, <2>7
<1>13. CASE c = "bsc" /\ it2.ev.index = it.ev.index
  BY <1>4, <1>11, <1>13, IndexAssumption
<1>14. CASE c = "sui" /\ it2.ev.seq = it.ev.seq
  BY <1>4, <1>11, <1>14, IndexAssumption
<1> QED
  BY <1>5, <1>12, <1>13, <1>14 DEF SamePlace

-----------------------------------------------------------------------------
(* The tables again: what a statement does to its own table, to the keys   *)
(* of it, and to the others; and what that makes of all the statements of  *)
(* StoreDexData.                                                           *)

Ran(tx, u, t, written) ==
  /\ IsTx(u) /\ DOMAIN u.db = SqlTable
  /\ \A s \in SqlTable \ {t} : u.db[s] = tx.db[s]
  /\ TableFrom(u.db[t], tx.db[t], written)
  /\ DOMAIN tx.db[t] \subseteq DOMAIN u.db[t]
  /\ ~u.failed => ~tx.failed /\ Keys(written) \subseteq DOMAIN u.db[t]

LEMMA WritesKeep ==
  ASSUME NEW old, NEW written
  PROVE  /\ DOMAIN Overwritten(old, written) = DOMAIN old \cup Keys(written)
         /\ DOMAIN Completed(old, written) = DOMAIN old \cup Keys(written)
BY DEF Overwritten, Completed

\* Nothing done, or the table replaced.
LEMMA StatementRan ==
  ASSUME NEW tx, IsTx(tx), DOMAIN tx.db = SqlTable, NEW t \in SqlTable,
         NEW written, IsList(written), NEW u, NEW new,
         \/ u = tx /\ tx.failed
         \/ u = [tx EXCEPT !.failed = TRUE]
         \/ u = [tx EXCEPT !.db[t] = new] /\ ~tx.failed,
         TableFrom(new, tx.db[t], written),
         DOMAIN new = DOMAIN tx.db[t] \cup Keys(written)
  PROVE  Ran(tx, u, t, written)
<1>1. TableFrom(tx.db[t], tx.db[t], written)
  BY DEF TableFrom
<1>2. CASE u = tx /\ tx.failed
  BY <1>1, <1>2 DEF Ran
<1>3. CASE u = [tx EXCEPT !.failed = TRUE]
  <2>1. IsTx(u) /\ u.db = tx.db /\ u.failed
    BY <1>3 DEF IsTx
  <2> QED
    BY <1>1, <2>1 DEF Ran
<1>4. CASE u = [tx EXCEPT !.db[t] = new] /\ ~tx.failed
  <2>1. IsTx(u) /\ u.db = [tx.db EXCEPT ![t] = new] /\ u.failed = tx.failed
    BY <1>4 DEF IsTx
  <2>2. /\ DOMAIN u.db = SqlTable /\ u.db[t] = new
        /\ \A s \in SqlTable \ {t} : u.db[s] = tx.db[s]
    BY <2>1
  <2> QED
    BY <1>4, <2>1, <2>2 DEF Ran
<1> QED
  BY <1>2, <1>3, <1>4

LEMMA MysqlRuns ==
  ASSUME NEW tx, IsTx(tx), DOMAIN tx.db = SqlTable, NEW t \in SqlTable,
         NEW written, IsList(written)
  PROVE  /\ Ran(tx, Mysql!OnDuplicateKeyUpdate(tx, t, written), t, written)
         /\ Ran(tx, Mysql!InsertIgnore(tx, t, written), t, written)
<1> DEFINE u == Mysql!OnDuplicateKeyUpdate(tx, t, written)
           v == Mysql!InsertIgnore(tx, t, written)
           over == Overwritten(tx.db[t], written)
           comp == Completed(tx.db[t], written)
<1>1. /\ (u = tx /\ tx.failed) \/ (u = [tx EXCEPT !.db[t] = over] /\ ~tx.failed)
      /\ (v = tx /\ tx.failed) \/ (v = [tx EXCEPT !.db[t] = comp] /\ ~tx.failed)
  <2>1. CASE tx.failed
    BY <2>1 DEF Mysql!OnDuplicateKeyUpdate, Mysql!InsertIgnore, Mysql!Statement
  <2>2. CASE ~tx.failed
    BY <2>2, MysqlTables
       DEF Mysql!OnDuplicateKeyUpdate, Mysql!InsertIgnore, Mysql!Statement
  <2> QED
    BY <2>1, <2>2
<1>2. /\ TableFrom(over, tx.db[t], written) /\ TableFrom(comp, tx.db[t], written)
      /\ DOMAIN over = DOMAIN tx.db[t] \cup Keys(written)
      /\ DOMAIN comp = DOMAIN tx.db[t] \cup Keys(written)
  BY WritesFrom, WritesKeep
<1> HIDE DEF u, v, over, comp
<1>3. Ran(tx, u, t, written)
  BY <1>1, <1>2, StatementRan
<1>4. Ran(tx, v, t, written)
  BY <1>1, <1>2, StatementRan
<1> QED
  BY <1>3, <1>4 DEF u, v

LEMMA PgsqlRuns ==
  ASSUME NEW tx, IsTx(tx), DOMAIN tx.db = SqlTable, NEW t \in SqlTable,
         NEW written, IsList(written)
  PROVE  /\ Ran(tx, Pgsql!OnConflictDoUpdate(tx, t, written), t, written)
         /\ Ran(tx, Pgsql!OnConflictDoNothing(tx, t, written), t, written)
<1> DEFINE u == Pgsql!OnConflictDoUpdate(tx, t, written)
           v == Pgsql!OnConflictDoNothing(tx, t, written)
           over == Overwritten(tx.db[t], written)
           comp == Completed(tx.db[t], written)
<1>1. /\ \/ u = tx /\ tx.failed
         \/ u = [tx EXCEPT !.failed = TRUE]
         \/ u = [tx EXCEPT !.db[t] = over] /\ ~tx.failed
      /\ (v = tx /\ tx.failed) \/ (v = [tx EXCEPT !.db[t] = comp] /\ ~tx.failed)
  <2>1. CASE tx.failed
    BY <2>1 DEF Pgsql!OnConflictDoUpdate, Pgsql!OnConflictDoNothing, Pgsql!Statement
  <2>2. CASE ~tx.failed
    BY <2>2, PgsqlTables
       DEF Pgsql!OnConflictDoUpdate, Pgsql!OnConflictDoNothing, Pgsql!Statement
  <2> QED
    BY <2>1, <2>2
<1>2. /\ TableFrom(over, tx.db[t], written) /\ TableFrom(comp, tx.db[t], written)
      /\ DOMAIN over = DOMAIN tx.db[t] \cup Keys(written)
      /\ DOMAIN comp = DOMAIN tx.db[t] \cup Keys(written)
  BY WritesFrom, WritesKeep
<1> HIDE DEF u, v, over, comp
<1>3. Ran(tx, u, t, written)
  BY <1>1, <1>2, StatementRan
<1>4. Ran(tx, v, t, written)
  BY <1>1, <1>2, StatementRan
<1> QED
  BY <1>3, <1>4 DEF u, v

\* The tables after StoreDexData, whether it succeeded or not; all of the keys are
\* there when it did.
DexStored(d, e, done, data) ==
  \A t \in Tables :
    /\ TableFrom(e[t], d[t], data[t])
    /\ DOMAIN d[t] \subseteq DOMAIN e[t]
    /\ done => Keys(data[t]) \subseteq DOMAIN e[t]

LEMMA AllRan ==
  ASSUME NEW data, NEW tx0, NEW tx1, NEW tx2, NEW tx3, NEW tx4, NEW tx5,
         Ran(tx0, tx1, "pools", data["pools"]), Ran(tx1, tx2, "tokens", data["tokens"]),
         Ran(tx2, tx3, "txs", data["txs"]), Ran(tx3, tx4, "liqs", data["liqs"]),
         Ran(tx4, tx5, "reserves", data["reserves"])
  PROVE  DexStored(tx0.db, tx5.db, ~tx5.failed, data)
<1>1. Tables = {"pools", "tokens", "txs", "liqs", "reserves"} /\ Tables \subseteq SqlTable
  BY DEF Tables, SqlTable
<1>2. /\ tx5.db["pools"] = tx1.db["pools"]
      /\ tx5.db["tokens"] = tx2.db["tokens"] /\ tx1.db["tokens"] = tx0.db["tokens"]
      /\ tx5.db["txs"] = tx3.db["txs"] /\ tx2.db["txs"] = tx0.db["txs"]
      /\ tx5.db["liqs"] = tx4.db["liqs"] /\ tx3.db["liqs"] = tx0.db["liqs"]
      /\ tx4.db["reserves"] = tx0.db["reserves"]
  BY <1>1 DEF Ran
<1>3. ~tx5.failed => ~tx4.failed /\ ~tx3.failed /\ ~tx2.failed /\ ~tx1.failed
  BY DEF Ran
<1>4. ASSUME NEW a, NEW b, NEW e, NEW t \in Tables, Ran(a, b, t, data[t]),
             a.db[t] = tx0.db[t], e = b.db[t], ~tx5.failed => ~b.failed
      PROVE  /\ TableFrom(e, tx0.db[t], data[t])
             /\ DOMAIN tx0.db[t] \subseteq DOMAIN e
             /\ ~tx5.failed => Keys(data[t]) \subseteq DOMAIN e
  BY <1>4 DEF Ran
<1> DEFINE Fine(t) == /\ TableFrom(tx5.db[t], tx0.db[t], data[t])
                      /\ DOMAIN tx0.db[t] \subseteq DOMAIN tx5.db[t]
                      /\ ~tx5.failed => Keys(data[t]) \subseteq DOMAIN tx5.db[t]
<1>5. Fine("pools")
  BY <1>1, <1>2, <1>3, <1>4
<1>6. Fine("tokens")
  BY <1>1, <1>2, <1>3, <1>4
<1>7. Fine("txs")
  BY <1>1, <1>2, <1>3, <1>4
<1>8. Fine("liqs")
  BY <1>1, <1>2, <1>3, <1>4
<1>9. Fine("reserves")
  BY <1>1, <1>2, <1>3, <1>4
<1> HIDE DEF Fine
<1>10. \A t \in Tables : Fine(t)
  BY <1>1, <1>5, <1>6, <1>7, <1>8, <1>9
<1> QED
  BY <1>10 DEF DexStored, Fine

LEMMA MysqlStores ==
  ASSUME NEW d, DOMAIN d = SqlTable, NEW data, Lists(data)
  PROVE  LET w == Mysql!StoreDexData(d, data) IN DexStored(d, w.db, w.ok, data)
<1> DEFINE tx0 == Mysql!BeginTx(d)
           tx1 == Mysql!OnDuplicateKeyUpdate(tx0, "pools", data["pools"])
           tx2 == Mysql!OnDuplicateKeyUpdate(tx1, "tokens", data["tokens"])
           tx3 == Mysql!InsertIgnore(tx2, "txs", data["txs"])
           tx4 == Mysql!InsertIgnore(tx3, "liqs", data["liqs"])
           tx5 == Mysql!OnDuplicateKeyUpdate(tx4, "reserves", data["reserves"])
<1>1. Mysql!StoreDexData(d, data) = Mysql!Commit(tx5)
  BY DEF Mysql!StoreDexData, Mysql!batchUpsertPools, Mysql!batchUpsertTokens,
         Mysql!batchInsertDexTransactions, Mysql!batchInsertLiquidities,
         Mysql!batchUpsertReserves
<1>2. \A t \in {"pools", "tokens", "txs", "liqs", "reserves"} : t \in SqlTable /\ IsList(data[t])
  BY DEF Lists, SqlTable, Tables
<1>3. IsTx(tx0) /\ tx0.db = d
  BY DEF Mysql!BeginTx, IsTx
<1> HIDE DEF tx0, tx1, tx2, tx3, tx4, tx5
<1>4. Ran(tx0, tx1, "pools", data["pools"])
  BY <1>2, <1>3, MysqlRuns DEF tx1
<1>5. Ran(tx1, tx2, "tokens", data["tokens"])
  <2>1. IsTx(tx1) /\ DOMAIN tx1.db = SqlTable
    BY <1>4 DEF Ran
  <2> QED
    BY <1>2, <2>1, MysqlRuns DEF tx2
<1>6. Ran(tx2, tx3, "txs", data["txs"])
  <2>1. IsTx(tx2) /\ DOMAIN tx2.db = SqlTable
    BY <1>5 DEF Ran
  <2> QED
    BY <1>2, <2>1, MysqlRuns DEF tx3
<1>7. Ran(tx3, tx4, "liqs", data["liqs"])
  <2>1. IsTx(tx3) /\ DOMAIN tx3.db = SqlTable
    BY <1>6 DEF Ran
  <2> QED
    BY <1>2, <2>1, MysqlRuns DEF tx4
<1>8. Ran(tx4, tx5, "reserves", data["reserves"])
  <2>1. IsTx(tx4) /\ DOMAIN tx4.db = SqlTable
    BY <1>7 DEF Ran
  <2> QED
    BY <1>2, <2>1, MysqlRuns DEF tx5
<1>9. DexStored(tx0.db, tx5.db, ~tx5.failed, data)
  BY <1>4, <1>5, <1>6, <1>7, <1>8, AllRan
<1> QED
  BY <1>1, <1>3, <1>9 DEF Mysql!Commit

LEMMA PgsqlStores ==
  ASSUME NEW d, DOMAIN d = SqlTable, NEW data, Lists(data)
  PROVE  LET w == Pgsql!StoreDexData(d, data) IN DexStored(d, w.db, w.ok, data)
<1> DEFINE tx0 == Pgsql!BeginTx(d)
           tx1 == Pgsql!OnConflictDoUpdate(tx0, "pools", data["pools"])
           tx2 == Pgsql!OnConflictDoUpdate(tx1, "tokens", data["tokens"])
           tx3 == Pgsql!OnConflictDoNothing(tx2, "txs", data["txs"])
           tx4 == Pgsql!OnConflictDoNothing(tx3, "liqs", data["liqs"])
           tx5 == Pgsql!OnConflictDoUpdate(tx4, "reserves", data["reserves"])
           w == Pgsql!Committed(d, tx5)
<1>1. Pgsql!StoreDexData(d, data) = w
  BY DEF Pgsql!StoreDexData, Pgsql!batchUpsertPools, Pgsql!batchUpsertTokens,
         Pgsql!batchInsertDexTransactions, Pgsql!batchInsertLiquidities,
         Pgsql!batchUpsertReserves
<1>2. \A t \in {"pools", "tokens", "txs", "liqs", "reserves"} : t \in SqlTable /\ IsList(data[t])
  BY DEF Lists, SqlTable, Tables
<1>3. IsTx(tx0) /\ tx0.db = d
  BY DEF Pgsql!BeginTx, IsTx
<1>a. IF tx5.failed THEN w.db = d /\ ~w.ok ELSE w.db = tx5.db /\ w.ok = ~tx5.failed
  BY DEF Pgsql!Committed, Pgsql!Commit
<1> HIDE DEF tx0, tx1, tx2, tx3, tx4, tx5, w
<1>4. Ran(tx0, tx1, "pools", data["pools"])
  BY <1>2, <1>3, PgsqlRuns DEF tx1
<1>5. Ran(tx1, tx2, "tokens", data["tokens"])
  <2>1. IsTx(tx1) /\ DOMAIN tx1.db = SqlTable
    BY <1>4 DEF Ran
  <2> QED
    BY <1>2, <2>1, PgsqlRuns DEF tx2
<1>6. Ran(tx2, tx3, "txs", data["txs"])
  <2>1. IsTx(tx2) /\ DOMAIN tx2.db = SqlTable
    BY <1>5 DEF Ran
  <2> QED
    BY <1>2, <2>1, PgsqlRuns DEF tx3
<1>7. Ran(tx3, tx4, "liqs", data["liqs"])
  <2>1. IsTx(tx3) /\ DOMAIN tx3.db = SqlTable
    BY <1>6 DEF Ran
  <2> QED
    BY <1>2, <2>1, PgsqlRuns DEF tx4
<1>8. Ran(tx4, tx5, "reserves", data["reserves"])
  <2>1. IsTx(tx4) /\ DOMAIN tx4.db = SqlTable
    BY <1>7 DEF Ran
  <2> QED
    BY <1>2, <2>1, PgsqlRuns DEF tx5
<1>9. DexStored(d, tx5.db, ~tx5.failed, data)
  BY <1>3, <1>4, <1>5, <1>6, <1>7, <1>8, AllRan
<1>10. DexStored(d, d, FALSE, data)
  BY DEF DexStored, TableFrom
<1>11. DexStored(d, w.db, w.ok, data)
  BY <1>a, <1>9, <1>10 DEF DexStored
<1> QED
  BY <1>1, <1>11

LEMMA DexWriteStores ==
  ASSUME DOMAIN db = SqlTable, Lists(rows)
  PROVE  DexStored(db, DexWrite.db, DexWrite.ok, rows)
<1>1. CASE store = "mysql"
  <2>1. DexWrite = Mysql!StoreDexData(db, rows)
    BY <1>1 DEF DexWrite
  <2> QED
    BY <2>1, MysqlStores
<1>2. CASE store # "mysql"
  <2>1. DexWrite = Pgsql!StoreDexData(db, rows)
    BY <1>2 DEF DexWrite
  <2> QED
    BY <2>1, PgsqlStores
<1> QED
  BY <1>1, <1>2

\* The writes of blocks and transactions leave the extractors' tables alone.
LEMMA OthersUntouched ==
  ASSUME DOMAIN db = SqlTable
  PROVE  \A t \in Tables : BlocksWrite.db[t] = db[t] /\ RawWrite.db[t] = db[t]
<1>1. \A t \in Tables : t \in SqlTable /\ t # "blocks" /\ t # "raw"
  BY DEF Tables, SqlTable
<1>2. ASSUME NEW e, NEW s \in {"blocks", "raw"}, NEW written, Wrote(db, e, s, written)
      PROVE  \A t \in Tables : e[t] = db[t]
  BY <1>1, <1>2 DEF Wrote
<1>3. "blocks" \in SqlTable /\ "raw" \in SqlTable
  BY DEF SqlTable
<1> DEFINE bs == [i \in DOMAIN fetched |-> BlockRow(fetched[i])]
           ts == [i \in DOMAIN allTxs |-> RawRow(allTxs[i])]
<1>4. /\ Wrote(db, Mysql!StoreBlocks(db, fetched).db, "blocks", bs)
      /\ Wrote(db, Mysql!StoreTransactions(db, allTxs).db, "raw", ts)
  <2> DEFINE begun == Mysql!BeginTx(db)
             tx == Mysql!OnDuplicateKeyUpdate(begun, "blocks", bs)
             ty == Mysql!OnDuplicateKeyUpdate(begun, "raw", ts)
  <2>1. /\ Mysql!StoreBlocks(db, fetched) = Mysql!Commit(tx)
        /\ Mysql!StoreTransactions(db, allTxs) = Mysql!Commit(ty)
    BY DEF Mysql!StoreBlocks, Mysql!batchInsertBlocks, Mysql!BlockRow, BlockRow,
           Mysql!StoreTransactions, Mysql!batchInsertTransactions, Mysql!RawRow, RawRow
  <2>2. IsTx(begun) /\ begun.db = db
    BY DEF Mysql!BeginTx, IsTx
  <2>3. \A u : Mysql!Commit(u).db = u.db
    BY DEF Mysql!Commit
  <2> HIDE DEF begun, bs, ts
  <2>4. Wrote(db, tx.db, "blocks", bs) /\ Wrote(db, ty.db, "raw", ts)
    BY <2>2, MysqlStatements
  <2> QED
    BY <2>1, <2>3, <2>4
<1>5. /\ Wrote(db, Pgsql!StoreBlocks(db, fetched).db, "blocks", bs)
      /\ Wrote(db, Pgsql!StoreTransactions(db, allTxs).db, "raw", ts)
  <2> DEFINE begun == Pgsql!BeginTx(db)
             tx == Pgsql!OnConflictDoUpdate(begun, "blocks", bs)
             ty == Pgsql!OnConflictDoUpdate(begun, "raw", ts)
  <2>1. /\ Pgsql!StoreBlocks(db, fetched) = Pgsql!Committed(db, tx)
        /\ Pgsql!StoreTransactions(db, allTxs) = Pgsql!Committed(db, ty)
    BY DEF Pgsql!StoreBlocks, Pgsql!batchInsertBlocks, Pgsql!BlockRow, BlockRow,
           Pgsql!StoreTransactions, Pgsql!batchInsertTransactions, Pgsql!RawRow, RawRow
  <2>2. IsTx(begun) /\ begun.db = db
    BY DEF Pgsql!BeginTx, IsTx
  <2>3. \A u : Pgsql!Committed(db, u).db = u.db \/ Pgsql!Committed(db, u).db = db
    BY DEF Pgsql!Committed, Pgsql!Commit
  <2> HIDE DEF begun, bs, ts
  <2>4. Wrote(db, tx.db, "blocks", bs) /\ Wrote(db, ty.db, "raw", ts)
    BY <2>2, PgsqlStatements
  <2>5. Wrote(db, db, "blocks", bs) /\ Wrote(db, db, "raw", ts)
    BY DEF Wrote
  <2> QED
    BY <2>1, <2>3, <2>4, <2>5
<1> HIDE DEF bs, ts
<1>6. /\ Wrote(db, BlocksWrite.db, "blocks", bs)
      /\ Wrote(db, RawWrite.db, "raw", ts)
  BY <1>4, <1>5 DEF BlocksWrite, RawWrite
<1> QED
  BY <1>2, <1>6

-----------------------------------------------------------------------------
(* The invariant behind NothingElseStored and SavedIsStored: what is true  *)
(* of the tables is true of the rows on their way, and at every step of a  *)
(* batch all of its range that no fault has kept from being read is still  *)
(* with it.                                                                *)

Ids(blocks) == {e.id : e \in EventsOf(blocks)}

\* The events a batch has still to bring to the tables.
Due == Ids(SubSeq(TheChain, position + 1, to)) \ missed

\* What the node may refuse to give, of the blocks of the chain c.
Refusals(c) ==
  {{}} \cup {{h} : h \in UNION {{b.hash} \cup {tx.hash : tx \in ToSet(b.txs)} : b \in ToSet(Blockchain[c])}}

DueIsFetched ==
  pc # "idle" => /\ position < to
                 /\ Due \subseteq Ids(fetched)

RangeIsFetched ==
  pc = "extract" =>
    \E lost \in Refusals(chain) : fetched = GetBlocksByRange(chain, position + 1, to, lost)

RowsAreTold ==
  Lists(rows) /\ \A t \in Tables : \A r \in ToSet(rows[t]) : PairOf(r) \in Told[chain][t]

DueIsExtracted ==
  pc \in {"blocks", "raw", "dex"} =>
    \A t \in Tables : \A p \in Told[chain][t] :
      p[2] \in Due => \E r \in ToSet(rows[t]) : p = PairOf(r)

DueIsStored ==
  pc = "save" =>
    \A t \in Tables : \A p \in Told[chain][t] : p[2] \in Due => p[1] \in DOMAIN db[t]

OnlyTold(d) ==
  \A t \in Tables : \A k \in DOMAIN d[t] : <<k, d[t][k].of>> \in Told[chain][t]

SavedHasKeys(d) ==
  \A t \in Tables : \A p \in Told[chain][t] :
    p[2] \in {e.id : e \in Saved} \ gone => p[1] \in DOMAIN d[t]

StoredInv ==
  chain # "ethereum" =>
    /\ DueIsFetched /\ RangeIsFetched /\ RowsAreTold /\ DueIsExtracted /\ DueIsStored
    /\ OnlyTold(db) /\ SavedHasKeys(db)

LEMMA OnOthers ==
  ASSUME IngestInv, chain # "ethereum"
  PROVE  chain \in DOMAIN Blockchain /\ chain \in Others
BY Typed DEF Others

\* What is written of rows that are told is told, and no key is lost by it.
LEMMA DexKeeps ==
  ASSUME NEW d, NEW e, NEW done, DexStored(d, e, done, rows), RowsAreTold,
         OnlyTold(d), SavedHasKeys(d)
  PROVE  OnlyTold(e) /\ SavedHasKeys(e)
<1>1. ASSUME NEW t \in Tables, NEW k \in DOMAIN e[t] PROVE <<k, e[t][k].of>> \in Told[chain][t]
  <2>1. CASE k \in DOMAIN d[t] /\ e[t][k] = d[t][k]
    BY <2>1 DEF OnlyTold
  <2>2. ASSUME NEW r \in ToSet(rows[t]), r.key = k, e[t][k] = r
        PROVE  <<k, e[t][k].of>> \in Told[chain][t]
    BY <2>2 DEF RowsAreTold, PairOf
  <2>3. TableFrom(e[t], d[t], rows[t])
    BY DEF DexStored
  <2> QED
    BY <2>1, <2>2, <2>3 DEF TableFrom
<1>2. SavedHasKeys(e)
  BY DEF SavedHasKeys, DexStored
<1> QED
  BY <1>1, <1>2 DEF OnlyTold

\* A write into other tables changes nothing of all this.
LEMMA SameTables ==
  ASSUME NEW d, NEW e, \A t \in Tables : e[t] = d[t]
  PROVE  /\ OnlyTold(d) => OnlyTold(e)
         /\ SavedHasKeys(d) => SavedHasKeys(e)
BY DEF OnlyTold, SavedHasKeys

\* What the three writes leave in the tables, whether they succeed or not.
LEMMA WritesKeepTold ==
  ASSUME IngestInv, StoredInv, chain # "ethereum"
  PROVE  /\ OnlyTold(BlocksWrite.db) /\ SavedHasKeys(BlocksWrite.db)
         /\ OnlyTold(RawWrite.db) /\ SavedHasKeys(RawWrite.db)
         /\ OnlyTold(DexWrite.db) /\ SavedHasKeys(DexWrite.db)
<1>1. DOMAIN db = SqlTable /\ Lists(rows) /\ RowsAreTold /\ OnlyTold(db) /\ SavedHasKeys(db)
  BY DEF IngestInv, DbOf, StoredInv, RowsAreTold
<1>2. OnlyTold(DexWrite.db) /\ SavedHasKeys(DexWrite.db)
  BY <1>1, DexWriteStores, DexKeeps
<1> QED
  BY <1>1, <1>2, OthersUntouched, SameTables

LEMMA TablesStay ==
  ASSUME UNCHANGED <<chain, position, gone>>
  PROVE  /\ OnlyTold(db') => OnlyTold(db)'
         /\ SavedHasKeys(db') => SavedHasKeys(db)'
BY DEF OnlyTold, SavedHasKeys, Saved, TheChain

\* A batch that ends, in whichever way.
LEMMA RestStored ==
  ASSUME AtRest, UNCHANGED chain,
         chain # "ethereum" => OnlyTold(db)' /\ SavedHasKeys(db)'
  PROVE  StoredInv'
<1> SUFFICES ASSUME chain # "ethereum" PROVE StoredInv'
  BY DEF StoredInv
<1>1. pc' = "idle" /\ rows' = NoRows
  BY DEF AtRest
<1>2. RowsAreTold'
  BY <1>1, NoRowsLists DEF RowsAreTold
<1>3. DueIsFetched' /\ RangeIsFetched' /\ DueIsExtracted' /\ DueIsStored'
  BY <1>1 DEF DueIsFetched, RangeIsFetched, DueIsExtracted, DueIsStored
<1> QED
  BY <1>2, <1>3 DEF StoredInv

LEMMA NothingSaved ==
  ASSUME Init
  PROVE  Saved = {}
<1>0. position = 0
  BY DEF Init
<1> DEFINE blocks == TheChain
           none == SubSeq(blocks, 1, 0)
<1>1. blocks \in Seq(ToSet(blocks))
  <2>1. chain \in DOMAIN Blockchain
    BY SetupsAssumption DEF Init
  <2> QED
    BY <2>1, ChainsTyped DEF ChainOf, TheChain, IsList
<1> HIDE DEF blocks
<1>2. none \in Seq(ToSet(blocks)) /\ Len(none) = 0
  BY <1>1, SubSeqProperties
<1> HIDE DEF none
<1>3. none = <<>>
  BY <1>2, EmptySeq
<1>4. Saved = EventsOf(none)
  BY <1>0 DEF Saved, none, blocks
<1> QED
  BY <1>3, <1>4, NoEvents

LEMMA InitStored ==
  ASSUME Init
  PROVE  StoredInv
<1>1. pc = "idle" /\ rows = NoRows /\ position = 0
  BY DEF Init
<1>2. RowsAreTold
  BY <1>1, NoRowsLists DEF RowsAreTold
<1>3. DueIsFetched /\ RangeIsFetched /\ DueIsExtracted /\ DueIsStored
  BY <1>1 DEF DueIsFetched, RangeIsFetched, DueIsExtracted, DueIsStored
<1>4. OnlyTold(db)
  <2>1. \A t \in Tables : db[t] = <<>>
    BY DEF Init, Mysql!EmptyDatabase, Mysql!SqlTable, Mysql!Tables, Tables
  <2>2. DOMAIN <<>> = {}
    OBVIOUS
  <2> QED
    BY <2>1, <2>2 DEF OnlyTold
<1>5. Saved = {}
  BY NothingSaved
<1>6. SavedHasKeys(db)
  BY <1>5 DEF SavedHasKeys
<1> QED
  BY <1>2, <1>3, <1>4, <1>6 DEF StoredInv

LEMMA FetchStored ==
  ASSUME IngestInv, StoredInv, Fetch
  PROVE  StoredInv'
<1> SUFFICES ASSUME chain # "ethereum" PROVE StoredInv'
  BY DEF StoredInv, Fetch, setup
<1>1. /\ pc = "idle" /\ position + 1 < End /\ to' = End /\ pc' = "extract"
      /\ UNCHANGED <<chain, position, rows, db, gone>>
  BY DEF Fetch, Start, setup
<1>2. End \in Nat /\ position \in Nat /\ End <= Len(TheChain) /\ Len(TheChain) \in Nat
  BY <1>1, Typed, BatchSizeAssumption DEF End, Start
<1>3. PICK lost \in Unanswered(Start, End) :
        /\ fetched' = GetBlocksByRange(chain, Start, End, lost)
        /\ missed' = Ids(SubSeq(TheChain, Start, End))
                       \ Ids(GetBlocksByRange(chain, Start, End, lost))
  BY Zenon DEF Fetch, Ids
<1>4. TheChain' = TheChain
  BY <1>1 DEF TheChain
<1>5. Due' \subseteq Ids(fetched)'
  <2>1. Due' = Ids(SubSeq(TheChain, Start, End)) \ missed'
    BY <1>1, <1>4 DEF Due, Start, Ids
  <2>2. Ids(fetched)' = Ids(GetBlocksByRange(chain, Start, End, lost))
    BY <1>3 DEF Ids
  <2> QED
    BY <1>3, <2>1, <2>2
<1>6. position' < to'
  BY <1>1, <1>2
<1>7. lost \in Refusals(chain)
  <2> DEFINE hashes(bs) == UNION {{b.hash} \cup {tx.hash : tx \in ToSet(b.txs)} : b \in ToSet(bs)}
  <2>1. lost = {} \/ lost \in {{h} : h \in hashes(SubSeq(TheChain, Start, End))}
    BY <1>3 DEF Unanswered
  <2>2. ToSet(SubSeq(TheChain, Start, End)) \subseteq ToSet(TheChain)
    BY <1>2, Typed, RangeOnChain DEF TheChain, Start
  <2>3. hashes(SubSeq(TheChain, Start, End)) \subseteq hashes(TheChain)
    BY <2>2
  <2>4. Refusals(chain) = {{}} \cup {{h} : h \in hashes(TheChain)}
    BY DEF Refusals, TheChain
  <2> HIDE DEF hashes
  <2> QED
    BY <2>1, <2>3, <2>4
<1>8. RangeIsFetched'
  <2>1. fetched' = GetBlocksByRange(chain', position' + 1, to', lost) /\ lost \in Refusals(chain')
    BY <1>1, <1>3, <1>7 DEF Start
  <2> QED
    BY <2>1 DEF RangeIsFetched
<1>9. DueIsExtracted' /\ DueIsStored' /\ DueIsFetched'
  BY <1>1, <1>5, <1>6 DEF DueIsExtracted, DueIsStored, DueIsFetched
<1>10. RowsAreTold' /\ OnlyTold(db)' /\ SavedHasKeys(db)'
  BY <1>1, <1>4 DEF StoredInv, RowsAreTold, OnlyTold, SavedHasKeys, Saved
<1> QED
  BY <1>8, <1>9, <1>10 DEF StoredInv

LEMMA ExtractStored ==
  ASSUME IngestInv, StoredInv, Extract
  PROVE  StoredInv'
<1> SUFFICES ASSUME chain # "ethereum" PROVE StoredInv'
  BY DEF StoredInv, Extract, setup
<1>1. /\ pc = "extract" /\ pc' = "blocks"
      /\ UNCHANGED <<chain, position, fetched, to, db, gone>>
  BY DEF Extract, setup
<1>2. PICK unread \in Unread : /\ rows' = Extracted(chain, fetched, memory, unread)
                               /\ missed' = missed \cup unread
  BY DEF Extract
<1>3. PICK lost \in Refusals(chain) : fetched = GetBlocksByRange(chain, position + 1, to, lost)
  BY <1>1 DEF StoredInv, RangeIsFetched
<1>4. /\ chain \in DOMAIN Blockchain /\ chain \in Others
      /\ position + 1 \in Nat \ {0} /\ to \in Nat /\ to <= Len(Blockchain[chain])
  <2>1. to \in 0..head
    BY DEF IngestInv, TypeOK
  <2>2. TheChain = Blockchain[chain]
    BY DEF TheChain
  <2> QED
    BY <2>1, <2>2, Typed, OnOthers
<1>5. position < to /\ Due \subseteq Ids(fetched)
  BY <1>1 DEF StoredInv, DueIsFetched
<1>6. Due' = Due \ unread
  BY <1>1, <1>2 DEF Due, TheChain, Ids
<1>7. Ids(fetched)' = Ids(fetched)
  BY <1>1 DEF Ids
<1>8. RowsAreTold'
  <2>1. PICK S : BlocksOf(fetched, S)
    BY <1>3, <1>4, BlocksFetched
  <2>2. Lists(rows')
    BY <1>2, <1>4, <2>1, ExtractedAll
  <2>3. ASSUME NEW t \in Tables, NEW r \in ToSet(rows'[t]) PROVE PairOf(r) \in Told[chain][t]
    BY <1>2, <1>3, <1>4, ExtractedIsTold
  <2> QED
    BY <1>1, <2>2, <2>3 DEF RowsAreTold
<1>9. DueIsExtracted'
  <2>1. ASSUME NEW t \in Tables, NEW p \in Told[chain][t], p[2] \in Due \ unread
        PROVE  \E r \in ToSet(rows'[t]) : p = PairOf(r)
    <3>1. PICK e \in EventsOf(fetched) : p[2] = e.id
      BY <1>5, <2>1 DEF Ids
    <3> DEFINE from == position + 1
    <3>2. /\ fetched = GetBlocksByRange(chain, from, to, lost) /\ from \in Nat \ {0}
          /\ e \in EventsOf(GetBlocksByRange(chain, from, to, lost))
          /\ chain = "sui" => p[2] \notin unread
      BY <1>3, <1>4, <2>1
    <3> HIDE DEF from
    <3>3. \E r \in ToSet(Extracted(chain, GetBlocksByRange(chain, from, to, lost), memory, unread)[t]) :
            p = PairOf(r)
      BY <1>4, <3>1, <3>2, ToldIsExtracted
    <3> QED
      BY <1>2, <3>2, <3>3
  <2> QED
    BY <1>1, <1>6, <2>1 DEF DueIsExtracted
<1>10. DueIsStored' /\ RangeIsFetched' /\ DueIsFetched'
  BY <1>1, <1>5, <1>6, <1>7 DEF DueIsStored, RangeIsFetched, DueIsFetched
<1>11. OnlyTold(db)' /\ SavedHasKeys(db)'
  BY <1>1 DEF StoredInv, OnlyTold, SavedHasKeys, Saved, TheChain
<1> QED
  BY <1>8, <1>9, <1>10, <1>11 DEF StoredInv

\* The writes of blocks and of transactions.
LEMMA WrittenStored ==
  ASSUME IngestInv, StoredInv, NEW write, NEW next,
         \/ pc = "blocks" /\ next = "raw"
         \/ pc = "raw" /\ next = "dex",
         Written(write, next), \A t \in Tables : write.db[t] = db[t]
  PROVE  StoredInv'
<1> SUFFICES ASSUME chain # "ethereum" PROVE StoredInv'
  BY DEF StoredInv, Written, setup
<1>1. /\ pc' = next /\ \A t \in Tables : db'[t] = db[t]
      /\ UNCHANGED <<chain, position, fetched, to, rows, missed, gone>>
  BY DEF Written, setup, batchVars
<1>2. Due' = Due /\ Ids(fetched)' = Ids(fetched)
  BY <1>1 DEF Due, TheChain, Ids
<1>3. DueIsFetched' /\ RangeIsFetched' /\ DueIsStored'
  BY <1>1, <1>2 DEF StoredInv, DueIsFetched, RangeIsFetched, DueIsStored
<1>4. RowsAreTold' /\ DueIsExtracted'
  BY <1>1, <1>2 DEF StoredInv, RowsAreTold, DueIsExtracted
<1>5. OnlyTold(db)' /\ SavedHasKeys(db)'
  BY <1>1, SameTables, TablesStay DEF StoredInv
<1> QED
  BY <1>3, <1>4, <1>5 DEF StoredInv

LEMMA DexStoredRight ==
  ASSUME IngestInv, StoredInv, StoreDexData
  PROVE  StoredInv'
<1> SUFFICES ASSUME chain # "ethereum" PROVE StoredInv'
  BY DEF StoredInv, StoreDexData, Written, setup
<1>1. /\ pc = "dex" /\ pc' = "save" /\ DexWrite.ok /\ db' = DexWrite.db
      /\ UNCHANGED <<chain, position, fetched, to, rows, missed, gone>>
  BY DEF StoreDexData, Written, setup, batchVars
<1>2. Due' = Due /\ Ids(fetched)' = Ids(fetched)
  BY <1>1 DEF Due, TheChain, Ids
<1>3. DueIsFetched' /\ RangeIsFetched' /\ DueIsExtracted' /\ RowsAreTold'
  BY <1>1, <1>2 DEF StoredInv, DueIsFetched, RangeIsFetched, DueIsExtracted, RowsAreTold
<1>4. DexStored(db, db', TRUE, rows)
  <2>1. DOMAIN db = SqlTable /\ Lists(rows)
    BY DEF IngestInv, DbOf, StoredInv, RowsAreTold
  <2>2. DexStored(db, DexWrite.db, DexWrite.ok, rows)
    BY <2>1, DexWriteStores
  <2> QED
    BY <1>1, <2>2 DEF DexStored
<1>5. DueIsStored'
  <2>1. ASSUME NEW t \in Tables, NEW p \in Told[chain][t], p[2] \in Due PROVE p[1] \in DOMAIN db'[t]
    <3>1. PICK r \in ToSet(rows[t]) : p = PairOf(r)
      BY <1>1, <2>1 DEF StoredInv, DueIsExtracted
    <3>2. r.key \in Keys(rows[t])
      BY DEF Keys, ToSet
    <3>3. p[1] = r.key
      BY <3>1 DEF PairOf
    <3> QED
      BY <1>4, <3>2, <3>3 DEF DexStored
  <2> QED
    BY <1>1, <1>2, <2>1 DEF DueIsStored
<1>6. OnlyTold(db)' /\ SavedHasKeys(db)'
  BY <1>1, WritesKeepTold, TablesStay
<1> QED
  BY <1>3, <1>5, <1>6 DEF StoredInv

LEMMA WriteFailsStored ==
  ASSUME StoredInv, NEW write, chain # "ethereum" => OnlyTold(write.db) /\ SavedHasKeys(write.db),
         WriteFails(write)
  PROVE  StoredInv'
<1>1. AtRest /\ UNCHANGED <<chain, position, gone>> /\ (db' = db \/ db' = write.db)
  BY DEF WriteFails, GiveUp, setup
<1>2. chain # "ethereum" => OnlyTold(db') /\ SavedHasKeys(db')
  BY <1>1 DEF StoredInv
<1> QED
  BY <1>1, <1>2, TablesStay, RestStored

\* A save that fails, and a crash.
LEMMA GivenUpStored ==
  ASSUME StoredInv, AtRest, UNCHANGED <<chain, position, gone, db>>
  PROVE  StoredInv'
<1>1. chain # "ethereum" => OnlyTold(db') /\ SavedHasKeys(db')
  BY DEF StoredInv
<1> QED
  BY <1>1, TablesStay, RestStored

\* The events of the chain up to the end of a batch.
LEMMA SavedGrows ==
  ASSUME NEW S, NEW s \in Seq(S), NEW m \in Nat, NEW n \in Nat, m <= n, n <= Len(s)
  PROVE  Ids(SubSeq(s, 1, n)) \subseteq Ids(SubSeq(s, 1, m)) \cup Ids(SubSeq(s, m + 1, n))
<1>0. Len(s) \in Nat /\ IsList(s)
  BY SeqIsList, LenProperties
<1>1. ASSUME NEW a \in Nat \ {0}, NEW z \in Nat, z <= Len(s)
      PROVE  /\ DOMAIN SubSeq(s, a, z) = 1..(IF a <= z THEN z - a + 1 ELSE 0)
             /\ \A i \in 1..(z - a + 1) : SubSeq(s, a, z)[i] = s[a + i - 1]
  <2>1. \A i \in a..z : s[i] \in S
    BY <1>0, ElementOfSeq, <1>1
  <2>2. /\ SubSeq(s, a, z) \in Seq(S)
        /\ Len(SubSeq(s, a, z)) = IF a <= z THEN z - a + 1 ELSE 0
        /\ \A i \in 1..(z - a + 1) : SubSeq(s, a, z)[i] = s[a + i - 1]
    BY <2>1, <1>1, SubSeqProperties
  <2> QED
    BY <2>2, LenProperties
<1>2. ASSUME NEW b \in ToSet(SubSeq(s, 1, n))
      PROVE  b \in ToSet(SubSeq(s, 1, m)) \/ b \in ToSet(SubSeq(s, m + 1, n))
  <2>1. PICK i \in DOMAIN SubSeq(s, 1, n) : b = SubSeq(s, 1, n)[i]
    BY DEF ToSet
  <2>2. i \in 1..n /\ b = s[i]
    BY <1>0, <1>1, <2>1
  <2>3. CASE i <= m
    <3>1. m <= Len(s) /\ i \in 1..m
      BY <1>0, <2>2, <2>3
    <3>2. i \in DOMAIN SubSeq(s, 1, m) /\ SubSeq(s, 1, m)[i] = s[i]
      BY <1>0, <1>1, <3>1
    <3> QED
      BY <2>2, <3>2 DEF ToSet
  <2>4. CASE i > m
    <3>1. /\ m + 1 \in Nat \ {0} /\ i - m \in 1..(n - (m + 1) + 1) /\ m + 1 <= n
          /\ (m + 1) + (i - m) - 1 = i
      BY <2>2, <2>4
    <3>2. i - m \in DOMAIN SubSeq(s, m + 1, n) /\ SubSeq(s, m + 1, n)[i - m] = s[i]
      BY <1>1, <3>1
    <3> QED
      BY <2>2, <3>2 DEF ToSet
  <2> QED
    BY <2>2, <2>3, <2>4
<1> QED
  BY <1>2 DEF Ids, EventsOf

LEMMA SaveProgressStored ==
  ASSUME IngestInv, StoredInv, SaveProgress
  PROVE  StoredInv'
<1>1. /\ pc = "save" /\ position' = to /\ gone' = gone \cup missed /\ AtRest
      /\ UNCHANGED <<chain, db>>
  BY DEF SaveProgress, setup
<1>2. ASSUME chain # "ethereum" PROVE OnlyTold(db)' /\ SavedHasKeys(db)'
  <2>1. OnlyTold(db)'
    BY <1>1, <1>2 DEF StoredInv, OnlyTold
  <2>2. position < to /\ position \in Nat /\ to \in Nat /\ to <= Len(TheChain)
    BY <1>1, <1>2, Typed DEF StoredInv, DueIsFetched, IngestInv, TypeOK
  <2>3. TheChain \in Seq(ToSet(TheChain))
    BY Typed, ChainsTyped DEF ChainOf, TheChain, IsList
  <2>4. Ids(SubSeq(TheChain, 1, to))
          \subseteq Ids(SubSeq(TheChain, 1, position)) \cup Ids(SubSeq(TheChain, position + 1, to))
    BY <2>2, <2>3, SavedGrows
  <2>5. {e.id : e \in Saved} = Ids(SubSeq(TheChain, 1, position))
        /\ {e.id : e \in Saved}' = Ids(SubSeq(TheChain, 1, to))
    BY <1>1 DEF Saved, Ids, TheChain
  <2>6. ASSUME NEW t \in Tables, NEW p \in Told[chain][t],
               p[2] \in Ids(SubSeq(TheChain, 1, to)) \ gone'
        PROVE  p[1] \in DOMAIN db[t]
    <3>1. CASE p[2] \in Ids(SubSeq(TheChain, 1, position))
      <4>1. p[2] \in {e.id : e \in Saved} \ gone
        BY <1>1, <2>5, <2>6, <3>1
      <4> QED
        BY <1>2, <4>1 DEF StoredInv, SavedHasKeys
    <3>2. CASE p[2] \in Ids(SubSeq(TheChain, position + 1, to))
      <4>1. p[2] \in Due
        BY <1>1, <2>6, <3>2 DEF Due
      <4> QED
        BY <1>1, <1>2, <4>1 DEF StoredInv, DueIsStored
    <3> QED
      BY <2>4, <2>6, <3>1, <3>2
  <2>7. SavedHasKeys(db)'
    BY <1>1, <2>5, <2>6 DEF SavedHasKeys
  <2> QED
    BY <2>1, <2>7
<1> QED
  BY <1>1, <1>2, RestStored

\* Nothing of this is touched by a new block or by what Uniswap remembers.
LEMMA ElsewhereStored ==
  ASSUME StoredInv, UNCHANGED <<chain, position, pc, fetched, to, rows, missed, db, gone>>
  PROVE  StoredInv'
<1> SUFFICES ASSUME chain # "ethereum" PROVE StoredInv'
  BY DEF StoredInv
<1>1. Due' = Due /\ Ids(fetched)' = Ids(fetched)
  BY DEF Due, TheChain, Ids
<1>2. DueIsFetched' /\ RangeIsFetched' /\ DueIsStored'
  BY <1>1 DEF StoredInv, DueIsFetched, RangeIsFetched, DueIsStored
<1>3. RowsAreTold' /\ DueIsExtracted'
  BY <1>1 DEF StoredInv, RowsAreTold, DueIsExtracted
<1>4. OnlyTold(db)' /\ SavedHasKeys(db)'
  BY TablesStay DEF StoredInv
<1> QED
  BY <1>2, <1>3, <1>4 DEF StoredInv

\* The invariant holds throughout: rows on their way and rows in the tables are the
\* ones the pass over the chain makes, and a batch keeps hold of what it has to
\* bring to the tables until its progress is saved (engine.go:193-343).
THEOREM RowsStayTold == Spec => []StoredInv
<1>1. Init => StoredInv
  BY InitStored
<1>2. IngestInv /\ StoredInv /\ [Next]_vars => StoredInv'
  <2> SUFFICES ASSUME IngestInv, StoredInv, [Next]_vars PROVE StoredInv'
    OBVIOUS
  <2>1. CASE Fetch
    BY <2>1, FetchStored
  <2>2. CASE NothingToDo \/ vars' = vars \/ NewBlock \/ PoolLearnt
    <3>1. UNCHANGED <<chain, position, pc, fetched, to, rows, missed, db, gone>>
      BY <2>2 DEF NothingToDo, NewBlock, PoolLearnt, vars, setup, batchVars
    <3> QED
      BY <3>1, ElsewhereStored
  <2>3. CASE Extract
    BY <2>3, ExtractStored
  <2>4. CASE StoreBlocks \/ StoreTransactions
    <3>1. \A t \in Tables : BlocksWrite.db[t] = db[t] /\ RawWrite.db[t] = db[t]
      BY OthersUntouched DEF IngestInv, DbOf
    <3> QED
      BY <2>4, <3>1, WrittenStored DEF StoreBlocks, StoreTransactions
  <2>5. CASE StoreDexData
    BY <2>5, DexStoredRight
  <2>6. CASE SaveProgress
    BY <2>6, SaveProgressStored
  <2>7. CASE StoreBlocksFails \/ StoreTransactionsFails \/ StoreDexDataFails
    BY <2>7, WritesKeepTold, WriteFailsStored
       DEF StoreBlocksFails, StoreTransactionsFails, StoreDexDataFails
  <2>8. CASE SaveProgressFails \/ CrashAndRestart
    <3>1. AtRest /\ UNCHANGED <<chain, position, gone, db>>
      BY <2>8 DEF SaveProgressFails, CrashAndRestart, GiveUp, setup
    <3> QED
      BY <3>1, GivenUpStored
  <2> QED
    BY <2>1, <2>2, <2>3, <2>4, <2>5, <2>6, <2>7, <2>8 DEF Next, BatchStep, FailedStep
<1> QED
  BY <1>1, <1>2, BatchesStayRight, PTL DEF Spec

\* Nothing else is ever stored: however the range of a batch was cut, whatever was
\* refused on the way, and however often a half stored batch was run again, a row
\* of a DEX table is one that the pass makes (docs/database-design.md:20).
THEOREM OnlyToldIsStored == Spec => []NothingElseStored
<1>1. StoredInv => NothingElseStored
  BY DEF StoredInv, OnlyTold, NothingElseStored
<1> QED
  BY <1>1, RowsStayTold, PTL

\* What the saved position covers and no fault kept from being read is in the
\* tables: progress is saved only after the writes (engine.go:311-343), and no
\* later write takes a row away or puts it under another event.
THEOREM SavedStaysStored == Spec => []SavedIsStored
<1>1. IngestInv /\ StoredInv => SavedIsStored
  <2> SUFFICES ASSUME IngestInv, StoredInv, chain # "ethereum", NEW t \in Tables,
                      NEW p \in Told[chain][t], p[2] \in {e.id : e \in Saved} \ gone
               PROVE  /\ p[1] \in DOMAIN db[t]
                      /\ t \in {"txs", "liqs"} => db[t][p[1]].of = p[2]
    BY DEF SavedIsStored
  <2>1. p[1] \in DOMAIN db[t]
    BY DEF StoredInv, SavedHasKeys
  <2>2. ASSUME t \in {"txs", "liqs"} PROVE db[t][p[1]].of = p[2]
    <3> DEFINE q == <<p[1], db[t][p[1]].of>>
    <3>1. q \in Told[chain][t] /\ q[1] = p[1] /\ q[2] = db[t][p[1]].of
      BY <2>1 DEF StoredInv, OnlyTold
    <3> HIDE DEF q
    <3> QED
      BY <2>2, <3>1, OnOthers, ToldOnce
  <2> QED
    BY <2>1, <2>2
<1> QED
  BY <1>1, BatchesStayRight, RowsStayTold, PTL

-----------------------------------------------------------------------------
(* How many rows an event has in the tables, from how many the pass over   *)
(* its chain makes of it.                                                  *)

LEMMA FetchedOnChain ==
  ASSUME NEW c \in DOMAIN Blockchain, c \in Others, NEW from \in Nat \ {0}, NEW end \in Nat,
         end <= Len(Blockchain[c]), NEW lost,
         NEW e \in EventsOf(GetBlocksByRange(c, from, end, lost))
  PROVE  e \in EventsOf(Blockchain[c]) /\ e \in EventsOf(Pass(c))
<1> DEFINE fs == GetBlocksByRange(c, from, end, lost)
           asked == SubSeq(Blockchain[c], from, end)
           all == lost = {}
<1>1. PICK f \in ToSet(fs) : \E u \in ToSet(f.txs) : e \in ToSet(u.events)
  BY DEF EventsOf
<1>2. PICK u \in ToSet(f.txs) : e \in ToSet(u.events)
  BY <1>1
<1>3. RangeReads(fs, c, asked, all)
  BY GetReads
<1>4. ToSet(asked) \subseteq ToSet(Blockchain[c])
  BY RangeOnChain
<1> HIDE DEF fs, asked, all
<1>5. PICK b \in ToSet(asked) : \E tx \in ToSet(b.txs) : Readable(c, b, tx) /\ Conveys(u, c, b, tx)
  BY <1>3 DEF RangeReads
<1>6. PICK tx \in ToSet(b.txs) : Readable(c, b, tx) /\ Conveys(u, c, b, tx)
  BY <1>5
<1>7. b \in ToSet(Blockchain[c]) /\ e \in ToSet(tx.events)
  BY <1>2, <1>4, <1>6 DEF Conveys
<1>8. PICK g \in ToSet(Pass(c)) : \E v \in ToSet(g.txs) : Conveys(v, c, b, tx)
  BY <1>6, <1>7, PassReads
<1>9. PICK v \in ToSet(g.txs) : Conveys(v, c, b, tx)
  BY <1>8
<1>10. e \in ToSet(v.events)
  BY <1>7, <1>9 DEF Conveys
<1> QED
  BY <1>7, <1>9, <1>10 DEF EventsOf

LEMMA PassOnChain ==
  ASSUME NEW c \in DOMAIN Blockchain, c \in Others
  PROVE  EventsOf(Pass(c)) \subseteq EventsOf(Blockchain[c])
<1> DEFINE n == Len(Blockchain[c])
<1>1. n \in Nat /\ 1 \in Nat \ {0} /\ n <= n
  BY ChainsTyped, ListTyped DEF ChainOf
<1> QED
  BY <1>1, FetchedOnChain DEF Pass

\* An event of the chain is known by its id.
LEMMA OneOfItsId ==
  ASSUME NEW c \in DOMAIN Blockchain, NEW e1 \in EventsOf(Blockchain[c]),
         NEW e2 \in EventsOf(Blockchain[c]), e1.id = e2.id
  PROVE  e1 = e2
<1>1. PICK b1 \in ToSet(Blockchain[c]) : \E tx \in ToSet(b1.txs) : e1 \in ToSet(tx.events)
  BY DEF EventsOf
<1>2. PICK tx1 \in ToSet(b1.txs) : e1 \in ToSet(tx1.events)
  BY <1>1
<1>3. PICK b2 \in ToSet(Blockchain[c]) : \E tx \in ToSet(b2.txs) : e2 \in ToSet(tx.events)
  BY DEF EventsOf
<1>4. PICK tx2 \in ToSet(b2.txs) : e2 \in ToSet(tx2.events)
  BY <1>3
<1> QED
  BY <1>2, <1>4, HashesAssumption

\* What was read of the chain is what the pass reads of it, wherever the ranges
\* were cut.
ReadInv ==
  chain # "ethereum" =>
    /\ Ids(fetched) \subseteq Ids(Pass(chain))
    /\ {e.id : e \in Saved} \ gone \subseteq Ids(Pass(chain))

LEMMA NothingIsRead == Ids(<<>>) = {}
BY NoEvents DEF Ids

LEMMA RestRead ==
  ASSUME ReadInv, AtRest, UNCHANGED <<chain, position, gone>>
  PROVE  ReadInv'
<1> SUFFICES ASSUME chain # "ethereum" PROVE ReadInv'
  BY DEF ReadInv
<1>1. fetched' = <<>>
  BY DEF AtRest
<1>2. Ids(fetched)' = {}
  BY <1>1, NothingIsRead DEF Ids
<1>3. ({e.id : e \in Saved} \ gone)' = {e.id : e \in Saved} \ gone /\ Ids(Pass(chain))' = Ids(Pass(chain))
  BY DEF Saved, TheChain, Ids, Pass
<1> QED
  BY <1>2, <1>3 DEF ReadInv

LEMMA FetchReads ==
  ASSUME IngestInv, ReadInv, Fetch
  PROVE  ReadInv'
<1> SUFFICES ASSUME chain # "ethereum" PROVE ReadInv'
  BY DEF ReadInv, Fetch, setup
<1>1. /\ pc = "idle" /\ position + 1 < End
      /\ UNCHANGED <<chain, position, gone>>
  BY DEF Fetch, Start, setup
<1>2. /\ End \in Nat /\ Start \in Nat \ {0} /\ End <= Len(Blockchain[chain])
      /\ chain \in DOMAIN Blockchain /\ chain \in Others
  BY <1>1, Typed, OnOthers, BatchSizeAssumption DEF End, Start, TheChain
<1>3. PICK lost : fetched' = GetBlocksByRange(chain, Start, End, lost)
  BY Zenon DEF Fetch
<1>4. EventsOf(fetched') \subseteq EventsOf(Pass(chain))
  BY <1>2, <1>3, FetchedOnChain
<1>5. Ids(fetched)' \subseteq Ids(Pass(chain))
  BY <1>4 DEF Ids
<1>6. ({e.id : e \in Saved} \ gone)' = {e.id : e \in Saved} \ gone /\ Ids(Pass(chain))' = Ids(Pass(chain))
  BY <1>1 DEF Saved, TheChain, Ids, Pass
<1> QED
  BY <1>5, <1>6 DEF ReadInv

LEMMA SaveProgressRead ==
  ASSUME IngestInv, StoredInv, ReadInv, SaveProgress
  PROVE  ReadInv'
<1> SUFFICES ASSUME chain # "ethereum" PROVE ReadInv'
  BY DEF ReadInv, SaveProgress, setup
<1>1. /\ pc = "save" /\ position' = to /\ gone' = gone \cup missed /\ fetched' = <<>>
      /\ UNCHANGED chain
  BY DEF SaveProgress, setup, AtRest
<1>2. position < to /\ position \in Nat /\ to \in Nat /\ to <= Len(TheChain)
      /\ Due \subseteq Ids(fetched)
  BY <1>1, Typed DEF StoredInv, DueIsFetched, IngestInv, TypeOK
<1>3. TheChain \in Seq(ToSet(TheChain))
  BY Typed, ChainsTyped DEF ChainOf, TheChain, IsList
<1>4. Ids(SubSeq(TheChain, 1, to))
        \subseteq Ids(SubSeq(TheChain, 1, position)) \cup Ids(SubSeq(TheChain, position + 1, to))
  BY <1>2, <1>3, SavedGrows
<1>5. {e.id : e \in Saved} = Ids(SubSeq(TheChain, 1, position))
      /\ {e.id : e \in Saved}' = Ids(SubSeq(TheChain, 1, to))
  BY <1>1 DEF Saved, Ids, TheChain
<1>6. ({e.id : e \in Saved} \ gone)' \subseteq ({e.id : e \in Saved} \ gone) \cup Due
  BY <1>1, <1>4, <1>5 DEF Due
<1>7. ({e.id : e \in Saved} \ gone)' \subseteq Ids(Pass(chain))
  BY <1>2, <1>6 DEF ReadInv
<1>8. Ids(fetched)' = {} /\ Ids(Pass(chain))' = Ids(Pass(chain))
  BY <1>1, NothingIsRead DEF Ids, Pass
<1> QED
  BY <1>7, <1>8 DEF ReadInv

LEMMA ElsewhereRead ==
  ASSUME ReadInv, UNCHANGED <<chain, position, fetched, gone>>
  PROVE  ReadInv'
<1>1. Ids(fetched)' = Ids(fetched) /\ Ids(Pass(chain))' = Ids(Pass(chain))
      /\ ({e.id : e \in Saved} \ gone)' = {e.id : e \in Saved} \ gone
  BY DEF Saved, TheChain, Ids, Pass
<1> QED
  BY <1>1 DEF ReadInv

\* What any range reads of the chain the pass reads too, since a processor leaves
\* out a transaction for what it is and not for where it stands in a range
\* (GetBlocksByRange of the four processors).
THEOREM PassReadsAll == Spec => []ReadInv
<1>1. Init => ReadInv
  <2> SUFFICES ASSUME Init, chain # "ethereum" PROVE ReadInv
    BY DEF ReadInv
  <2>1. fetched = <<>> /\ position = 0
    BY DEF Init
  <2>2. Ids(fetched) = {}
    BY <2>1, NothingIsRead
  <2>3. Saved = {}
    BY NothingSaved
  <2> QED
    BY <2>2, <2>3 DEF ReadInv
<1>2. IngestInv /\ StoredInv /\ ReadInv /\ [Next]_vars => ReadInv'
  <2> SUFFICES ASSUME IngestInv, StoredInv, ReadInv, [Next]_vars PROVE ReadInv'
    OBVIOUS
  <2>1. CASE Fetch
    BY <2>1, FetchReads
  <2>2. CASE SaveProgress
    BY <2>2, SaveProgressRead
  <2>3. CASE NothingToDo \/ vars' = vars \/ NewBlock \/ PoolLearnt
    <3>1. UNCHANGED <<chain, position, fetched, gone>>
      BY <2>3 DEF NothingToDo, NewBlock, PoolLearnt, vars, setup, batchVars
    <3> QED
      BY <3>1, ElsewhereRead
  <2>4. CASE Extract \/ StoreBlocks \/ StoreTransactions \/ StoreDexData
    <3>1. UNCHANGED <<chain, position, fetched, gone>>
      BY <2>4 DEF Extract, StoreBlocks, StoreTransactions, StoreDexData, Written, setup, batchVars
    <3> QED
      BY <3>1, ElsewhereRead
  <2>5. CASE FailedStep \/ CrashAndRestart
    <3>1. AtRest /\ UNCHANGED <<chain, position, gone>>
      BY <2>5 DEF FailedStep, StoreBlocksFails, StoreTransactionsFails, StoreDexDataFails,
                  SaveProgressFails, WriteFails, CrashAndRestart, GiveUp, setup
    <3> QED
      BY <3>1, RestRead
  <2> QED
    BY <2>1, <2>2, <2>3, <2>4, <2>5 DEF Next, BatchStep
<1> QED
  BY <1>1, <1>2, BatchesStayRight, RowsStayTold, PTL DEF Spec

LEMMA FiniteKeys ==
  ASSUME NEW s, IsList(s)
  PROVE  IsFiniteSet({s[i].key : i \in 1..Len(s)})
<1> DEFINE D == 1..Len(s)
           K == {s[i].key : i \in D}
           f == [i \in D |-> s[i].key]
<1>1. Len(s) \in Nat
  BY ListTyped
<1>2. IsFiniteSet(D)
  BY <1>1, FS_Interval
<1>3. f \in Surjection(D, K)
  BY DEF Surjection
<1> HIDE DEF D, K, f
<1>4. IsFiniteSet(K)
  BY <1>2, <1>3, FS_Surjection
<1> QED
  BY <1>4 DEF K, D

LEMMA TellsFinite ==
  ASSUME NEW c \in DOMAIN Blockchain, c \in Others, NEW e, NEW t \in Tables
  PROVE  IsFiniteSet(Tells(Told[c], e, t))
<1> DEFINE pass == Extracted(c, Pass(c), Uniswap!NoMemory, {})
           list == pass[t]
           keys == {list[i].key : i \in 1..Len(list)}
<1>1. Told[c] = [u \in Tables |-> {<<r.key, r.of>> : r \in ToSet(pass[u])}]
  <2>1. c \in DOMAIN Blockchain \ {"ethereum"}
    BY DEF Others
  <2> QED
    BY <2>1 DEF Told
<1>2. PICK S : BlocksOf(Pass(c), S)
  BY PassReads
<1>3. Lists(pass)
  BY <1>2, ExtractedAll
<1> HIDE DEF pass
<1>4. IsList(list) /\ Told[c][t] = {<<r.key, r.of>> : r \in ToSet(list)}
  BY <1>1, <1>3 DEF Lists
<1> HIDE DEF list
<1>5. IsFiniteSet(keys)
  BY <1>4, FiniteKeys
<1>6. ASSUME NEW k \in Tells(Told[c], e, t) PROVE k \in keys
  <2>1. PICK p \in Told[c][t] : k = p[1]
    BY DEF Tells
  <2>2. PICK r \in ToSet(list) : p = <<r.key, r.of>>
    BY <1>4, <2>1
  <2>3. PICK i \in DOMAIN list : r = list[i]
    BY DEF ToSet
  <2>4. i \in 1..Len(list) /\ k = list[i].key
    BY <1>4, <2>1, <2>2, <2>3, ListTyped
  <2> QED
    BY <2>4
<1> HIDE DEF keys
<1> QED
  BY <1>5, <1>6, FS_Subset

LEMMA RowsOfTold ==
  ASSUME StoredInv, chain # "ethereum", NEW e, NEW t \in Tables
  PROVE  RowsOf(e, t) \subseteq Tells(Told[chain], e, t)
<1> SUFFICES ASSUME NEW k \in DOMAIN db[t], db[t][k].of = e.id PROVE k \in Tells(Told[chain], e, t)
  BY DEF RowsOf
<1> DEFINE p == <<k, db[t][k].of>>
<1>1. p \in Told[chain][t] /\ p[1] = k /\ p[2] = e.id
  BY DEF StoredInv, OnlyTold
<1> HIDE DEF p
<1> QED
  BY <1>1 DEF Tells

\* If the pass gives each event no more rows than it must have, no failure, restart
\* or repeated batch gives it more (docs/database-design.md:20).
THEOREM NoneIsTwice == Spec => [](PassGives => NothingTwice)
<1>1. IngestInv /\ StoredInv => (PassGives => NothingTwice)
  <2> SUFFICES ASSUME IngestInv, StoredInv, PassGives, chain # "ethereum",
                      NEW e \in EventsOf(TheChain), NEW t \in {"txs", "liqs"}
               PROVE  Cardinality(RowsOf(e, t)) <= e.gives[t]
    BY DEF NothingTwice
  <2>1. chain \in DOMAIN Blockchain \ {"ethereum"} /\ chain \in Others /\ t \in Tables
    BY OnOthers DEF Tables
  <2>2. e.gives[t] \in Nat /\ Cardinality(Tells(Told[chain], e, t)) <= e.gives[t]
    BY <2>1 DEF PassGives, TheChain
  <2>3. IsFiniteSet(Tells(Told[chain], e, t)) /\ RowsOf(e, t) \subseteq Tells(Told[chain], e, t)
    BY <2>1, TellsFinite, RowsOfTold
  <2>4. /\ Cardinality(RowsOf(e, t)) <= Cardinality(Tells(Told[chain], e, t))
        /\ Cardinality(RowsOf(e, t)) \in Nat /\ Cardinality(Tells(Told[chain], e, t)) \in Nat
    BY <2>3, FS_Subset, FS_CardinalityType
  <2> QED
    BY <2>2, <2>4
<1> QED
  BY <1>1, BatchesStayRight, RowsStayTold, PTL

\* If the pass gives each event the rows it must have, every event that was read and
\* that the saved position covers has them in the tables: none is left out by
\* ON CONFLICT DO NOTHING or INSERT IGNORE in favour of another event's.
THEOREM SavedIsKept == Spec => [](PassGives /\ chain # "ethereum" => EventsKept)
<1>1. IngestInv /\ StoredInv /\ ReadInv /\ SavedIsStored
        => (PassGives /\ chain # "ethereum" => EventsKept)
  <2> SUFFICES ASSUME IngestInv, StoredInv, ReadInv, SavedIsStored, PassGives, chain # "ethereum",
                      NEW e \in Saved, e.id \notin gone
               PROVE  /\ \A t \in {"txs", "liqs"} : Cardinality(RowsOf(e, t)) >= e.gives[t]
                      /\ \A t \in {"pools", "tokens", "reserves"} : e.gives[t] \subseteq DOMAIN db[t]
    BY DEF EventsKept
  <2>1. chain \in DOMAIN Blockchain \ {"ethereum"} /\ chain \in Others
    BY OnOthers
  <2>2. e \in EventsOf(Blockchain[chain])
    <3>1. ToSet(SubSeq(TheChain, 1, position)) \subseteq ToSet(TheChain)
      <4>1. position \in Nat /\ 1 \in Nat \ {0} /\ position <= Len(Blockchain[chain])
        BY Typed DEF TheChain
      <4> QED
        BY <2>1, <4>1, RangeOnChain DEF TheChain
    <3> QED
      BY <3>1 DEF Saved, EventsOf, TheChain
  <2>3. e \in EventsOf(Pass(chain))
    <3>1. e.id \in {x.id : x \in Saved} \ gone
      OBVIOUS
    <3>2. PICK g \in EventsOf(Pass(chain)) : g.id = e.id
      BY <3>1 DEF ReadInv, Ids
    <3>3. g = e
      BY <2>1, <2>2, <3>2, PassOnChain, OneOfItsId
    <3> QED
      BY <3>2, <3>3
  <2>4. ASSUME NEW t \in Tables, NEW k \in Tells(Told[chain], e, t)
        PROVE  k \in DOMAIN db[t] /\ (t \in {"txs", "liqs"} => db[t][k].of = e.id)
    <3>1. PICK p \in Told[chain][t] : p[2] = e.id /\ k = p[1]
      BY DEF Tells
    <3>2. p[2] \in {x.id : x \in Saved} \ gone
      BY <3>1
    <3> QED
      BY <3>1, <3>2 DEF SavedIsStored
  <2>5. ASSUME NEW t \in {"txs", "liqs"} PROVE Cardinality(RowsOf(e, t)) >= e.gives[t]
    <3>1. t \in Tables
      BY DEF Tables
    <3>2. Tells(Told[chain], e, t) \subseteq RowsOf(e, t)
      BY <2>4, <3>1 DEF RowsOf
    <3>3. RowsOf(e, t) \subseteq Tells(Told[chain], e, t)
      BY <3>1, RowsOfTold
    <3>4. RowsOf(e, t) = Tells(Told[chain], e, t)
      BY <3>2, <3>3
    <3> QED
      BY <2>1, <2>3, <3>4 DEF PassGives
  <2>6. ASSUME NEW t \in {"pools", "tokens", "reserves"} PROVE e.gives[t] \subseteq DOMAIN db[t]
    <3>1. t \in Tables /\ e.gives[t] \subseteq Tells(Told[chain], e, t)
      BY <2>1, <2>3 DEF PassGives, Tables
    <3> QED
      BY <2>4, <3>1
  <2> QED
    BY <2>5, <2>6
<1> QED
  BY <1>1, BatchesStayRight, RowsStayTold, PassReadsAll, SavedStaysStored, PTL
=============================================================================
