------------------------------ MODULE PgsqlStore ------------------------------
(***************************************************************************)
(* The PostgreSQL store's writes.  Rows go into statements of at most      *)
(* ChunkSize rows, and a statement with ON CONFLICT DO UPDATE that would   *)
(* touch one row twice is refused: the transaction it is in is rolled      *)
(* back.  ON CONFLICT DO NOTHING takes a repeated key.                     *)
(***************************************************************************)
EXTENDS SqlTables

CONSTANTS ChunkSize  \* batchChunkSize, 500 in the code

\* Two rows of one key in one chunk.
Repeats(rows) ==
  \E i, j \in DOMAIN rows :
    i < j /\ rows[i].key = rows[j].key /\ (i - 1) \div ChunkSize = (j - 1) \div ChunkSize

OnConflictDoUpdate(tx, t, rows) ==
  IF ~tx.failed /\ Repeats(rows) THEN [tx EXCEPT !.failed = TRUE]
  ELSE Statement(tx, t, rows, Overwritten)

OnConflictDoNothing(tx, t, rows) == Statement(tx, t, rows, Completed)

batchInsertBlocks(tx, rows)          == OnConflictDoUpdate(tx, "blocks", rows)
batchInsertTransactions(tx, rows)    == OnConflictDoUpdate(tx, "raw", rows)

batchUpsertPools(tx, rows)           == OnConflictDoUpdate(tx, "pools", rows)
batchUpsertTokens(tx, rows)          == OnConflictDoUpdate(tx, "tokens", rows)
batchInsertDexTransactions(tx, rows) == OnConflictDoNothing(tx, "txs", rows)
batchInsertLiquidities(tx, rows)     == OnConflictDoNothing(tx, "liqs", rows)
batchUpsertReserves(tx, rows)        == OnConflictDoUpdate(tx, "reserves", rows)

\* The deferred Rollback undoes what a failed transaction did.
Committed(db, tx) == IF tx.failed THEN [ok |-> FALSE, db |-> db] ELSE Commit(tx)

StoreBlocks(db, blocks) ==
  Committed(db, batchInsertBlocks(BeginTx(db),
                                  [i \in DOMAIN blocks |-> BlockRow(blocks[i])]))

StoreTransactions(db, txs) ==
  Committed(db, batchInsertTransactions(BeginTx(db),
                                        [i \in DOMAIN txs |-> RawRow(txs[i])]))

StoreDexData(db, data) ==
  LET tx1 == batchUpsertPools(BeginTx(db), data.pools)
      tx2 == batchUpsertTokens(tx1, data.tokens)
      tx3 == batchInsertDexTransactions(tx2, data.txs)
      tx4 == batchInsertLiquidities(tx3, data.liqs)
  IN Committed(db, batchUpsertReserves(tx4, data.reserves))

GetAllPoolTokens(db) ==
  LET known == {p \in DOMAIN db.pools : Len(db.pools[p].tokens) = 2}
  IN [p \in known |-> db.pools[p].tokens]

GetAllTokenMeta(db) == DOMAIN db.tokens

=============================================================================
