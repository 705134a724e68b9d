------------------------------ MODULE MysqlStore ------------------------------
(***************************************************************************)
(* The MySQL store's writes.  An INSERT of several rows handles them one   *)
(* after the other, so that a key that comes twice is inserted and then    *)
(* updated; neither the order of the chunks nor their size shows.          *)
(***************************************************************************)
EXTENDS SqlTables

\* INSERT ... ON DUPLICATE KEY UPDATE, and INSERT IGNORE.
OnDuplicateKeyUpdate(tx, t, rows) == Statement(tx, t, rows, Overwritten)
InsertIgnore(tx, t, rows)         == Statement(tx, t, rows, Completed)

batchInsertBlocks(tx, rows)          == OnDuplicateKeyUpdate(tx, "blocks", rows)
batchInsertTransactions(tx, rows)    == OnDuplicateKeyUpdate(tx, "raw", rows)

batchUpsertPools(tx, rows)           == OnDuplicateKeyUpdate(tx, "pools", rows)
batchUpsertTokens(tx, rows)          == OnDuplicateKeyUpdate(tx, "tokens", rows)
batchInsertDexTransactions(tx, rows) == InsertIgnore(tx, "txs", rows)
batchInsertLiquidities(tx, rows)     == InsertIgnore(tx, "liqs", rows)

batchUpsertReserves(tx, rows)        == OnDuplicateKeyUpdate(tx, "reserves", rows)

\* Each is one transaction of the database.
StoreBlocks(db, blocks) ==
  Commit(batchInsertBlocks(BeginTx(db), [i \in DOMAIN blocks |-> BlockRow(blocks[i])]))

StoreTransactions(db, txs) ==
  Commit(batchInsertTransactions(BeginTx(db), [i \in DOMAIN txs |-> RawRow(txs[i])]))

StoreDexData(db, data) ==
  LET tx1 == batchUpsertPools(BeginTx(db), data.pools)
      tx2 == batchUpsertTokens(tx1, data.tokens)
      tx3 == batchInsertDexTransactions(tx2, data.txs)
      tx4 == batchInsertLiquidities(tx3, data.liqs)
  IN Commit(batchUpsertReserves(tx4, data.reserves))

\* What a process that starts reads back.
GetAllPoolTokens(db) ==
  LET known == {p \in DOMAIN db.pools : Len(db.pools[p].tokens) = 2}
  IN [p \in known |-> db.pools[p].tokens]

GetAllTokenMeta(db) == DOMAIN db.tokens

=============================================================================
