------------------------------ MODULE SqlTables ------------------------------
(***************************************************************************)
(* The tables of the relational stores, each a function from the unique    *)
(* key of a row (the UNIQUE constraints of the schema) to the row, and the *)
(* state of a database transaction that works on them: the tables as it    *)
(* sees them, and whether a statement of it has failed.                    *)
(***************************************************************************)
EXTENDS DexRows, FiniteSetsExt

\* raw: the blocks and transactions as fetched, next to the extractors' rows.
SqlTable == {"blocks", "raw"} \cup Tables

EmptyDatabase == [t \in SqlTable |-> <<>>]

\* Rows of a block and of a transaction, keyed by their hashes.
BlockRow(b)   == [key |-> b.hash, number |-> b.number]
RawRow(tx)    == [key |-> tx.hash, number |-> tx.number]

\* The rows of a key, by their positions.
Places(rows, key) == {i \in DOMAIN rows : rows[i].key = key}

Keys(rows) == {rows[i].key : i \in DOMAIN rows}

\* Mutant: of the rows of a key that are written together the first wins.
OverwrittenByTheFirst(table, rows) ==
  [k \in DOMAIN table \cup Keys(rows) |->
     IF k \in Keys(rows) THEN rows[Min(Places(rows, k))] ELSE table[k]]

\* The last row of a key wins, over what the table had.
Overwritten(table, rows) ==
  [k \in DOMAIN table \cup Keys(rows) |->
     IF k \in Keys(rows) THEN rows[Max(Places(rows, k))] ELSE table[k]]

\* The first row of a key wins, and what the table had before it.
Completed(table, rows) ==
  [k \in DOMAIN table \cup Keys(rows) |->
     IF k \in DOMAIN table THEN table[k] ELSE rows[Min(Places(rows, k))]]

BeginTx(db) == [db |-> db, failed |-> FALSE]

\* A statement is not reached once one before it failed.
Statement(tx, t, rows, write(_, _)) ==
  IF tx.failed THEN tx ELSE [tx EXCEPT !.db[t] = write(@, rows)]

Commit(tx) == [ok |-> ~tx.failed, db |-> tx.db]

=============================================================================
