---------------------------- MODULE SqlStatements ----------------------------
(***************************************************************************)
(* The SQL statement that each of the seven adapters sends for each call.  *)
(* The adapters differ in their statements more than in their Go code, and *)
(* this is where callers of the one storage.Storage interface get to see   *)
(* which database is behind it.                                            *)
(*                                                                         *)
(* A statement maps the table it is run on to the table it leaves (new),   *)
(* whether the database accepts it (ok) and whether it counts a row as     *)
(* affected (hit).                                                         *)
(***************************************************************************)
EXTENDS ObjectTable

CONSTANT Unique    \* the columns declared UNIQUE in the schema

ASSUME UniqueAssumption == Unique \subseteq Cols

SqlAdapters == {"sqlite", "postgres", "sqlserver", "oracle", "cockroach", "yugabyte", "tidb"}

\* Mutant of Clash: CREATE TABLE leaves UNIQUE out.
MutClashNever(r1, r2) == FALSE

\* Two rows that the UNIQUE clauses of CREATE TABLE forbid together: they have
\* the same non-NULL value in such a column.
Clash(r1, r2) == \E u \in Unique : r1[u] = r2[u] /\ r1[u] # Null

\* The rows that row, stored under id, would duplicate a unique value of.
Rivals(t, id, row) == {j \in Ids \ {id} : t[j] # NoRow /\ Clash(row, t[j])}

\* INSERT OR REPLACE INTO (sqlite), REPLACE INTO (tidb): delete every row with
\* this id or one of its unique values, then insert.
ReplaceInto(t, id, f) ==
  LET row == Overlay(Blank, f)
  IN  [ok  |-> TRUE, hit |-> TRUE,
       new |-> [j \in Ids |-> IF j = id THEN row
                              ELSE IF j \in Rivals(t, id, row) THEN NoRow ELSE t[j]]]

\* INSERT ... ON CONFLICT (id) DO UPDATE, MERGE, UPSERT INTO: only the id is an
\* arbiter, a duplicate in another unique column is an error.
InsertOrMerge(t, id, f) ==
  LET row == Merged(t, id, f)
  IN  [ok |-> Rivals(t, id, row) = {}, hit |-> TRUE, new |-> Put(t, id, row)]

\* INSERT INTO: any duplicate is an error.
InsertOnly(t, id, f) ==
  LET row == Overlay(Blank, f)
  IN  [ok  |-> t[id] = NoRow /\ Rivals(t, id, row) = {}, hit |-> TRUE,
       new |-> Put(t, id, row)]

\* Mutant of UpdateWhere: an update that would duplicate a value is ignored.
MutUpdateWhere(t, id, f) ==
  LET row == Merged(t, id, f)
  IN  IF t[id] = NoRow \/ Rivals(t, id, row) # {}
      THEN [ok |-> TRUE, hit |-> FALSE, new |-> t]
      ELSE [ok |-> TRUE, hit |-> TRUE, new |-> Put(t, id, row)]

\* UPDATE ... SET ... WHERE id = ?
UpdateWhere(t, id, f) ==
  LET row == Merged(t, id, f)
  IN  IF t[id] = NoRow
      THEN [ok |-> TRUE, hit |-> FALSE, new |-> t]
      ELSE [ok |-> Rivals(t, id, row) = {}, hit |-> TRUE, new |-> Put(t, id, row)]

\* DELETE FROM ... WHERE id = ?
DeleteWhere(t, id) == [ok |-> TRUE, hit |-> t[id] # NoRow, new |-> Put(t, id, NoRow)]

\* Mutants of adapters' statements: REPLACE where a plain INSERT is meant, and
\* INSERT IGNORE where an existing row has to be overwritten.
MutOracleInsert(t, id, f)   == ReplaceInto(t, id, f)
MutTiDBInsert(t, id, f)     == [ReplaceInto(t, id, f) EXCEPT
                                  !.new = IF t[id] = NoRow THEN @ ELSE t]

(* Which statement each adapter sends for Insert and InsertTx; Upsert and  *)
(* UpsertTx delegate to these in every adapter.                            *)
SQLiteInsert(t, id, f)      == ReplaceInto(t, id, f)
SQLiteInsertTx(t, id, f)    == ReplaceInto(t, id, f)
TiDBInsert(t, id, f)        == ReplaceInto(t, id, f)
TiDBInsertTx(t, id, f)      == ReplaceInto(t, id, f)
PostgresInsert(t, id, f)    == InsertOrMerge(t, id, f)
PostgresInsertTx(t, id, f)  == InsertOrMerge(t, id, f)
YugabyteInsert(t, id, f)    == InsertOrMerge(t, id, f)
YugabyteInsertTx(t, id, f)  == InsertOrMerge(t, id, f)
CockroachInsert(t, id, f)   == InsertOrMerge(t, id, f)
CockroachInsertTx(t, id, f) == InsertOrMerge(t, id, f)
SQLServerInsert(t, id, f)   == InsertOrMerge(t, id, f)
SQLServerInsertTx(t, id, f) == InsertOrMerge(t, id, f)
OracleInsert(t, id, f)      == InsertOnly(t, id, f)
OracleInsertTx(t, id, f)    == InsertOnly(t, id, f)

InsertStatement(a, inTx, t, id, f) ==
  CASE a = "sqlite"    -> IF inTx THEN SQLiteInsertTx(t, id, f) ELSE SQLiteInsert(t, id, f)
    [] a = "tidb"      -> IF inTx THEN TiDBInsertTx(t, id, f) ELSE TiDBInsert(t, id, f)
    [] a = "postgres"  -> IF inTx THEN PostgresInsertTx(t, id, f) ELSE PostgresInsert(t, id, f)
    [] a = "yugabyte"  -> IF inTx THEN YugabyteInsertTx(t, id, f) ELSE YugabyteInsert(t, id, f)
    [] a = "cockroach" -> IF inTx THEN CockroachInsertTx(t, id, f) ELSE CockroachInsert(t, id, f)
    [] a = "sqlserver" -> IF inTx THEN SQLServerInsertTx(t, id, f) ELSE SQLServerInsert(t, id, f)
    [] a = "oracle"    -> IF inTx THEN OracleInsertTx(t, id, f) ELSE OracleInsert(t, id, f)

(* Update and UpdateTx.  RowsAffected counts the rows that matched, except *)
(* on TiDB, whose MySQL protocol counts the rows that changed.             *)
PreparedUpdate(t, id, f)    == UpdateWhere(t, id, f)
SQLServerUpdate(t, id, f)   == UpdateWhere(t, id, f)
OracleUpdate(t, id, f)      == UpdateWhere(t, id, f)
CockroachUpdate(t, id, f)   == UpdateWhere(t, id, f)
YugabyteUpdate(t, id, f)    == UpdateWhere(t, id, f)
TiDBUpdate(t, id, f)        == LET r == UpdateWhere(t, id, f)
                               IN  [ok |-> r.ok, hit |-> r.new # t, new |-> r.new]

UpdateStatement(a, t, id, f) ==
  CASE a \in {"sqlite", "postgres"} -> PreparedUpdate(t, id, f)
    [] a = "sqlserver"              -> SQLServerUpdate(t, id, f)
    [] a = "oracle"                 -> OracleUpdate(t, id, f)
    [] a = "cockroach"              -> CockroachUpdate(t, id, f)
    [] a = "yugabyte"               -> YugabyteUpdate(t, id, f)
    [] a = "tidb"                   -> TiDBUpdate(t, id, f)

(* What FindByKey and FindByKeyTx make of the row the SELECT returned.     *)
(* Yugabyte scans into fresh pointers and returns the object it filled     *)
(* before the scan: its fields are the zero values and its ID is not set.  *)
ScannedRow(a, row) == IF a = "yugabyte" THEN Blank ELSE row
ScannedID(a, id, none) == IF a = "yugabyte" THEN none ELSE id
=============================================================================
