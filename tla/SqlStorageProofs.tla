-------------------------- MODULE SqlStorageProofs --------------------------
(***************************************************************************)
(* What SqlStorage guarantees for every set of callers, ids, columns and   *)
(* adapters: types; what an upsert and an update leave behind; the         *)
(* contract, for the adapters that merge; and UNIQUE columns.              *)
(***************************************************************************)
EXTENDS SqlStorage, TLAPS

Results == [ok : BOOLEAN, hit : BOOLEAN, new : Tables]

-----------------------------------------------------------------------------
(* The helpers on rows and tables, and every statement, preserve the type  *)
(* of a table.                                                             *)

\* Fields are the partial functions from columns to values.
LEMMA FieldsLemma ==
  ASSUME NEW f \in Fields
  PROVE  /\ DOMAIN f \subseteq Cols
         /\ \A x \in DOMAIN f : f[x] \in Values
  BY DEF Fields

\* A row stays a row when fields are written over it.
LEMMA OverlayType ==
  ASSUME NEW row \in Rows, NEW f \in Fields
  PROVE  Overlay(row, f) \in Rows
  BY FieldsLemma DEF Overlay, Rows

\* The row without values is a row.
LEMMA BlankType == Blank \in Rows
  BY DEF Blank, Rows, Values

\* A merge leaves a row.
LEMMA MergedType ==
  ASSUME NEW t \in Tables, NEW id \in Ids, NEW f \in Fields
  PROVE  Merged(t, id, f) \in Rows
<1>1. CASE t[id] = NoRow
  BY <1>1, OverlayType, BlankType DEF Merged
<1>2. CASE t[id] # NoRow
  <2>1. t[id] \in Rows
    BY <1>2 DEF Tables
  <2> QED
    BY <1>2, <2>1, OverlayType DEF Merged
<1> QED
  BY <1>1, <1>2

\* A table with one row replaced is a table.
LEMMA PutType ==
  ASSUME NEW t \in Tables, NEW id \in Ids, NEW row \in Rows \cup {NoRow}
  PROVE  Put(t, id, row) \in Tables
  BY DEF Put, Tables

\* The statements leave tables: REPLACE ...
LEMMA ReplaceIntoType ==
  ASSUME NEW t \in Tables, NEW id \in Ids, NEW f \in Fields
  PROVE  ReplaceInto(t, id, f) \in Results
<1>1. Overlay(Blank, f) \in Rows
  BY OverlayType, BlankType
<1> QED
  BY <1>1 DEF ReplaceInto, Results, Tables

\* ... the merging insert ...
LEMMA InsertOrMergeType ==
  ASSUME NEW t \in Tables, NEW id \in Ids, NEW f \in Fields
  PROVE  InsertOrMerge(t, id, f) \in Results
  BY MergedType, PutType DEF InsertOrMerge, Results

\* ... the plain INSERT ...
LEMMA InsertOnlyType ==
  ASSUME NEW t \in Tables, NEW id \in Ids, NEW f \in Fields
  PROVE  InsertOnly(t, id, f) \in Results
  BY OverlayType, BlankType, PutType DEF InsertOnly, Results

\* ... UPDATE ...
LEMMA UpdateWhereType ==
  ASSUME NEW t \in Tables, NEW id \in Ids, NEW f \in Fields
  PROVE  UpdateWhere(t, id, f) \in Results
  BY MergedType, PutType DEF UpdateWhere, Results

\* ... and DELETE.
LEMMA DeleteWhereType ==
  ASSUME NEW t \in Tables, NEW id \in Ids
  PROVE  DeleteWhere(t, id) \in Results
  BY PutType DEF DeleteWhere, Results

\* Each adapter's Insert is one of three statements, ...
LEMMA InsertStatementCases ==
  ASSUME NEW a \in SqlAdapters, NEW inTx \in BOOLEAN, NEW t, NEW id, NEW f
  PROVE  InsertStatement(a, inTx, t, id, f) =
           IF a \in {"sqlite", "tidb"} THEN ReplaceInto(t, id, f)
           ELSE IF a = "oracle" THEN InsertOnly(t, id, f)
           ELSE InsertOrMerge(t, id, f)
  BY DEF InsertStatement, SqlAdapters, SQLiteInsert, SQLiteInsertTx, TiDBInsert,
         TiDBInsertTx, PostgresInsert, PostgresInsertTx, YugabyteInsert,
         YugabyteInsertTx, CockroachInsert, CockroachInsertTx, SQLServerInsert,
         SQLServerInsertTx, OracleInsert, OracleInsertTx

\* ... and each Update the same one, but for what counts as an affected row.
LEMMA UpdateStatementCases ==
  ASSUME NEW a \in SqlAdapters, NEW t, NEW id, NEW f
  PROVE  UpdateStatement(a, t, id, f) =
           IF a = "tidb" THEN TiDBUpdate(t, id, f) ELSE UpdateWhere(t, id, f)
  BY DEF UpdateStatement, SqlAdapters, PreparedUpdate, SQLServerUpdate,
         OracleUpdate, CockroachUpdate, YugabyteUpdate

\* Whatever an adapter sends leaves a table.
LEMMA StatementTypes ==
  ASSUME NEW a \in SqlAdapters, NEW inTx \in BOOLEAN,
         NEW t \in Tables, NEW id \in Ids, NEW f \in Fields
  PROVE  /\ InsertStatement(a, inTx, t, id, f) \in Results
         /\ UpdateStatement(a, t, id, f) \in Results
<1>1. InsertStatement(a, inTx, t, id, f) \in Results
  BY InsertStatementCases, ReplaceIntoType, InsertOnlyType, InsertOrMergeType
<1>2. TiDBUpdate(t, id, f) \in Results
  <2> DEFINE r == UpdateWhere(t, id, f)
  <2>1. r \in Results
    BY UpdateWhereType
  <2>2. TiDBUpdate(t, id, f) = [ok |-> r.ok, hit |-> r.new # t, new |-> r.new]
    BY DEF TiDBUpdate
  <2> HIDE DEF r
  <2> QED
    BY <2>1, <2>2 DEF Results
<1> QED
  BY <1>1, <1>2, UpdateStatementCases, UpdateWhereType

-----------------------------------------------------------------------------
(* Type correctness.                                                       *)

\* A search key is a set of fields.
LEMMA KeysType == NoFields \in Fields /\ Keys \subseteq Fields
<1>1. NoFields \in [{} -> Values]
  BY DEF NoFields
<1>2. NoFields \in Fields
  BY <1>1 DEF Fields
<1>3. ASSUME NEW x \in Cols PROVE [{x} -> Cells] \subseteq Fields
  <2>1. [{x} -> Cells] \subseteq [{x} -> Values]
    BY DEF Values
  <2> QED
    BY <2>1 DEF Fields
<1> QED
  BY <1>2, <1>3 DEF Keys

\* A call that returns records an event.
LEMMA ReturnsType ==
  ASSUME NEW c \in Callers, NEW call \in Calls, NEW inTx \in BOOLEAN,
         NEW id \in Ids \cup {None}, NEW f \in Fields,
         NEW out \in {"true", "false", "error"}, NEW got \in Rows \cup {NoRow},
         Returns(c, call, inTx, id, f, out, got)
  PROVE  last' \in Events
  BY DEF Returns, Events

\* What a transaction sees is a table ...
LEMMA ViewType ==
  ASSUME TypeOK, NEW c \in Callers
  PROVE  View(c) \in Tables
  BY DEF TypeOK, View, Tables

\* ... and so is what any call sees.
LEMMA BaseType ==
  ASSUME TypeOK, NEW c \in Callers, NEW inTx \in BOOLEAN
  PROVE  Base(c, inTx) \in Tables
  BY ViewType DEF Base, TypeOK

\* A statement that takes effect keeps the types of the rows and the writes.
LEMMA ApplyType ==
  ASSUME TypeOK, NEW c \in Callers, NEW inTx \in BOOLEAN, NEW id \in Ids,
         NEW r \in Results, Apply(c, inTx, id, r)
  PROVE  /\ db' \in Adapters
         /\ rows' \in Tables
         /\ ws' \in [Callers -> [Ids -> Rows \cup {NoRow, Untouched}]]
         /\ tx' \in [Callers -> {"none", "active", "aborted"}]
<1> DEFINE over == [i \in Ids |-> IF i \in Touched(c, inTx, id, r)
                                  THEN r.new[i] ELSE ws[c][i]]
<1>1. r.new \in Tables
  BY DEF Results
<1>2. over \in [Ids -> Rows \cup {NoRow, Untouched}]
  BY <1>1 DEF TypeOK, Tables
<1>3. ws' = ws \/ ws' = [ws EXCEPT ![c] = over]
  BY DEF Apply
<1>4. ws' \in [Callers -> [Ids -> Rows \cup {NoRow, Untouched}]]
  <2> HIDE DEF over
  <2> QED
    BY <1>2, <1>3 DEF TypeOK
<1> QED
  BY <1>1, <1>4 DEF Apply, TypeOK

\* No write at all is a set of writes.
LEMMA CleanType == Clean \in [Ids -> Rows \cup {NoRow, Untouched}]
  BY DEF Clean

\* The end of a transaction keeps the types.
LEMMA EndTxType ==
  ASSUME TypeOK, NEW c \in Callers, NEW call \in Calls, NEW table \in Tables,
         NEW out \in {"true", "error"}, EndTx(c, call, table, out)
  PROVE  TypeOK'
<1>1. last' \in Events
  BY ReturnsType, KeysType DEF EndTx
<1> QED
  BY <1>1, CleanType DEF EndTx, TypeOK

\* So does an error.
LEMMA AfterErrorType ==
  ASSUME TypeOK, NEW c \in Callers, NEW inTx \in BOOLEAN, AfterError(c, inTx)
  PROVE  /\ ws' \in [Callers -> [Ids -> Rows \cup {NoRow, Untouched}]]
         /\ tx' \in [Callers -> {"none", "active", "aborted"}]
  BY CleanType DEF AfterError, TypeOK

\* Every variable keeps its type: in particular a committed table never holds
\* the marker of an unwritten row, and no row ever lacks a column.
THEOREM TypeCorrect == Spec => []TypeOK
<1>1. Init => TypeOK
  BY CleanType, AdaptersAssumption DEF Init, TypeOK, Tables
<1>2. TypeOK /\ [Next]_vars => TypeOK'
  <2> SUFFICES ASSUME TypeOK, [Next]_vars PROVE TypeOK'
    OBVIOUS
  <2> USE AdaptersAssumption
  <2>0. db \in SqlAdapters
    BY DEF TypeOK
  <2>1. ASSUME NEW c \in Callers, NEW inTx \in BOOLEAN, NEW id \in Ids, NEW f \in Writes,
               Upsert(c, inTx, id, f)
        PROVE  TypeOK'
    <3>1. f \in Fields
      BY WritesAssumption
    <3>2. InsertStatement(db, inTx, Base(c, inTx), id, f) \in Results
      BY <2>0, <3>1, BaseType, StatementTypes
    <3>3. last' \in Events
      BY <2>1, <3>1, ReturnsType DEF Upsert, Outcomes, Calls, Statements
    <3> QED
      BY <2>1, <3>2, <3>3, ApplyType DEF Upsert, TypeOK
  <2>2. ASSUME NEW c \in Callers, NEW inTx \in BOOLEAN, NEW id \in Ids, NEW f \in Writes,
               OracleRejected(c, inTx, id, f)
        PROVE  TypeOK'
    BY <2>2 DEF OracleRejected, TypeOK, Pending
  <2>3. ASSUME NEW c \in Callers, OracleFallback(c)
        PROVE  TypeOK'
    <3> DEFINE p == pend[c]
    <3>1. p \in Pending
      BY <2>3 DEF OracleFallback, TypeOK
    <3>2. p.inTx \in BOOLEAN /\ p.id \in Ids /\ p.f \in Fields
      BY <3>1, WritesAssumption DEF Pending
    <3>3. UpdateWhere(Base(c, p.inTx), p.id, p.f) \in Results
      BY <3>2, BaseType, UpdateWhereType
    <3>4. last' \in Events
      BY <2>3, <3>2, ReturnsType DEF OracleFallback, Outcomes, Calls, Statements
    <3> QED
      BY <2>3, <3>2, <3>3, <3>4, ApplyType DEF OracleFallback, TypeOK
  <2>4. ASSUME NEW c \in Callers, NEW inTx \in BOOLEAN, NEW id \in Ids, NEW f \in Writes,
               Update(c, inTx, id, f)
        PROVE  TypeOK'
    <3>1. f \in Fields
      BY WritesAssumption
    <3>2. UpdateStatement(db, Base(c, inTx), id, f) \in Results
      BY <2>0, <3>1, BaseType, StatementTypes
    <3>3. last' \in Events
      BY <2>4, <3>1, ReturnsType DEF Update, Outcomes, Flag, Calls, Statements
    <3> QED
      BY <2>4, <3>2, <3>3, ApplyType DEF Update, TypeOK
  <2>5. ASSUME NEW c \in Callers, NEW inTx \in BOOLEAN, NEW id \in Ids,
               Delete(c, inTx, id)
        PROVE  TypeOK'
    <3>1. DeleteWhere(Base(c, inTx), id) \in Results
      BY BaseType, DeleteWhereType
    <3>2. last' \in Events
      BY <2>5, KeysType, ReturnsType DEF Delete, Outcomes, Flag, Calls, Statements
    <3> QED
      BY <2>5, <3>1, <3>2, ApplyType DEF Delete, TypeOK
  <2>6. ASSUME NEW c \in Callers, NEW inTx \in BOOLEAN, NEW id \in Ids,
               FindByID(c, inTx, id)
        PROVE  TypeOK'
    <3> DEFINE row == Base(c, inTx)[id]
    <3>1. row \in Rows \cup {NoRow}
      BY BaseType DEF Tables
    <3>2. ScannedRow(db, row) \in Rows \cup {NoRow}
      BY <3>1, BlankType DEF ScannedRow
    <3>3. last' \in Events
      BY <2>6, <3>2, KeysType, ReturnsType DEF FindByID, ScannedID, Calls, Statements
    <3> QED
      BY <2>6, <3>3 DEF FindByID, TypeOK
  <2>7. ASSUME NEW c \in Callers, NEW inTx \in BOOLEAN, NEW f \in Keys,
               FindByKey(c, inTx, f)
        PROVE  TypeOK'
    <3>1. ASSUME NEW i \in Ids
          PROVE  ScannedRow(db, Base(c, inTx)[i]) \in Rows \cup {NoRow}
      BY BaseType, BlankType DEF Tables, ScannedRow
    <3>2. last' \in Events
      BY <2>7, <3>1, KeysType, ReturnsType DEF FindByKey, ScannedID, Calls, Statements
    <3> QED
      BY <2>7, <3>2 DEF FindByKey, TypeOK
  <2>8. ASSUME NEW c \in Callers, NEW call \in Statements, NEW inTx \in BOOLEAN,
               StatementFails(c, call, inTx)
        PROVE  TypeOK'
    <3>1. last' \in Events
      BY <2>8, KeysType, ReturnsType DEF StatementFails, Calls
    <3> QED
      BY <2>8, <3>1, AfterErrorType DEF StatementFails, TypeOK
  <2>9. ASSUME NEW c \in Callers, FallbackFails(c)
        PROVE  TypeOK'
    <3>1. pend[c].inTx \in BOOLEAN
      BY <2>9 DEF FallbackFails, TypeOK, Pending
    <3>2. last' \in Events
      BY <2>9, <3>1, KeysType, ReturnsType DEF FallbackFails, Calls, Statements
    <3> QED
      BY <2>9, <3>1, <3>2, AfterErrorType DEF FallbackFails, TypeOK
  <2>10. ASSUME NEW c \in Callers, NEW call \in Calls, NEW inTx \in BOOLEAN,
                Refuse(c, call, inTx)
         PROVE  TypeOK'
    <3>1. last' \in Events
      BY <2>10, KeysType, ReturnsType DEF Refuse
    <3> QED
      BY <2>10, <3>1 DEF Refuse, TypeOK
  <2>11. ASSUME NEW c \in Callers, BeginTx(c)
         PROVE  TypeOK'
    <3>1. last' \in Events
      BY <2>11, KeysType, ReturnsType DEF BeginTx, Calls
    <3> QED
      BY <2>11, <3>1 DEF BeginTx, TypeOK
  <2>12. ASSUME NEW c \in Callers, CommitTx(c)
         PROVE  TypeOK'
    <3>1. View(c) \in Tables /\ rows \in Tables
      BY ViewType DEF TypeOK
    <3> QED
      BY <2>12, <3>1, EndTxType DEF CommitTx, Calls
  <2>13. ASSUME NEW c \in Callers, RollbackTx(c)
         PROVE  TypeOK'
    <3>1. rows \in Tables
      BY DEF TypeOK
    <3> QED
      BY <2>13, <3>1, EndTxType DEF RollbackTx, Calls
  <2>14. CASE UNCHANGED vars
    BY <2>14 DEF vars, TypeOK
  <2> QED
    BY <2>1, <2>2, <2>3, <2>4, <2>5, <2>6, <2>7, <2>8, <2>9, <2>10, <2>11, <2>12,
       <2>13, <2>14 DEF Next
<1> QED
  BY <1>1, <1>2, PTL DEF Spec

-----------------------------------------------------------------------------
(* What an upsert, and an update, leave behind, whichever statements they  *)
(* are made of.                                                            *)

\* In table n the row of t under id was replaced by f, and rivals made room.
ReplacedRow(t, id, f, n) ==
  /\ n[id] # NoRow
  /\ \A x \in DOMAIN f : n[id][x] = f[x]
  /\ \A x \in Cols \ DOMAIN f : n[id][x] = Null
  /\ \A i \in Ids \ {id} :
       \/ n[i] = t[i]
       \/ n[i] = NoRow /\ \E u \in Unique : t[i][u] # Null /\ t[i][u] = n[id][u]

\* In table n the row of t under id was given f, and nothing else happened.
MergedRow(t, id, f, n) ==
  /\ n[id] # NoRow
  /\ \A x \in DOMAIN f : n[id][x] = f[x]
  /\ t[id] # NoRow => \A x \in Cols \ DOMAIN f : n[id][x] = t[id][x]
  /\ \A i \in Ids \ {id} : n[i] = t[i]

\* REPLACE does the first ...
LEMMA ReplaceEffect ==
  ASSUME NEW t \in Tables, NEW id \in Ids, NEW f \in Fields
  PROVE  ReplacedRow(t, id, f, ReplaceInto(t, id, f).new)
<1> DEFINE row == Overlay(Blank, f)
           n == [j \in Ids |-> IF j = id THEN row
                               ELSE IF j \in Rivals(t, id, row) THEN NoRow ELSE t[j]]
<1>1. row \in Rows /\ row # NoRow
  BY OverlayType, BlankType, NoRowAssumption DEF Rows, Values
<1>2. \A x \in DOMAIN f : row[x] = f[x]
  BY FieldsLemma DEF Overlay
<1>3. \A x \in Cols \ DOMAIN f : row[x] = Null
  BY DEF Overlay, Blank
<1> HIDE DEF row
<1>4. ASSUME NEW i \in Rivals(t, id, row)
      PROVE  \E u \in Unique : t[i][u] # Null /\ t[i][u] = row[u]
  BY <1>4 DEF Rivals, Clash
<1>5. ReplacedRow(t, id, f, n)
  BY <1>1, <1>2, <1>3, <1>4 DEF ReplacedRow
<1> QED
  BY <1>5 DEF ReplaceInto, row

\* ... and writing the merged row does the second.
LEMMA MergeEffect ==
  ASSUME NEW t \in Tables, NEW id \in Ids, NEW f \in Fields
  PROVE  MergedRow(t, id, f, Put(t, id, Merged(t, id, f)))
<1> DEFINE row == Merged(t, id, f)
<1>1. row \in Rows /\ row # NoRow
  BY MergedType, NoRowAssumption DEF Rows, Values
<1>2. \A x \in DOMAIN f : row[x] = f[x]
  BY FieldsLemma DEF Merged, Overlay
<1>3. t[id] # NoRow => \A x \in Cols \ DOMAIN f : row[x] = t[id][x]
  BY DEF Merged, Overlay
<1> HIDE DEF row
<1>4. MergedRow(t, id, f, Put(t, id, row))
  BY <1>1, <1>2, <1>3 DEF MergedRow, Put, Tables
<1> QED
  BY <1>4 DEF row

\* What a call sees after its statement is the table the statement leaves.
LEMMA AppliedTable ==
  ASSUME TypeOK, NEW c \in Callers, NEW inTx \in BOOLEAN, NEW id \in Ids,
         NEW r \in Results, Apply(c, inTx, id, r)
  PROVE  Base(c, inTx)' = r.new
<1> DEFINE n == r.new
           touched == Touched(c, inTx, id, r)
<1>1. n \in Tables
  BY DEF Results
<1>2. CASE inTx
  <2>1. ws'[c] = [i \in Ids |-> IF i \in touched THEN n[i] ELSE ws[c][i]]
    BY <1>2 DEF Apply, TypeOK
  <2>2. \A i \in Ids : i \notin touched => n[i] = IF ws[c][i] = Untouched THEN rows[i] ELSE ws[c][i]
    BY <1>2 DEF Touched, Base, View
  <2>3. \A i \in Ids : n[i] # Untouched
    BY <1>1, UntouchedAssumption DEF Tables
  <2>4. rows' = rows
    BY <1>2 DEF Apply
  <2> HIDE DEF n, touched
  <2>5. \A i \in Ids : (IF ws'[c][i] = Untouched THEN rows'[i] ELSE ws'[c][i]) = n[i]
    BY <2>1, <2>2, <2>3, <2>4
  <2>6. Base(c, inTx)' = [i \in Ids |-> n[i]]
    BY <1>2, <2>5 DEF Base, View
  <2> QED
    BY <1>1, <2>6 DEF Tables, n
<1>3. CASE ~inTx
  BY <1>3 DEF Apply, Base
<1> QED
  BY <1>2, <1>3

\* The caller's table, before and after the step that returned last'.
LEMMA ReturnedTables ==
  ASSUME NEW c, NEW inTx, last'.by = c, last'.inTx = inTx
  PROVE  Before = Base(c, inTx) /\ After = Base(c, inTx)'
  BY DEF Before, After, Base, View

\* Only Oracle's Insert is ever between two statements.
OnlyOracleWaits == \A c \in Callers : pend[c] # None => db = "oracle"

\* OnlyOracleWaits is an invariant.
LEMMA OracleWaits == Spec => []OnlyOracleWaits
<1>1. Init => OnlyOracleWaits
  BY DEF Init, OnlyOracleWaits
<1>2. TypeOK /\ OnlyOracleWaits /\ [Next]_vars => OnlyOracleWaits'
  <2> SUFFICES ASSUME TypeOK, OnlyOracleWaits, [Next]_vars PROVE OnlyOracleWaits'
    OBVIOUS
  <2>1. ASSUME NEW c \in Callers, NEW inTx \in BOOLEAN, NEW id \in Ids, NEW f \in Writes,
               OracleRejected(c, inTx, id, f)
        PROVE  OnlyOracleWaits'
    BY <2>1 DEF OracleRejected, OnlyOracleWaits
  <2>2. ASSUME NEW c \in Callers, OracleFallback(c) \/ FallbackFails(c)
        PROVE  OnlyOracleWaits'
    BY <2>2 DEF OracleFallback, FallbackFails, Apply, OnlyOracleWaits, TypeOK
  <2>3. CASE UNCHANGED <<db, pend>>
    BY <2>3 DEF OnlyOracleWaits
  <2>4. ASSUME NEW c \in Callers, NEW inTx \in BOOLEAN, NEW id \in Ids, NEW f \in Writes,
               Upsert(c, inTx, id, f) \/ Update(c, inTx, id, f)
        PROVE  UNCHANGED <<db, pend>>
    BY <2>4 DEF Upsert, Update, Apply
  <2>5. ASSUME NEW c \in Callers, NEW inTx \in BOOLEAN, NEW id \in Ids,
               Delete(c, inTx, id) \/ FindByID(c, inTx, id)
        PROVE  UNCHANGED <<db, pend>>
    BY <2>5 DEF Delete, FindByID, Apply
  <2>6. ASSUME NEW c \in Callers, NEW inTx \in BOOLEAN, NEW f \in Keys, FindByKey(c, inTx, f)
        PROVE  UNCHANGED <<db, pend>>
    BY <2>6 DEF FindByKey
  <2>7. ASSUME NEW c \in Callers, NEW call \in Calls, NEW inTx \in BOOLEAN,
               StatementFails(c, call, inTx) \/ Refuse(c, call, inTx)
        PROVE  UNCHANGED <<db, pend>>
    BY <2>7 DEF StatementFails, Refuse
  <2>8. ASSUME NEW c \in Callers, BeginTx(c) \/ CommitTx(c) \/ RollbackTx(c)
        PROVE  UNCHANGED <<db, pend>>
    BY <2>8 DEF BeginTx, CommitTx, RollbackTx, EndTx
  <2>9. CASE UNCHANGED vars
    BY <2>9, <2>3 DEF vars
  <2> QED
    BY <2>1, <2>2, <2>3, <2>4, <2>5, <2>6, <2>7, <2>8, <2>9 DEF Next, Calls
<1> QED
  BY <1>1, <1>2, TypeCorrect, PTL DEF Spec

\* The three things an upsert that returns success may have done.
UpsertEffect ==
  /\ last'.id \in Ids
  /\ \/ db \in Replacing /\ ReplacedRow(Before, last'.id, last'.f, After)
     \/ db \notin Replacing /\ MergedRow(Before, last'.id, last'.f, After)
     \/ db = "oracle" /\ After = Before /\ Before[last'.id] = NoRow

\* An upsert of one statement.
LEMMA UpsertHasEffect ==
  ASSUME TypeOK, NEW c \in Callers, NEW inTx \in BOOLEAN, NEW id \in Ids, NEW f \in Writes,
         Upsert(c, inTx, id, f)
  PROVE  UpsertEffect
<1> DEFINE t == Base(c, inTx)
           r == InsertStatement(db, inTx, t, id, f)
<1>1. f \in Fields /\ t \in Tables /\ db \in SqlAdapters
  BY WritesAssumption, BaseType, AdaptersAssumption DEF TypeOK
<1>2. r \in Results
  BY <1>1, StatementTypes
<1>3. last'.by = c /\ last'.inTx = inTx /\ last'.id = id /\ last'.f = f
  BY DEF Upsert, Returns
<1>4. Apply(c, inTx, id, r)
  BY DEF Upsert
<1> HIDE DEF r
<1>5. Before = t /\ After = r.new /\ r.ok
  <2>1. Before = t /\ After = Base(c, inTx)'
    BY <1>3, ReturnedTables
  <2>2. Base(c, inTx)' = r.new
    BY <1>2, <1>4, AppliedTable
  <2>3. r.ok
    BY <1>4 DEF Apply
  <2> QED
    BY <2>1, <2>2, <2>3
<1> HIDE DEF t
<1>6. CASE db \in Replacing
  <2>1. r.new = ReplaceInto(t, id, f).new
    BY <1>1, <1>6, InsertStatementCases DEF Replacing, r
  <2> QED
    BY <1>1, <1>3, <1>5, <1>6, <2>1, ReplaceEffect DEF UpsertEffect
<1>7. CASE db \notin Replacing
  <2>1. r.new = Put(t, id, Merged(t, id, f))
    <3>1. CASE db = "oracle"
      <4>1. r = InsertOnly(t, id, f)
        BY <1>1, <3>1, InsertStatementCases DEF r
      <4>2. t[id] = NoRow /\ r.new = Put(t, id, Overlay(Blank, f))
        BY <1>5, <4>1 DEF InsertOnly
      <4> QED
        BY <4>2 DEF Merged
    <3>2. CASE db # "oracle"
      <4>1. r = InsertOrMerge(t, id, f)
        BY <1>1, <1>7, <3>2, InsertStatementCases DEF Replacing, r
      <4> QED
        BY <4>1 DEF InsertOrMerge
    <3> QED
      BY <3>1, <3>2
  <2> QED
    BY <1>1, <1>3, <1>5, <1>7, <2>1, MergeEffect DEF UpsertEffect
<1> QED
  BY <1>6, <1>7

\* Oracle's, whose UPDATE finds a row or does not.
LEMMA FallbackHasEffect ==
  ASSUME TypeOK, OnlyOracleWaits, NEW c \in Callers, OracleFallback(c)
  PROVE  UpsertEffect
<1> DEFINE p == pend[c]
           t == Base(c, p.inTx)
           r == UpdateWhere(t, p.id, p.f)
<1>1. p \in Pending /\ db = "oracle"
  BY DEF OracleFallback, TypeOK, OnlyOracleWaits
<1>2. p.inTx \in BOOLEAN /\ p.id \in Ids /\ p.f \in Fields
  BY <1>1, WritesAssumption DEF Pending
<1>3. t \in Tables /\ r \in Results
  BY <1>2, BaseType, UpdateWhereType
<1>4. last'.by = c /\ last'.inTx = p.inTx /\ last'.id = p.id /\ last'.f = p.f
  BY DEF OracleFallback, Returns
<1>5. Before = t /\ After = r.new
  BY <1>2, <1>3, <1>4, AppliedTable, ReturnedTables DEF OracleFallback
<1> HIDE DEF t
<1>6. CASE t[p.id] = NoRow
  <2>1. r.new = t
    BY <1>6 DEF UpdateWhere
  <2> QED
    BY <1>1, <1>2, <1>4, <1>5, <1>6, <2>1 DEF UpsertEffect
<1>7. CASE t[p.id] # NoRow
  <2>1. r.new = Put(t, p.id, Merged(t, p.id, p.f))
    BY <1>7 DEF UpdateWhere
  <2>2. MergedRow(t, p.id, p.f, r.new)
    BY <1>2, <1>3, <2>1, MergeEffect
  <2> QED
    BY <1>1, <1>2, <1>4, <1>5, <2>2 DEF UpsertEffect, Replacing
<1> QED
  BY <1>6, <1>7

\* A step in which a call returns success for an upsert, or false for an
\* update, is a step of that call: nothing else returns these.
LEMMA WhoReturns ==
  ASSUME TypeOK, Next, Returned, ~UNCHANGED vars
  PROVE  /\ last'.call = "Upsert" /\ last'.out = "true" =>
              \E c \in Callers :
                \/ OracleFallback(c)
                \/ \E inTx \in BOOLEAN, id \in Ids, f \in Writes : Upsert(c, inTx, id, f)
         /\ last'.call = "Update" /\ last'.out = "false" =>
              \E c \in Callers, inTx \in BOOLEAN, id \in Ids, f \in Writes : Update(c, inTx, id, f)
<1> DEFINE U == \E c \in Callers :
                  \/ OracleFallback(c)
                  \/ \E inTx \in BOOLEAN, id \in Ids, f \in Writes : Upsert(c, inTx, id, f)
           D == \E c \in Callers, inTx \in BOOLEAN, id \in Ids, f \in Writes : Update(c, inTx, id, f)
           Goal == /\ last'.call = "Upsert" /\ last'.out = "true" => U
                   /\ last'.call = "Update" /\ last'.out = "false" => D
<1> SUFFICES Goal
  OBVIOUS
<1>1. ASSUME NEW c \in Callers, NEW inTx \in BOOLEAN, NEW id \in Ids, NEW f \in Writes,
             Upsert(c, inTx, id, f)
      PROVE  Goal
  <2>1. last'.call = "Upsert" /\ U
    BY <1>1 DEF Upsert, Returns
  <2> HIDE DEF U, D
  <2> QED
    BY <2>1
<1>2. ASSUME NEW c \in Callers, NEW inTx \in BOOLEAN, NEW id \in Ids, NEW f \in Writes,
             Update(c, inTx, id, f)
      PROVE  Goal
  <2>1. last'.call = "Update" /\ D
    BY <1>2 DEF Update, Returns
  <2> HIDE DEF U, D
  <2> QED
    BY <2>1
<1>3. ASSUME NEW c \in Callers, OracleFallback(c)
      PROVE  Goal
  <2>1. last'.call = "Upsert"
    BY <1>3 DEF OracleFallback, Returns
  <2>2. U
    BY <1>3
  <2> HIDE DEF U, D
  <2> QED
    BY <2>1, <2>2
<1> HIDE DEF U, D
<1>4. ASSUME NEW c \in Callers, NEW inTx \in BOOLEAN, NEW id \in Ids, NEW f \in Writes,
             OracleRejected(c, inTx, id, f)
      PROVE  Goal
  <2>1. pend[c] = None /\ pend'[c] = None
    BY <1>4 DEF OracleRejected, Ready, Returned
  <2>2. pend' = pend
    BY <1>4, <2>1 DEF OracleRejected, TypeOK
  <2> QED
    BY <1>4, <2>2 DEF OracleRejected, vars
<1>5. ASSUME NEW c \in Callers, NEW inTx \in BOOLEAN, NEW id \in Ids,
             Delete(c, inTx, id) \/ FindByID(c, inTx, id)
      PROVE  Goal
  <2>1. last'.call \in {"Delete", "Find"}
    BY <1>5 DEF Delete, FindByID, Returns
  <2> QED
    BY <2>1
<1>6. ASSUME NEW c \in Callers, NEW inTx \in BOOLEAN, NEW f \in Keys, FindByKey(c, inTx, f)
      PROVE  Goal
  <2>1. last'.call = "Find"
    BY <1>6 DEF FindByKey, Returns
  <2> QED
    BY <2>1
<1>7. ASSUME NEW c \in Callers, NEW call \in Calls, NEW inTx \in BOOLEAN,
             StatementFails(c, call, inTx) \/ Refuse(c, call, inTx) \/ FallbackFails(c)
      PROVE  Goal
  <2>1. last'.out = "error"
    BY <1>7 DEF StatementFails, Refuse, FallbackFails, Returns
  <2> QED
    BY <2>1
<1>8. ASSUME NEW c \in Callers, BeginTx(c) \/ CommitTx(c) \/ RollbackTx(c)
      PROVE  Goal
  <2>1. last'.call \in {"Begin", "Commit", "Rollback"}
    BY <1>8 DEF BeginTx, CommitTx, RollbackTx, EndTx, Returns
  <2> QED
    BY <2>1
<1> HIDE DEF Goal
<1> QED
  BY <1>1, <1>2, <1>3, <1>4, <1>5, <1>6, <1>7, <1>8 DEF Next, Calls

\* Success of an upsert is one of the three effects.
LEMMA SuccessHasEffect ==
  ASSUME TypeOK, OnlyOracleWaits, Next, UpsertSucceeded, ~UNCHANGED vars
  PROVE  UpsertEffect
  BY WhoReturns, UpsertHasEffect, FallbackHasEffect DEF UpsertSucceeded

\* An acknowledged upsert is stored, with every value that it was given, or
\* is Oracle's and has changed nothing.
THEOREM SuccessStored == Spec => StoredOrIdle
<1>1. ASSUME UpsertEffect
      PROVE  Stored \/ (db = "oracle" /\ After = Before)
  BY <1>1 DEF UpsertEffect, ReplacedRow, MergedRow, Stored, After
<1>2. TypeOK /\ OnlyOracleWaits /\ [Next]_vars =>
        [UpsertSucceeded => Stored \/ (db = "oracle" /\ After = Before)]_vars
  BY <1>1, SuccessHasEffect
<1> QED
  BY <1>2, TypeCorrect, OracleWaits, PTL DEF Spec, StoredOrIdle

\* An upsert takes away no object but its own, or a rival that REPLACE evicts.
THEOREM OnlyRivalsEvicted == Spec => EvictsOnlyRivals
<1> DEFINE Kept == \A i \in Ids \ {last'.id} :
                     \/ After[i] = Before[i]
                     \/ /\ db \in Replacing
                        /\ After[i] = NoRow
                        /\ \E u \in Unique : Before[i][u] # Null /\ Before[i][u] = After[last'.id][u]
<1>1. ASSUME UpsertEffect
      PROVE  Kept
  <2> DEFINE n == After  t == Before
  <2>1. \/ db \in Replacing /\ ReplacedRow(t, last'.id, last'.f, n)
        \/ \A i \in Ids \ {last'.id} : n[i] = t[i]
    BY <1>1 DEF UpsertEffect, MergedRow
  <2> HIDE DEF n, t
  <2>2. \A i \in Ids \ {last'.id} :
          \/ n[i] = t[i]
          \/ db \in Replacing /\ n[i] = NoRow /\ \E u \in Unique : t[i][u] # Null /\ t[i][u] = n[last'.id][u]
    BY <2>1 DEF ReplacedRow
  <2> QED
    BY <2>2 DEF n, t
<1>2. TypeOK /\ OnlyOracleWaits /\ [Next]_vars => [UpsertSucceeded => Kept]_vars
  BY <1>1, SuccessHasEffect
<1> QED
  BY <1>2, TypeCorrect, OracleWaits, PTL DEF Spec, EvictsOnlyRivals

\* The fields that an upsert is not given are all kept, or all reset.
THEOREM OmittedKept == Spec => OmittedFieldsKept
<1> DEFINE Kept == Before[last'.id] # NoRow =>
                     \A x \in Cols \ DOMAIN last'.f :
                       After[last'.id][x] = IF db \in Replacing THEN Null ELSE Before[last'.id][x]
<1>1. ASSUME UpsertEffect
      PROVE  Kept
  <2> DEFINE n == After  t == Before
  <2>1. \/ db \in Replacing /\ ReplacedRow(t, last'.id, last'.f, n)
        \/ db \notin Replacing /\ MergedRow(t, last'.id, last'.f, n)
        \/ t[last'.id] = NoRow
    BY <1>1 DEF UpsertEffect
  <2> HIDE DEF n, t
  <2>2. t[last'.id] # NoRow =>
          \A x \in Cols \ DOMAIN last'.f :
            n[last'.id][x] = IF db \in Replacing THEN Null ELSE t[last'.id][x]
    BY <2>1 DEF ReplacedRow, MergedRow
  <2> QED
    BY <2>2 DEF n, t
<1>2. TypeOK /\ OnlyOracleWaits /\ [Next]_vars =>
        [UpsertSucceeded /\ Before[last'.id] # NoRow =>
           \A x \in Cols \ DOMAIN last'.f :
             After[last'.id][x] = IF db \in Replacing THEN Null ELSE Before[last'.id][x]]_vars
  BY <1>1, SuccessHasEffect
<1> QED
  BY <1>2, TypeCorrect, OracleWaits, PTL DEF Spec, OmittedFieldsKept

\* An update that returns false.
LEMMA FalseUpdate ==
  ASSUME TypeOK, NEW c \in Callers, NEW inTx \in BOOLEAN, NEW id \in Ids, NEW f \in Writes,
         Update(c, inTx, id, f), last'.out = "false"
  PROVE  Before[last'.id] = NoRow \/ Stored
<1> DEFINE t == Base(c, inTx)
           r == UpdateStatement(db, t, id, f)
           w == UpdateWhere(t, id, f)
<1>1. f \in Fields /\ t \in Tables /\ db \in SqlAdapters
  BY WritesAssumption, BaseType, AdaptersAssumption DEF TypeOK
<1>2. r \in Results
  BY <1>1, StatementTypes
<1>3. last'.by = c /\ last'.inTx = inTx /\ last'.id = id /\ last'.f = f
  BY DEF Update, Returns
<1>4. Before = t /\ After = r.new
  BY <1>2, <1>3, AppliedTable, ReturnedTables DEF Update
<1>5. ~r.hit
  BY DEF Update, Returns, Outcomes, Flag
<1> HIDE DEF t
<1>6. ASSUME t[id] # NoRow
      PROVE  Stored
  <2>1. w = [ok |-> Rivals(t, id, Merged(t, id, f)) = {}, hit |-> TRUE, new |-> Put(t, id, Merged(t, id, f))]
    BY <1>6 DEF UpdateWhere
  <2>2. db = "tidb"
    BY <1>1, <1>5, <2>1, UpdateStatementCases
  <2>3. r.new = Put(t, id, Merged(t, id, f))
    BY <1>1, <2>1, <2>2, UpdateStatementCases DEF TiDBUpdate
  <2>4. MergedRow(t, id, f, After)
    BY <1>1, <1>4, <2>3, MergeEffect
  <2> QED
    BY <1>3, <2>4 DEF MergedRow, Stored, After
<1> QED
  BY <1>3, <1>4, <1>6

\* What an update says is not there is not there, or has its values already.
THEOREM FalseUpdateTruthful == Spec => FalseUpdateLosesNothing
<1>1. TypeOK /\ [Next]_vars =>
        [Returned /\ last'.call = "Update" /\ last'.out = "false" =>
           Before[last'.id] = NoRow \/ Stored]_vars
  BY WhoReturns, FalseUpdate
<1> QED
  BY <1>1, TypeCorrect, PTL DEF Spec, FalseUpdateLosesNothing

-----------------------------------------------------------------------------
(* The UNIQUE columns: no interleaving of upserts, evictions, transactions *)
(* and failures gives two committed objects the same unique value.         *)
(*                                                                         *)
(* No statement that the database accepts leaves duplicates in a table     *)
(* that had none.                                                          *)

\* NoDuplicates in terms of Clash.
LEMMA NoDuplicatesClash ==
  ASSUME NEW t
  PROVE  NoDuplicates(t) <=>
           \A i, j \in Ids : i # j /\ t[i] # NoRow /\ t[j] # NoRow => ~Clash(t[i], t[j])
  BY DEF NoDuplicates, Clash

\* Two rows clash whichever is named first.
LEMMA ClashSymmetric ==
  ASSUME NEW r1, NEW r2
  PROVE  Clash(r1, r2) <=> Clash(r2, r1)
  BY DEF Clash

\* A row without rivals may be put into the table ...
LEMMA PutUnique ==
  ASSUME NEW t \in Tables, NoDuplicates(t), NEW id \in Ids,
         NEW row \in Rows, Rivals(t, id, row) = {}
  PROVE  NoDuplicates(Put(t, id, row))
<1>1. \A j \in Ids \ {id} : t[j] # NoRow => ~Clash(row, t[j])
  BY DEF Rivals
<1>2. \A j \in Ids : Put(t, id, row)[j] = IF j = id THEN row ELSE t[j]
  BY DEF Put, Tables
<1> QED
  BY <1>1, <1>2, NoDuplicatesClash, ClashSymmetric

\* ... and a row may always be taken out of it.
LEMMA RemoveUnique ==
  ASSUME NEW t \in Tables, NoDuplicates(t), NEW id \in Ids
  PROVE  NoDuplicates(Put(t, id, NoRow))
<1>1. \A j \in Ids : Put(t, id, NoRow)[j] = IF j = id THEN NoRow ELSE t[j]
  BY DEF Put, Tables
<1> QED
  BY <1>1, NoDuplicatesClash

\* REPLACE makes room for its row.
LEMMA ReplaceUnique ==
  ASSUME NEW t \in Tables, NoDuplicates(t), NEW id \in Ids, NEW f \in Fields
  PROVE  NoDuplicates(ReplaceInto(t, id, f).new)
<1> DEFINE row == Overlay(Blank, f)
           new == ReplaceInto(t, id, f).new
<1>1. \A j \in Ids : new[j] = IF j = id THEN row
                              ELSE IF j \in Rivals(t, id, row) THEN NoRow ELSE t[j]
  BY DEF ReplaceInto
<1>2. \A j \in Ids \ {id} : new[j] # NoRow => new[j] = t[j] /\ ~Clash(row, t[j])
  BY <1>1 DEF Rivals
<1>3. new[id] = row
  BY <1>1
<1> HIDE DEF row, new
<1>4. \A i, j \in Ids : i # j /\ new[i] # NoRow /\ new[j] # NoRow => ~Clash(new[i], new[j])
  BY <1>2, <1>3, NoDuplicatesClash, ClashSymmetric
<1> QED
  BY <1>4, NoDuplicatesClash DEF new

\* The same for the merging insert, which is rejected when the row has rivals ...
LEMMA MergeUnique ==
  ASSUME NEW t \in Tables, NoDuplicates(t), NEW id \in Ids, NEW f \in Fields,
         InsertOrMerge(t, id, f).ok
  PROVE  NoDuplicates(InsertOrMerge(t, id, f).new)
<1>1. Merged(t, id, f) \in Rows
  BY MergedType
<1> QED
  BY <1>1, PutUnique DEF InsertOrMerge

\* ... for the plain INSERT ...
LEMMA InsertOnlyUnique ==
  ASSUME NEW t \in Tables, NoDuplicates(t), NEW id \in Ids, NEW f \in Fields,
         InsertOnly(t, id, f).ok
  PROVE  NoDuplicates(InsertOnly(t, id, f).new)
<1>1. Overlay(Blank, f) \in Rows
  BY OverlayType, BlankType
<1> QED
  BY <1>1, PutUnique DEF InsertOnly

\* ... and for UPDATE.
LEMMA UpdateWhereUnique ==
  ASSUME NEW t \in Tables, NoDuplicates(t), NEW id \in Ids, NEW f \in Fields,
         UpdateWhere(t, id, f).ok
  PROVE  NoDuplicates(UpdateWhere(t, id, f).new)
<1>1. CASE t[id] = NoRow
  BY <1>1 DEF UpdateWhere
<1>2. CASE t[id] # NoRow
  <2>1. Merged(t, id, f) \in Rows
    BY MergedType
  <2> QED
    BY <1>2, <2>1, PutUnique DEF UpdateWhere
<1> QED
  BY <1>1, <1>2

\* Whatever an adapter sends leaves a table without duplicates.
LEMMA StatementsUnique ==
  ASSUME NEW a \in SqlAdapters, NEW inTx \in BOOLEAN,
         NEW t \in Tables, NoDuplicates(t), NEW id \in Ids, NEW f \in Fields
  PROVE  /\ LET r == InsertStatement(a, inTx, t, id, f) IN r.ok => NoDuplicates(r.new)
         /\ LET r == UpdateStatement(a, t, id, f) IN r.ok => NoDuplicates(r.new)
<1>1. LET r == InsertStatement(a, inTx, t, id, f) IN r.ok => NoDuplicates(r.new)
  BY InsertStatementCases, ReplaceUnique, MergeUnique, InsertOnlyUnique
<1>2. /\ TiDBUpdate(t, id, f).ok = UpdateWhere(t, id, f).ok
      /\ TiDBUpdate(t, id, f).new = UpdateWhere(t, id, f).new
  BY DEF TiDBUpdate
<1>3. LET r == UpdateStatement(a, t, id, f) IN r.ok => NoDuplicates(r.new)
  BY <1>2, UpdateStatementCases, UpdateWhereUnique
<1> QED
  BY <1>1, <1>3

-----------------------------------------------------------------------------
(* Steps that change the committed table or the overlay of one caller.     *)

\* What the rest of the invariant says of the data.
Data == UniqueKeys /\ OneWriter /\ ViewsUnique /\ NoPendingClash

\* A call works on a table without duplicates.
LEMMA BaseUnique ==
  ASSUME Data, NEW c \in Callers, NEW inTx \in BOOLEAN
  PROVE  NoDuplicates(Base(c, inTx))
  BY DEF Data, UniqueKeys, ViewsUnique, Base

\* An autocommitted statement: it respects the locks of all transactions.
LEMMA ApplyAutocommit ==
  ASSUME TypeOK, Data, NEW c \in Callers, NEW id \in Ids, NEW r \in Results,
         NoDuplicates(r.new), Apply(c, FALSE, id, r)
  PROVE  Data'
<1>1. /\ rows' = r.new /\ ws' = ws
      /\ rows \in Tables /\ r.new \in Tables
  BY DEF Apply, TypeOK, Results
<1>2. \A d \in Callers : Held(d)' = Held(d)
  BY <1>1 DEF Held
<1>3. \A d \in Callers, i \in Ids : i \notin Held(d) => View(d)[i] = rows[i] /\ View(d)'[i] = r.new[i]
  BY <1>1 DEF Held, View
<1>4. \A d \in Callers, i \in Ids : i \in Held(d) => View(d)[i] = ws[d][i] /\ View(d)'[i] = ws[d][i]
  BY <1>1 DEF Held, View
<1>5. \A d \in Callers, i \in Ids : \A j \in Held(d) :
        r.new[i] # rows[i] /\ r.new[i] # NoRow /\ ws[d][j] # NoRow => ~Clash(r.new[i], ws[d][j])
  BY DEF Apply, MayRun, Touched, Base
<1>6. ASSUME NEW d \in Callers PROVE NoDuplicates(View(d)')
  <2>1. SUFFICES ASSUME NEW i \in Ids, NEW j \in Ids, i # j,
                        View(d)'[i] # NoRow, View(d)'[j] # NoRow
                 PROVE  ~Clash(View(d)'[i], View(d)'[j])
    BY NoDuplicatesClash
  <2>2. \A x, y \in Ids : x # y /\ View(d)[x] # NoRow /\ View(d)[y] # NoRow
                            => ~Clash(View(d)[x], View(d)[y])
    BY NoDuplicatesClash DEF Data, ViewsUnique
  <2>3. CASE i \in Held(d) /\ j \in Held(d)
    BY <2>1, <2>2, <2>3, <1>4
  <2>4. CASE i \notin Held(d) /\ j \notin Held(d)
    BY <2>1, <2>4, <1>3, NoDuplicatesClash
  <2>5. CASE i \notin Held(d) /\ j \in Held(d)
    BY <2>1, <2>2, <2>5, <1>3, <1>4, <1>5
  <2>6. CASE i \in Held(d) /\ j \notin Held(d)
    BY <2>1, <2>2, <2>6, <1>3, <1>4, <1>5, ClashSymmetric
  <2> QED
    BY <2>3, <2>4, <2>5, <2>6
<1>7. UniqueKeys'
  BY <1>1 DEF UniqueKeys
<1>8. OneWriter' /\ NoPendingClash'
  BY <1>1, <1>2 DEF Data, OneWriter, NoPendingClash
<1> QED
  BY <1>6, <1>7, <1>8 DEF Data, ViewsUnique

\* A statement in a transaction: its rows become the transaction's own.
LEMMA ApplyInTx ==
  ASSUME TypeOK, Data, NEW c \in Callers, NEW id \in Ids, NEW r \in Results,
         NoDuplicates(r.new), Apply(c, TRUE, id, r)
  PROVE  Data'
<1> DEFINE touched == Touched(c, TRUE, id, r)
<1>1. /\ rows' = rows
      /\ \A d \in Callers \ {c} : ws'[d] = ws[d]
      /\ \A i \in Ids : ws'[c][i] = IF i \in touched THEN r.new[i] ELSE ws[c][i]
  <2> HIDE DEF touched
  <2>1. ws' = [ws EXCEPT ![c] = [i \in Ids |-> IF i \in touched THEN r.new[i] ELSE ws[c][i]]]
    BY DEF Apply, touched
  <2>2. DOMAIN ws = Callers
    BY DEF TypeOK
  <2>3. ws'[c] = [i \in Ids |-> IF i \in touched THEN r.new[i] ELSE ws[c][i]]
    BY <2>1, <2>2
  <2>4. \A d \in Callers \ {c} : ws'[d] = ws[d]
    BY <2>1, <2>2
  <2>5. rows' = rows
    BY DEF Apply
  <2> QED
    BY <2>3, <2>4, <2>5
<1>2. \A i \in Ids : r.new[i] # Untouched
  BY UntouchedAssumption DEF Results, Tables
<1>3. \A i \in Ids : i \notin touched => r.new[i] = View(c)[i]
  BY DEF Touched, Base
<1>4. Held(c)' = Held(c) \cup touched
  BY <1>1, <1>2 DEF Held, Touched
<1>5. \A d \in Callers \ {c} : Held(d)' = Held(d) /\ View(d)' = View(d)
  BY <1>1 DEF Held, View
<1>6. \A i \in Ids : View(c)'[i] = r.new[i]
  BY <1>1, <1>2, <1>3 DEF View
<1>7. \A d \in Callers \ {c} : \A i \in touched, j \in Held(d) :
        i # j /\ (r.new[i] # NoRow /\ ws[d][j] # NoRow => ~Clash(r.new[i], ws[d][j]))
  BY DEF Apply, MayRun
<1> HIDE DEF touched
<1>8. UniqueKeys'
  BY <1>1 DEF Data, UniqueKeys, NoDuplicates
<1>9. OneWriter'
  BY <1>4, <1>5, <1>7 DEF Data, OneWriter
<1>10. ASSUME NEW d \in Callers PROVE NoDuplicates(View(d)')
  BY <1>5, <1>6 DEF Data, ViewsUnique, NoDuplicates
<1>11. ASSUME NEW d \in Callers \ {c}, NEW i \in Held(c)', NEW j \in Held(d),
              ws'[c][i] # NoRow, ws[d][j] # NoRow
       PROVE  ~Clash(ws'[c][i], ws[d][j])
  <2>1. i \in Ids /\ j \in Ids
    BY DEF Held
  <2>2. CASE i \in touched
    BY <1>1, <1>7, <1>11, <2>1, <2>2
  <2>3. CASE i \notin touched
    BY <1>1, <1>4, <1>11, <2>1, <2>3 DEF Data, NoPendingClash
  <2> QED
    BY <2>2, <2>3
<1>12. NoPendingClash'
  <2>1. SUFFICES ASSUME NEW d \in Callers, NEW e \in Callers, d # e,
                        NEW i \in Held(d)', NEW j \in Held(e)',
                        ws'[d][i] # NoRow, ws'[e][j] # NoRow
                 PROVE  ~Clash(ws'[d][i], ws'[e][j])
    BY DEF NoPendingClash, Clash
  <2>2. CASE d = c
    BY <1>1, <1>5, <1>11, <2>1, <2>2
  <2>3. CASE e = c
    BY <1>1, <1>5, <1>11, <2>1, <2>3, ClashSymmetric
  <2>4. CASE d # c /\ e # c
    BY <1>1, <1>5, <2>1, <2>4 DEF Data, NoPendingClash
  <2> QED
    BY <2>2, <2>3, <2>4
<1> QED
  BY <1>8, <1>9, <1>10, <1>12 DEF Data, ViewsUnique

\* The end of c's overlay, which may become the committed table.
LEMMA EndUnique ==
  ASSUME TypeOK, Data, NEW c \in Callers,
         rows' = rows \/ rows' = View(c), ws' = [ws EXCEPT ![c] = Clean]
  PROVE  Data'
<1>1. /\ Held(c)' = {}
      /\ \A i \in Ids : View(c)'[i] = rows'[i]
  BY DEF Held, View, Clean, TypeOK
<1>2. \A d \in Callers \ {c} : ws'[d] = ws[d] /\ Held(d)' = Held(d)
  BY DEF TypeOK, Held
<1>3. NoDuplicates(rows')
  BY DEF Data, UniqueKeys, ViewsUnique
<1>4. OneWriter' /\ NoPendingClash'
  BY <1>1, <1>2 DEF Data, OneWriter, NoPendingClash, Clash
<1>5. ASSUME NEW d \in Callers \ {c} PROVE NoDuplicates(View(d)')
  <2>1. CASE rows' = rows
    <3>1. View(d)' = View(d)
      BY <1>2, <2>1 DEF View
    <3> QED
      BY <3>1 DEF Data, ViewsUnique
  <2>2. CASE rows' = View(c)
    <3>1. \A i \in Held(d) : View(d)'[i] = ws[d][i] /\ View(d)[i] = ws[d][i]
      BY <1>2 DEF View, Held
    <3>2. \A i \in Ids \ Held(d) : View(d)'[i] = View(c)[i]
      BY <1>2, <2>2 DEF View, Held
    <3>3. \A i \in Ids \ Held(d) : View(d)[i] = rows[i]
      BY DEF View, Held
    <3>4. \A i \in Ids : i \notin Held(c) => View(c)[i] = rows[i]
      BY DEF View, Held
    <3>5. \A i \in Held(c) : View(c)[i] = ws[c][i]
      BY DEF View, Held
    <3>6. /\ \A x, y \in Ids : x # y /\ View(c)[x] # NoRow /\ View(c)[y] # NoRow
                                => ~Clash(View(c)[x], View(c)[y])
          /\ \A x, y \in Ids : x # y /\ View(d)[x] # NoRow /\ View(d)[y] # NoRow
                                => ~Clash(View(d)[x], View(d)[y])
      BY NoDuplicatesClash DEF Data, ViewsUnique
    \* A row of d's and one that it now reads from the table c committed.
    <3>7. ASSUME NEW i \in Held(d), NEW j \in Ids \ Held(d),
                 View(d)'[i] # NoRow, View(d)'[j] # NoRow
          PROVE  ~Clash(View(d)'[i], View(d)'[j])
      <4>1. i \in Ids /\ i # j
        BY DEF Held
      <4>2. CASE j \in Held(c)
        BY <3>1, <3>2, <3>5, <3>7, <4>2, ClashSymmetric DEF Data, NoPendingClash
      <4>3. CASE j \notin Held(c)
        BY <3>1, <3>2, <3>3, <3>4, <3>6, <3>7, <4>1, <4>3
      <4> QED
        BY <4>2, <4>3
    <3>8. SUFFICES ASSUME NEW i \in Ids, NEW j \in Ids, i # j,
                          View(d)'[i] # NoRow, View(d)'[j] # NoRow
                   PROVE  ~Clash(View(d)'[i], View(d)'[j])
      BY NoDuplicatesClash
    <3>9. CASE i \in Held(d) /\ j \in Held(d)
      BY <3>1, <3>6, <3>8, <3>9
    <3>10. CASE i \notin Held(d) /\ j \notin Held(d)
      BY <3>2, <3>6, <3>8, <3>10
    <3>11. CASE i \in Held(d) /\ j \notin Held(d)
      BY <3>7, <3>8, <3>11
    <3>12. CASE i \notin Held(d) /\ j \in Held(d)
      BY <3>7, <3>8, <3>12, ClashSymmetric
    <3> QED
      BY <3>9, <3>10, <3>11, <3>12
  <2> QED
    BY <2>1, <2>2
<1>6. NoDuplicates(View(c)')
  BY <1>1, <1>3 DEF NoDuplicates
<1> QED
  BY <1>3, <1>4, <1>5, <1>6 DEF Data, UniqueKeys, ViewsUnique

\* A step that leaves rows and writes alone keeps what is said of them.
LEMMA SameUnique ==
  ASSUME Data, rows' = rows, ws' = ws
  PROVE  Data'
  BY DEF Data, UniqueKeys, ViewsUnique, View, OneWriter, NoPendingClash, Held, NoDuplicates, Clash

-----------------------------------------------------------------------------
(* The inductive invariant.                                                *)

\* A statement in or out of a transaction.
LEMMA ApplyUnique ==
  ASSUME TypeOK, Data, NEW c \in Callers, NEW inTx \in BOOLEAN, NEW id \in Ids,
         NEW r \in Results, r.ok => NoDuplicates(r.new), Apply(c, inTx, id, r)
  PROVE  Data'
<1>1. NoDuplicates(r.new)
  BY DEF Apply
<1> QED
  BY <1>1, ApplyAutocommit, ApplyInTx

\* What the invariant says of the transactions: only c, which has an active
\* one when it runs a statement there, changes its overlay.
Transactions == NothingLeft /\ PendingInTx

\* A statement leaves the state of every transaction alone ...
LEMMA ApplyTransactions ==
  ASSUME TypeOK, Transactions, NEW c \in Callers, NEW inTx \in BOOLEAN, NEW id, NEW r,
         Apply(c, inTx, id, r), inTx => tx[c] = "active",
         pend' = pend \/ pend' = [pend EXCEPT ![c] = None]
  PROVE  Transactions'
<1>1. \A d \in Callers : pend'[d] # None => pend'[d] = pend[d]
  BY DEF TypeOK
<1>2. tx' = tx /\ (\A d \in Callers : ws'[d] # ws[d] => tx[d] = "active")
  BY DEF Apply, TypeOK
<1> QED
  BY <1>1, <1>2 DEF Transactions, NothingLeft, PendingInTx, Clean

\* ... and the end of one leaves it clean.
LEMMA EndTransactions ==
  ASSUME TypeOK, Transactions, NEW c \in Callers,
         ws' = [ws EXCEPT ![c] = Clean], NEW state, tx' = [tx EXCEPT ![c] = state],
         \/ pend[c] = None /\ pend' = pend
         \/ pend' = [pend EXCEPT ![c] = None]
  PROVE  Transactions'
<1>1. \A d \in Callers \ {c} : tx'[d] = tx[d] /\ ws'[d] = ws[d] /\ pend'[d] = pend[d]
  BY DEF TypeOK
<1>2. ws'[c] = Clean /\ pend'[c] = None
  BY DEF TypeOK
<1>3. Clean' = Clean
  BY DEF Clean
<1> QED
  BY <1>1, <1>2, <1>3 DEF Transactions, NothingLeft, PendingInTx

\* A failed statement, which may cost c its transaction.
LEMMA AfterErrorInvariant ==
  ASSUME TypeOK, Data, Transactions, NEW c \in Callers, NEW inTx \in BOOLEAN,
         AfterError(c, inTx), rows' = rows,
         \/ pend[c] = None /\ pend' = pend
         \/ pend' = [pend EXCEPT ![c] = None]
  PROVE  Data' /\ Transactions'
<1>1. CASE ws' = ws /\ tx' = tx
  <2>1. \A d \in Callers : pend'[d] # None => pend'[d] = pend[d]
    BY DEF TypeOK
  <2> QED
    BY <1>1, <2>1, SameUnique DEF Transactions, NothingLeft, PendingInTx, Clean
<1>2. CASE ws' = [ws EXCEPT ![c] = Clean] /\ tx' = [tx EXCEPT ![c] = "aborted"]
  BY <1>2, EndUnique, EndTransactions
<1> QED
  BY <1>1, <1>2 DEF AfterError

\* CommitTx and RollbackTx keep the whole invariant.
LEMMA EndTxInvariant ==
  ASSUME TypeOK, Data, Transactions, NEW c \in Callers, NEW call, NEW out,
         NEW table \in {rows, View(c)}, EndTx(c, call, table, out)
  PROVE  Data' /\ Transactions'
  BY EndUnique, EndTransactions DEF EndTx

\* The invariant is what it says of the data and of the transactions.
LEMMA IInvParts == IInv <=> Data /\ Transactions
  BY DEF IInv, Data, Transactions

\* It holds at the start, over an empty table.
LEMMA InitInvariant == Init => IInv
<1> SUFFICES ASSUME Init PROVE Data /\ Transactions
  BY IInvParts
<1>1. \A c \in Callers : Held(c) = {} /\ \A i \in Ids : View(c)[i] = NoRow
  BY DEF Init, Held, View, Clean
<1> QED
  BY <1>1 DEF Init, Data, Transactions, UniqueKeys, OneWriter, ViewsUnique,
              NoPendingClash, NothingLeft, PendingInTx, NoDuplicates

\* Every action keeps it.
LEMMA NextInvariant == TypeOK /\ IInv /\ [Next]_vars => IInv'
<1> SUFFICES ASSUME TypeOK, Data, Transactions, [Next]_vars PROVE Data' /\ Transactions'
  BY IInvParts DEF IInv, Data, Transactions
<1>0. db \in SqlAdapters /\ Writes \subseteq Fields
  BY AdaptersAssumption, WritesAssumption DEF TypeOK
<1>1. ASSUME NEW c \in Callers, NEW inTx \in BOOLEAN, NEW id \in Ids, NEW f \in Writes,
             Upsert(c, inTx, id, f)
      PROVE  Data' /\ Transactions'
  <2> DEFINE r == InsertStatement(db, inTx, Base(c, inTx), id, f)
  <2>1. r \in Results /\ (r.ok => NoDuplicates(r.new))
    BY <1>0, BaseType, BaseUnique, StatementTypes, StatementsUnique
  <2>2. Apply(c, inTx, id, r) /\ (inTx => tx[c] = "active") /\ pend' = pend
    BY <1>1 DEF Upsert, Ready
  <2> QED
    BY <2>1, <2>2, ApplyUnique, ApplyTransactions
<1>2. ASSUME NEW c \in Callers, NEW inTx \in BOOLEAN, NEW id \in Ids, NEW f \in Writes,
             OracleRejected(c, inTx, id, f)
      PROVE  Data' /\ Transactions'
  <2>1. PendingInTx'
    BY <1>2 DEF OracleRejected, Ready, TypeOK, Transactions, PendingInTx
  <2> QED
    BY <1>2, <2>1, SameUnique DEF OracleRejected, Transactions, NothingLeft, Clean
<1>3. ASSUME NEW c \in Callers, OracleFallback(c)
      PROVE  Data' /\ Transactions'
  <2> DEFINE p == pend[c]
             r == UpdateWhere(Base(c, p.inTx), p.id, p.f)
  <2>1. p.inTx \in BOOLEAN /\ p.id \in Ids /\ p.f \in Fields
    BY <1>0, <1>3 DEF OracleFallback, TypeOK, Pending
  <2>2. r \in Results /\ (r.ok => NoDuplicates(r.new))
    BY <2>1, BaseType, BaseUnique, UpdateWhereType, UpdateWhereUnique
  <2>3. Apply(c, p.inTx, p.id, r) /\ (p.inTx => tx[c] = "active")
        /\ pend' = [pend EXCEPT ![c] = None]
    BY <1>3 DEF OracleFallback, Transactions, PendingInTx
  <2> QED
    BY <2>1, <2>2, <2>3, ApplyUnique, ApplyTransactions
<1>4. ASSUME NEW c \in Callers, NEW inTx \in BOOLEAN, NEW id \in Ids, NEW f \in Writes,
             Update(c, inTx, id, f)
      PROVE  Data' /\ Transactions'
  <2> DEFINE r == UpdateStatement(db, Base(c, inTx), id, f)
  <2>1. r \in Results /\ (r.ok => NoDuplicates(r.new))
    BY <1>0, BaseType, BaseUnique, StatementTypes, StatementsUnique
  <2>2. Apply(c, inTx, id, r) /\ (inTx => tx[c] = "active") /\ pend' = pend
    BY <1>4 DEF Update, Ready
  <2> QED
    BY <2>1, <2>2, ApplyUnique, ApplyTransactions
<1>5. ASSUME NEW c \in Callers, NEW inTx \in BOOLEAN, NEW id \in Ids, Delete(c, inTx, id)
      PROVE  Data' /\ Transactions'
  <2> DEFINE r == DeleteWhere(Base(c, inTx), id)
  <2>1. r \in Results /\ NoDuplicates(r.new)
    BY BaseType, BaseUnique, DeleteWhereType, RemoveUnique DEF DeleteWhere
  <2>2. Apply(c, inTx, id, r) /\ (inTx => tx[c] = "active") /\ pend' = pend
    BY <1>5 DEF Delete, Ready
  <2> QED
    BY <2>1, <2>2, ApplyUnique, ApplyTransactions
<1>6. ASSUME UNCHANGED <<rows, ws, tx, pend>>
      PROVE  Data' /\ Transactions'
  BY <1>6, SameUnique DEF Transactions, NothingLeft, PendingInTx, Clean
<1>7. ASSUME NEW c \in Callers, NEW call \in Statements, NEW inTx \in BOOLEAN,
             StatementFails(c, call, inTx)
      PROVE  Data' /\ Transactions'
  BY <1>7, AfterErrorInvariant DEF StatementFails, Ready
<1>8. ASSUME NEW c \in Callers, FallbackFails(c)
      PROVE  Data' /\ Transactions'
  <2>1. pend[c].inTx \in BOOLEAN
    BY <1>8 DEF FallbackFails, TypeOK, Pending
  <2> QED
    BY <1>8, <2>1, AfterErrorInvariant DEF FallbackFails
<1>9. ASSUME NEW c \in Callers, BeginTx(c)
      PROVE  Data' /\ Transactions'
  BY <1>9, SameUnique DEF BeginTx, TypeOK, Transactions, NothingLeft, PendingInTx, Clean
<1>10. ASSUME NEW c \in Callers, CommitTx(c) \/ RollbackTx(c)
       PROVE  Data' /\ Transactions'
  BY <1>10, EndTxInvariant DEF CommitTx, RollbackTx
<1>11. ASSUME NEW c \in Callers, NEW inTx \in BOOLEAN,
              \/ \E id \in Ids : FindByID(c, inTx, id)
              \/ \E f \in Keys \ {NoFields} : FindByKey(c, inTx, f)
              \/ \E call \in Calls : Refuse(c, call, inTx)
       PROVE  Data' /\ Transactions'
  BY <1>6, <1>11 DEF FindByID, FindByKey, Refuse
<1>12. CASE UNCHANGED vars
  BY <1>6, <1>12 DEF vars
<1> QED
  BY <1>1, <1>2, <1>3, <1>4, <1>5, <1>7, <1>8, <1>9, <1>10, <1>11, <1>12 DEF Next

\* The inductive invariant behind UniqueKeys, which TLC checks on two
\* callers.
THEOREM UniqueInvariant == Spec => []IInv
  BY InitInvariant, NextInvariant, TypeCorrect, PTL DEF Spec

\* No two committed objects ever share the value of a UNIQUE column, whichever
\* adapters, callers, ids and columns there are.
THEOREM UniqueKept == Spec => []UniqueKeys
<1>1. IInv => UniqueKeys
  BY DEF IInv
<1> QED
  BY <1>1, UniqueInvariant, PTL

-----------------------------------------------------------------------------
(* The contract: every step of any adapter is a step of StorageContract or *)
(* one of the four departures, and the adapters keep the contract where no *)
(* departure can happen.                                                   *)

-----------------------------------------------------------------------------
(* The contract's copies of the definitions it shares with SqlStorage.     *)

\* The contract writes rows and tables as the statements do.
LEMMA SameData ==
  /\ \A row, f : Contract!Overlay(row, f) = Overlay(row, f)
  /\ \A t, id, row : Contract!Put(t, id, row) = Put(t, id, row)
  /\ \A t, id, f : Contract!Merged(t, id, f) = Merged(t, id, f)
  /\ Contract!Clean = Clean
  BY DEF Contract!Overlay, Overlay, Contract!Put, Put, Contract!Merged, Merged,
         Contract!Blank, Blank, Contract!Clean, Clean

\* Adapter and contract record the same events.
LEMMA SameEvents == Contract!Events = Events
  BY DEF Contract!Events, Events, Contract!Calls, Calls, Statements, Contract!Fields, Fields,
         Contract!Rows, Rows, Contract!Values, Values

\* What a call sees is the same table in both.
LEMMA SameViews ==
  ASSUME NEW c, NEW inTx
  PROVE  /\ Contract!View(c) = View(c)
         /\ Contract!Base(c, inTx) = Base(c, inTx)
  BY DEF Contract!View, View, Contract!Base, Base

-----------------------------------------------------------------------------
(* Statements as steps of the contract.                                    *)

\* A statement that leaves row under id, and touches no other.
LEMMA ApplyWrites ==
  ASSUME TypeOK, NEW c \in Callers, NEW inTx \in BOOLEAN, NEW id \in Ids,
         NEW r \in Results, NEW row \in Rows \cup {NoRow},
         r.hit, r.new = Put(Base(c, inTx), id, row),
         Apply(c, inTx, id, r), inTx => tx[c] = "active",
         NEW e, e.by = c, e.inTx = inTx, e.id = id
  PROVE  Contract!Writing(e, row)
<1>1. Base(c, inTx) \in Tables
  BY BaseType
<1>2. \A i \in Ids : r.new[i] = IF i = id THEN row ELSE Base(c, inTx)[i]
  BY <1>1 DEF Put, Tables
<1>3. Touched(c, inTx, id, r) = {id}
  BY <1>2 DEF Touched
<1>4. CASE inTx
  <2> DEFINE over == [i \in Ids |-> IF i = id THEN row ELSE ws[c][i]]
  <2>1. [i \in Ids |-> IF i \in Touched(c, inTx, id, r) THEN r.new[i] ELSE ws[c][i]] = over
    BY <1>2, <1>3
  <2>2. ws' = [ws EXCEPT ![c] = over]
    BY <1>4, <2>1 DEF Apply
  <2>3. over = [ws[c] EXCEPT ![id] = row]
    BY DEF TypeOK
  <2>4. ws' = [ws EXCEPT ![c][id] = row]
    BY <2>2, <2>3
  <2> QED
    BY <1>4, <2>4 DEF Apply, Contract!Writing, Contract!InOpenTx
<1>5. CASE ~inTx
  <2>1. rows' = Contract!Put(rows, id, row)
    BY <1>5, SameData DEF Apply, Base
  <2> QED
    BY <1>5, <2>1 DEF Apply, Contract!Writing, Contract!InOpenTx
<1> QED
  BY <1>4, <1>5

\* A statement that finds no row to change.
LEMMA ApplyReads ==
  ASSUME TypeOK, NEW c \in Callers, NEW inTx \in BOOLEAN, NEW id \in Ids,
         NEW r \in Results, ~r.hit, r.new = Base(c, inTx),
         Apply(c, inTx, id, r), inTx => tx[c] = "active",
         NEW e, e.by = c, e.inTx = inTx
  PROVE  Contract!Reading(e)
<1>1. Touched(c, inTx, id, r) = {}
  BY DEF Touched
<1>2. CASE inTx
  <2>1. ws' = [ws EXCEPT ![c] = [i \in Ids |-> ws[c][i]]]
    BY <1>1, <1>2 DEF Apply
  <2>2. [i \in Ids |-> ws[c][i]] = ws[c]
    BY DEF TypeOK
  <2>3. ws' = ws
    BY <2>1, <2>2 DEF TypeOK
  <2> QED
    BY <1>2, <2>3 DEF Apply, Contract!Reading, Contract!InOpenTx
<1>3. CASE ~inTx
  BY <1>3 DEF Apply, Base, Contract!Reading, Contract!InOpenTx
<1> QED
  BY <1>2, <1>3

\* The outcome of a call that has returned is what the contract allows.
LEMMA ReturnedOutcome ==
  ASSUME NEW inTx \in BOOLEAN, NEW out, NEW e, e.inTx = inTx, e.out \in Outcomes(inTx, out)
  PROVE  Contract!Outcome(e, out)
  BY DEF Outcomes, Contract!Outcome

\* What Returns says of last', field by field.
LEMMA ReturnedFields ==
  ASSUME NEW c, NEW call, NEW inTx, NEW id, NEW f, NEW out, NEW got,
         Returns(c, call, inTx, id, f, out, got)
  PROVE  /\ last'.by = c /\ last'.call = call /\ last'.inTx = inTx /\ last'.id = id
         /\ last'.f = f /\ last'.out = out /\ last'.got = got
  BY DEF Returns

\* Deleting a row that is not there leaves the table as it is.
LEMMA DeleteNothing ==
  ASSUME NEW t \in Tables, NEW id \in Ids, t[id] = NoRow
  PROVE  Put(t, id, NoRow) = t
  BY DEF Put, Tables

-----------------------------------------------------------------------------
(* Each action, as a step of the contract.                                 *)

\* An upsert whose statement leaves the merged row is one Upsert of the contract.
LEMMA MergingStep ==
  ASSUME TypeOK, NEW c \in Callers, NEW inTx \in BOOLEAN, NEW id \in Ids, NEW f \in Writes,
         NEW r \in Results, r.hit, r.new = Put(Base(c, inTx), id, Merged(Base(c, inTx), id, f)),
         Apply(c, inTx, id, r), inTx => tx[c] = "active",
         NEW out \in Outcomes(inTx, "true"), Returns(c, "Upsert", inTx, id, f, out, NoRow)
  PROVE  Contract!Next
<1> DEFINE row == Merged(Base(c, inTx), id, f)
<1>1. f \in Fields /\ row \in Rows
  BY WritesAssumption, BaseType, MergedType
<1>2. last' \in Contract!Events
  BY <1>1, ReturnsType, SameEvents DEF Outcomes, Calls, Statements
<1>3. Contract!Writing(last', row)
  BY <1>1, ReturnedFields, ApplyWrites
<1>4. row = Contract!Merged(Contract!Sees(last'), id, f)
  BY ReturnedFields, SameData, SameViews DEF Contract!Sees
<1>5. Contract!Upsert(last')
  BY <1>3, <1>4, ReturnedFields, ReturnedOutcome DEF Contract!Upsert
<1> QED
  BY <1>2, <1>5 DEF Contract!Next, Contract!Step

\* Insert and Upsert: all adapters merge, but for those that replace the row.
\* Oracle's INSERT is accepted only where there is nothing to merge with.
LEMMA UpsertStep ==
  ASSUME TypeOK, NEW c \in Callers, NEW inTx \in BOOLEAN, NEW id \in Ids, NEW f \in Writes,
         Upsert(c, inTx, id, f)
  PROVE  Contract!Next \/ Departs
<1> DEFINE t == Base(c, inTx)
           r == InsertStatement(db, inTx, t, id, f)
           row == Merged(t, id, f)
<1>1. f \in Fields /\ t \in Tables /\ db \in SqlAdapters
  BY WritesAssumption, BaseType, AdaptersAssumption DEF TypeOK
<1>2. r \in Results /\ r.hit /\ r.ok
  BY <1>1, StatementTypes, InsertStatementCases
  DEF Upsert, Apply, ReplaceInto, InsertOnly, InsertOrMerge
<1>3. PICK out \in Outcomes(inTx, "true") : Returns(c, "Upsert", inTx, id, f, out, NoRow)
  BY DEF Upsert
<1>4. Apply(c, inTx, id, r) /\ (inTx => tx[c] = "active")
  BY DEF Upsert, Ready
<1>5. CASE r.new = Put(t, id, row)
  BY <1>2, <1>3, <1>4, <1>5, MergingStep
<1>6. CASE db \notin Replacing
  <2>1. CASE db = "oracle"
    <3>1. r = InsertOnly(t, id, f)
      BY <1>1, <2>1, InsertStatementCases
    <3>2. InsertOnly(t, id, f).new = Put(t, id, Overlay(Blank, f))
      BY DEF InsertOnly
    <3>3. InsertOnly(t, id, f).ok => t[id] = NoRow
      BY DEF InsertOnly
    <3>4. row = Overlay(Blank, f)
      BY <1>2, <3>1, <3>3 DEF Merged
    <3> QED
      BY <1>5, <3>1, <3>2, <3>4
  <2>2. CASE db # "oracle"
    <3>1. r = InsertOrMerge(t, id, f)
      BY <1>1, <1>6, <2>2, InsertStatementCases DEF Replacing
    <3> QED
      BY <1>5, <3>1 DEF InsertOrMerge
  <2> QED
    BY <2>1, <2>2
<1>7. CASE db \in Replacing /\ r.new # Put(t, id, row)
  <2>1. last' \in Events
    BY <1>1, <1>3, ReturnsType DEF Outcomes, Calls, Statements
  <2>2. last'.by = c /\ last'.inTx = inTx /\ last'.call = "Upsert" /\ last'.id = id /\ last'.f = f
    BY <1>3, ReturnedFields
  <2>3. Before = t /\ After = r.new
    BY <1>2, <1>4, <2>2, AppliedTable, ReturnedTables
  <2>4. r = ReplaceInto(t, id, f)
    BY <1>1, <1>7, InsertStatementCases DEF Replacing
  <2>5. Replaces
    BY <1>7, <2>2, <2>3, <2>4 DEF Replaces
  <2> QED
    BY <2>1, <2>5 DEF Departs
<1> QED
  BY <1>5, <1>6, <1>7

\* An error that leaves everything as it is.
LEMMA ErrorStep ==
  ASSUME last' \in Events, last'.out = "error", UNCHANGED <<rows, ws, tx>>
  PROVE  Contract!Next
  BY SameEvents DEF Contract!NoEffect, Contract!Next, Contract!Step

\* The second statement of Oracle's Insert merges, or finds no row.
LEMMA FallbackStep ==
  ASSUME TypeOK, PendingInTx, OnlyOracleWaits, NEW c \in Callers, OracleFallback(c)
  PROVE  Contract!Next \/ Departs
<1> DEFINE p == pend[c]
           t == Base(c, p.inTx)
           r == UpdateWhere(t, p.id, p.f)
<1>1. pend[c] # None /\ p.inTx \in BOOLEAN /\ p.id \in Ids /\ p.f \in Writes
  BY DEF OracleFallback, TypeOK, Pending
<1>2. p.f \in Fields /\ t \in Tables /\ db = "oracle"
  BY <1>1, WritesAssumption, BaseType DEF OnlyOracleWaits
<1>3. r \in Results
  BY <1>1, <1>2, UpdateWhereType
<1>4. Apply(c, p.inTx, p.id, r) /\ (p.inTx => tx[c] = "active")
  BY <1>1 DEF OracleFallback, PendingInTx
<1>5. PICK out \in Outcomes(p.inTx, "true") :
        Returns(c, "Upsert", p.inTx, p.id, p.f, out, NoRow)
  BY DEF OracleFallback
<1> HIDE DEF p
<1>6. CASE t[p.id] # NoRow
  <2>1. r.hit /\ r.new = Put(t, p.id, Merged(t, p.id, p.f))
    BY <1>6 DEF UpdateWhere
  <2> QED
    BY <1>1, <1>3, <1>4, <1>5, <2>1, MergingStep
<1>7. CASE t[p.id] = NoRow
  <2>1. ~r.hit /\ r.new = t
    BY <1>7 DEF UpdateWhere
  <2>2. /\ last'.by = c /\ last'.inTx = p.inTx /\ last'.call = "Upsert" /\ last'.id = p.id
        /\ last'.out = out
    BY <1>5, ReturnedFields
  <2>3. Contract!Reading(last')
    BY <1>1, <1>3, <1>4, <2>1, <2>2, ApplyReads
  <2>4. UNCHANGED <<rows, ws, tx>>
    BY <2>3 DEF Contract!Reading
  <2>5. last' \in Events
    BY <1>1, <1>2, <1>5, ReturnsType DEF Outcomes, Calls, Statements
  <2>6. CASE out = "error"
    BY <2>2, <2>4, <2>5, <2>6, ErrorStep
  <2>7. CASE out = "true"
    <3>1. Before[last'.id] = NoRow
      BY <1>7, <2>2, ReturnedTables
    <3>2. StoresNothing
      BY <1>1, <1>2, <2>2, <2>4, <2>7, <3>1 DEF StoresNothing, p
    <3> QED
      BY <2>5, <3>2 DEF Departs
  <2> QED
    BY <2>6, <2>7 DEF Outcomes
<1> QED
  BY <1>6, <1>7

\* An Update that finds the row is an Update of the contract, another one a Miss;
\* but TiDB's of a row that it leaves as it was is neither.
LEMMA UpdateStep ==
  ASSUME TypeOK, NEW c \in Callers, NEW inTx \in BOOLEAN, NEW id \in Ids, NEW f \in Writes,
         Update(c, inTx, id, f)
  PROVE  Contract!Next \/ Departs
<1> DEFINE t == Base(c, inTx)
           r == UpdateStatement(db, t, id, f)
           row == Merged(t, id, f)
<1>1. f \in Fields /\ t \in Tables /\ row \in Rows /\ db \in SqlAdapters
  BY WritesAssumption, BaseType, MergedType, AdaptersAssumption DEF TypeOK
<1>2. /\ r.new = IF t[id] = NoRow THEN t ELSE Put(t, id, row)
      /\ db = "tidb" => (r.hit <=> r.new # t)
      /\ db # "tidb" => (r.hit <=> t[id] # NoRow)
  <2>1. UpdateWhere(t, id, f).new = IF t[id] = NoRow THEN t ELSE Put(t, id, row)
    BY DEF UpdateWhere
  <2>2. UpdateWhere(t, id, f).hit <=> t[id] # NoRow
    BY DEF UpdateWhere
  <2>3. CASE db = "tidb"
    <3>1. r = TiDBUpdate(t, id, f)
      BY <1>1, <2>3, UpdateStatementCases
    <3>2. /\ TiDBUpdate(t, id, f).new = UpdateWhere(t, id, f).new
          /\ TiDBUpdate(t, id, f).hit <=> UpdateWhere(t, id, f).new # t
      BY DEF TiDBUpdate
    <3> HIDE DEF r
    <3> QED
      BY <2>1, <2>3, <3>1, <3>2
  <2>4. CASE db # "tidb"
    <3>1. r = UpdateWhere(t, id, f)
      BY <1>1, <2>4, UpdateStatementCases
    <3> HIDE DEF r
    <3> QED
      BY <2>1, <2>2, <2>4, <3>1
  <2> QED
    BY <2>3, <2>4
<1>3. r \in Results
  BY <1>1, StatementTypes
<1>4. PICK out \in Outcomes(inTx, Flag(r.hit)) : Returns(c, "Update", inTx, id, f, out, NoRow)
  BY DEF Update
<1>5. last' \in Events
  BY <1>1, <1>4, ReturnsType DEF Outcomes, Flag, Calls, Statements
<1>6. Contract!Sees(last') = t
  BY <1>4, ReturnedFields, SameViews DEF Contract!Sees
<1>7. /\ last'.by = c /\ last'.call = "Update" /\ last'.id = id /\ last'.f = f
      /\ last'.inTx = inTx /\ last'.out = out
  BY <1>4, ReturnedFields
<1>8. Apply(c, inTx, id, r) /\ (inTx => tx[c] = "active")
  BY DEF Update, Ready
<1> HIDE DEF t, r, row
<1>9. CASE r.hit
  <2>1. t[id] # NoRow /\ r.new = Put(t, id, row) /\ out \in Outcomes(inTx, "true")
    BY <1>2, <1>4, <1>9 DEF Flag
  <2>2. Contract!Writing(last', row)
    BY <1>1, <1>3, <1>7, <1>8, <1>9, <2>1, ApplyWrites DEF t
  <2>3. Contract!Outcome(last', "true")
    BY <1>7, <2>1, ReturnedOutcome
  <2>4. Contract!Merged(Contract!Sees(last'), last'.id, last'.f) = row
    BY <1>6, <1>7, SameData DEF row
  <2>5. Contract!Update(last')
    BY <1>6, <1>7, <2>1, <2>2, <2>3, <2>4 DEF Contract!Update
  <2> QED
    BY <1>5, <2>5, SameEvents DEF Contract!Next, Contract!Step
<1>10. CASE ~r.hit
  <2>1. r.new = t /\ out \in Outcomes(inTx, "false")
    BY <1>2, <1>4, <1>10 DEF Flag
  <2>2. Contract!Reading(last')
    BY <1>3, <1>7, <1>8, <1>10, <2>1, ApplyReads DEF t
  <2>3. UNCHANGED <<rows, ws, tx>>
    BY <2>2 DEF Contract!Reading
  <2>4. CASE t[id] = NoRow
    <3>1. Contract!Outcome(last', "false")
      BY <1>7, <2>1, ReturnedOutcome
    <3>2. Contract!Miss(last')
      BY <1>6, <1>7, <2>2, <2>4, <3>1 DEF Contract!Miss
    <3> QED
      BY <1>5, <3>2, SameEvents DEF Contract!Next, Contract!Step
  <2>5. CASE t[id] # NoRow /\ out = "error"
    BY <1>5, <1>7, <2>3, <2>5, ErrorStep
  <2>6. CASE t[id] # NoRow /\ out = "false"
    <3>1. db = "tidb" /\ t = Put(t, id, row)
      BY <1>2, <1>10, <2>1, <2>6
    <3>2. \A x \in DOMAIN f : t[id][x] = f[x]
      BY <1>1, <3>1, MergeEffect DEF MergedRow, row
    <3>3. Before = t
      BY <1>7, ReturnedTables DEF t
    <3>4. DeniesUpdate
      BY <1>7, <2>3, <2>6, <3>1, <3>2, <3>3 DEF DeniesUpdate
    <3> QED
      BY <1>5, <3>4 DEF Departs
  <2> QED
    BY <2>1, <2>4, <2>5, <2>6 DEF Outcomes
<1> QED
  BY <1>3, <1>9, <1>10 DEF Results

\* A find that returns an object: the one of the row, or Yugabyte's blank one.
LEMMA FoundStep ==
  ASSUME TypeOK, NEW c \in Callers, NEW inTx \in BOOLEAN, NEW i \in Ids, NEW f \in Fields,
         Base(c, inTx)[i] # NoRow, \A x \in DOMAIN f : Base(c, inTx)[i][x] = f[x],
         UNCHANGED <<rows, ws, tx>>, inTx => tx[c] = "active",
         Returns(c, "Find", inTx, ScannedID(db, i, None), f, "true",
                 ScannedRow(db, Base(c, inTx)[i]))
  PROVE  Contract!Next \/ Departs
<1> DEFINE row == Base(c, inTx)[i]
<1>1. row \in Rows /\ Blank \in Rows
  BY BaseType, BlankType DEF Tables
<1>2. last' \in Events
  BY <1>1, ReturnsType DEF ScannedRow, ScannedID, Calls, Statements
<1>3. CASE db = "yugabyte"
  <2>1. last'.call = "Find" /\ last'.out = "true" /\ last'.id = None /\ last'.got = Blank
    BY <1>3, ReturnedFields DEF ScannedRow, ScannedID
  <2> QED
    BY <1>2, <1>3, <2>1 DEF Departs, FindsBlank
<1>4. CASE db # "yugabyte"
  <2>1. Returns(c, "Find", inTx, i, f, "true", row)
    BY <1>4 DEF ScannedRow, ScannedID
  <2>2. Contract!Reading(last')
    BY <2>1, ReturnedFields DEF Contract!Reading, Contract!InOpenTx
  <2>3. Contract!Sees(last')[i] = row
    BY <2>1, ReturnedFields, SameViews DEF Contract!Sees
  <2>4. last'.call = "Find" /\ last'.out = "true" /\ last'.got = row /\ last'.id = i
        /\ last'.f = f
    BY <2>1, ReturnedFields
  <2>5. Contract!Found(last')
    BY <2>2, <2>3, <2>4 DEF Contract!Found
  <2> QED
    BY <1>2, <2>5, SameEvents DEF Contract!Next, Contract!Step
<1> QED
  BY <1>3, <1>4

\* A DeleteByID that hits a row is a Delete of the contract, another one a Miss.
LEMMA DeleteStep ==
  ASSUME TypeOK, NEW c \in Callers, NEW inTx \in BOOLEAN, NEW id \in Ids, Delete(c, inTx, id)
  PROVE  Contract!Next
<1> DEFINE t == Base(c, inTx)
           r == DeleteWhere(t, id)
<1>1. t \in Tables /\ r \in Results
  BY BaseType, DeleteWhereType
<1>2. PICK out \in Outcomes(inTx, Flag(r.hit)) : Returns(c, "Delete", inTx, id, NoFields, out, NoRow)
  BY DEF Delete
<1>3. last' \in Contract!Events
  BY <1>2, KeysType, ReturnsType, SameEvents DEF Outcomes, Flag, Calls, Statements
<1>4. Contract!Sees(last') = t
  BY <1>2, ReturnedFields, SameViews DEF Contract!Sees
<1>5. CASE t[id] # NoRow
  <2>1. r.hit /\ r.new = Put(t, id, NoRow) /\ Flag(r.hit) = "true"
    BY <1>5 DEF DeleteWhere, Flag
  <2>2. Contract!Writing(last', NoRow)
    BY <1>1, <1>2, <2>1, ReturnedFields, ApplyWrites DEF Delete, Ready
  <2>3. out \in Outcomes(inTx, "true")
    BY <2>1
  <2>4. last'.call = "Delete" /\ last'.id = id /\ last'.inTx = inTx /\ last'.out = out
    BY <1>2, ReturnedFields
  <2>5. Contract!Outcome(last', "true")
    BY <2>3, <2>4, ReturnedOutcome
  <2>6. Contract!Delete(last')
    BY <1>4, <1>5, <2>2, <2>4, <2>5 DEF Contract!Delete
  <2> QED
    BY <1>3, <2>6 DEF Contract!Next, Contract!Step
<1>6. CASE t[id] = NoRow
  <2>1. ~r.hit /\ r.new = t /\ Flag(r.hit) = "false"
    BY <1>1, <1>6, DeleteNothing DEF DeleteWhere, Flag
  <2>2. Contract!Reading(last')
    BY <1>1, <1>2, <2>1, ReturnedFields, ApplyReads DEF Delete, Ready
  <2>3. out \in Outcomes(inTx, "false")
    BY <2>1
  <2>4. last'.call = "Delete" /\ last'.id = id /\ last'.inTx = inTx /\ last'.out = out
    BY <1>2, ReturnedFields
  <2>5. Contract!Outcome(last', "false")
    BY <2>3, <2>4, ReturnedOutcome
  <2>6. Contract!Miss(last')
    BY <1>4, <1>6, <2>2, <2>4, <2>5 DEF Contract!Miss
  <2> QED
    BY <1>3, <2>6 DEF Contract!Next, Contract!Step
<1> QED
  BY <1>5, <1>6

\* FindByID finds the row, or there is none.
LEMMA FindByIDStep ==
  ASSUME TypeOK, NEW c \in Callers, NEW inTx \in BOOLEAN, NEW id \in Ids,
         FindByID(c, inTx, id)
  PROVE  Contract!Next \/ Departs
<1> DEFINE row == Base(c, inTx)[id]
<1>1. UNCHANGED <<rows, ws, tx>> /\ (inTx => tx[c] = "active")
  BY DEF FindByID, Ready
<1>2. NoFields \in Fields /\ DOMAIN NoFields = {}
  BY KeysType DEF NoFields
<1>3. CASE row = NoRow
  <2>1. Returns(c, "Find", inTx, id, NoFields, "false", NoRow)
    BY <1>3 DEF FindByID
  <2>2. last' \in Contract!Events
    BY <2>1, KeysType, ReturnsType, SameEvents DEF Calls, Statements
  <2>3. Contract!Reading(last')
    BY <1>1, <2>1, ReturnedFields DEF Contract!Reading, Contract!InOpenTx
  <2>4. Contract!Sees(last')[id] = NoRow
    BY <1>3, <2>1, ReturnedFields, SameViews DEF Contract!Sees
  <2>5. last'.call = "Find" /\ last'.out = "false" /\ last'.got = NoRow /\ last'.id = id
    BY <2>1, ReturnedFields
  <2>6. Contract!NotFound(last')
    BY NoneAssumption, <2>3, <2>4, <2>5 DEF Contract!NotFound
  <2> QED
    BY <2>2, <2>6 DEF Contract!Next, Contract!Step
<1>4. CASE row # NoRow
  <2>1. Returns(c, "Find", inTx, ScannedID(db, id, None), NoFields, "true", ScannedRow(db, row))
    BY <1>4 DEF FindByID
  <2> QED
    BY <1>1, <1>2, <1>4, <2>1, FoundStep
<1> QED
  BY <1>3, <1>4

\* FindByKey finds a row with the value, or there is none.
LEMMA FindByKeyStep ==
  ASSUME TypeOK, NEW c \in Callers, NEW inTx \in BOOLEAN, NEW f \in Keys,
         FindByKey(c, inTx, f)
  PROVE  Contract!Next \/ Departs
<1> DEFINE t == Base(c, inTx)
           hits == {i \in Ids : t[i] # NoRow /\ \A x \in DOMAIN f : t[i][x] = f[x]}
<1>1. f \in Fields
  BY KeysType
<1>2. UNCHANGED <<rows, ws, tx>> /\ (inTx => tx[c] = "active")
  BY DEF FindByKey, Ready
<1>3. CASE hits = {} /\ Returns(c, "Find", inTx, None, f, "false", NoRow)
  <2>1. last' \in Contract!Events
    BY <1>1, <1>3, ReturnsType, SameEvents DEF Calls, Statements
  <2>2. Contract!Reading(last')
    BY <1>2, <1>3, ReturnedFields DEF Contract!Reading, Contract!InOpenTx
  <2>3. Contract!Sees(last') = t
    BY <1>3, ReturnedFields, SameViews DEF Contract!Sees
  <2>4. last'.call = "Find" /\ last'.out = "false" /\ last'.got = NoRow /\ last'.id = None
        /\ last'.f = f
    BY <1>3, ReturnedFields
  <2>5. Contract!NotFound(last')
    BY <1>3, <2>2, <2>3, <2>4 DEF Contract!NotFound
  <2> QED
    BY <2>1, <2>5 DEF Contract!Next, Contract!Step
<1>4. ASSUME NEW i \in hits,
             Returns(c, "Find", inTx, ScannedID(db, i, None), f, "true", ScannedRow(db, t[i]))
      PROVE  Contract!Next \/ Departs
  BY <1>1, <1>2, <1>4, FoundStep
<1> QED
  BY <1>3, <1>4 DEF FindByKey

\* BeginTx is Begin.
LEMMA BeginStep ==
  ASSUME NEW c \in Callers, BeginTx(c)
  PROVE  Contract!Next
<1>1. Returns(c, "Begin", TRUE, None, NoFields, "true", NoRow)
  BY DEF BeginTx
<1>2. last' \in Contract!Events
  BY <1>1, KeysType, ReturnsType, SameEvents DEF Calls
<1>3. Contract!Begin(last')
  BY <1>1, ReturnedFields DEF BeginTx, Contract!Begin
<1> QED
  BY <1>2, <1>3 DEF Contract!Next, Contract!Step

\* CommitTx and RollbackTx are Commit and Rollback, with the same outcomes.
LEMMA EndStep ==
  ASSUME TypeOK, NEW c \in Callers, CommitTx(c) \/ RollbackTx(c)
  PROVE  Contract!Next
<1>1. ASSUME NEW call \in {"Commit", "Rollback"}, NEW table, NEW out \in {"true", "error"},
             EndTx(c, call, table, out), tx[c] # "none"
      PROVE  /\ last' \in Contract!Events
             /\ last'.by = c /\ last'.call = call /\ last'.out = out
             /\ Contract!Ending(last', table)
  <2>1. Returns(c, call, TRUE, None, NoFields, out, NoRow)
    BY <1>1 DEF EndTx
  <2>2. last' \in Contract!Events
    BY <2>1, KeysType, ReturnsType, SameEvents DEF Calls
  <2>3. last'.by = c /\ last'.call = call /\ last'.out = out
    BY <2>1, ReturnedFields
  <2>4. Contract!Ending(last', table)
    BY <1>1, <2>3, SameData DEF EndTx, Contract!Ending
  <2> QED
    BY <2>2, <2>3, <2>4
<1>2. ASSUME NEW out \in {"true", "error"}, tx[c] = "active", EndTx(c, "Commit", View(c), out)
      PROVE  Contract!Next
  BY <1>1, <1>2, SameViews DEF Contract!Commit, Contract!Next, Contract!Step
<1>3. ASSUME tx[c] # "none", EndTx(c, "Commit", rows, "error")
      PROVE  Contract!Next
  BY <1>1, <1>3 DEF Contract!Commit, Contract!Next, Contract!Step
<1>4. ASSUME NEW out \in {"true", "error"}, tx[c] # "none", EndTx(c, "Rollback", rows, out)
      PROVE  Contract!Next
  BY <1>1, <1>4 DEF Contract!Rollback, Contract!Next, Contract!Step
<1> QED
  BY <1>2, <1>3, <1>4 DEF CommitTx, RollbackTx

\* A call that fails, before or in a statement, has no effect or loses the transaction.
LEMMA FailureStep ==
  ASSUME TypeOK, PendingInTx, NEW c \in Callers,
         NEW call \in Calls, NEW inTx \in BOOLEAN,
         \/ Refuse(c, call, inTx)
         \/ StatementFails(c, call, inTx)
         \/ FallbackFails(c) /\ call = "Upsert" /\ inTx = pend[c].inTx
  PROVE  Contract!Next
<1>1. Returns(c, call, inTx, None, NoFields, "error", NoRow)
  BY DEF Refuse, StatementFails, FallbackFails
<1>2. last' \in Events
  BY <1>1, KeysType, ReturnsType
<1>3. last'.by = c /\ last'.inTx = inTx /\ last'.out = "error"
  BY <1>1, ReturnedFields
<1>4. CASE UNCHANGED <<rows, ws, tx>>
  BY <1>2, <1>3, <1>4, ErrorStep
<1>5. CASE ~Refuse(c, call, inTx) /\ ~ UNCHANGED <<rows, ws, tx>>
  <2>1. /\ inTx /\ tx[c] = "active" /\ rows' = rows
        /\ tx' = [tx EXCEPT ![c] = "aborted"] /\ ws' = [ws EXCEPT ![c] = Clean]
    BY <1>5 DEF StatementFails, FallbackFails, AfterError, Ready, PendingInTx
  <2>2. Contract!LosesTx(last')
    BY <1>3, <2>1, SameData DEF Contract!LosesTx
  <2> QED
    BY <1>2, <2>2, SameEvents DEF Contract!Next, Contract!Step
<1> QED
  BY <1>4, <1>5 DEF Refuse
-----------------------------------------------------------------------------
(* The refinement.                                                         *)

\* Every step of every adapter is a step of the contract or a departure.
LEMMA ContractStep ==
  ASSUME TypeOK, PendingInTx, OnlyOracleWaits, [Next]_vars
  PROVE  Contract!Next \/ UNCHANGED Contract!vars \/ Departs
<1>1. CASE UNCHANGED vars
  BY <1>1 DEF vars, Contract!vars
<1>2. ASSUME NEW c \in Callers, NEW inTx \in BOOLEAN, NEW id \in Ids, NEW f \in Writes,
             Upsert(c, inTx, id, f) \/ Update(c, inTx, id, f)
      PROVE  Contract!Next \/ Departs
  BY <1>2, UpsertStep, UpdateStep
<1>3. ASSUME NEW c \in Callers, NEW inTx \in BOOLEAN, NEW id \in Ids, NEW f \in Writes,
             OracleRejected(c, inTx, id, f)
      PROVE  UNCHANGED Contract!vars
  BY <1>3 DEF OracleRejected, Contract!vars
<1>4. ASSUME NEW c \in Callers, NEW inTx \in BOOLEAN, NEW id \in Ids,
             Delete(c, inTx, id) \/ FindByID(c, inTx, id)
      PROVE  Contract!Next \/ Departs
  BY <1>4, DeleteStep, FindByIDStep
<1>5. ASSUME NEW c \in Callers, NEW inTx \in BOOLEAN, NEW call \in Calls,
             Refuse(c, call, inTx) \/ StatementFails(c, call, inTx)
      PROVE  Contract!Next
  BY <1>5, FailureStep
<1>6. ASSUME NEW c \in Callers, FallbackFails(c)
      PROVE  Contract!Next
  <2>1. pend[c].inTx \in BOOLEAN /\ "Upsert" \in Calls
    BY <1>6 DEF FallbackFails, TypeOK, Pending, Calls, Statements
  <2> QED
    BY <1>6, <2>1, FailureStep
<1>7. ASSUME NEW c \in Callers, BeginTx(c) \/ CommitTx(c) \/ RollbackTx(c)
      PROVE  Contract!Next
  BY <1>7, BeginStep, EndStep
<1> QED
  BY <1>1, <1>2, <1>3, <1>4, <1>5, <1>6, <1>7, FallbackStep, FindByKeyStep DEF Next, Calls

\* An adapter keeps the contract in all that it does but the four departures:
\* REPLACE, an Oracle upsert that finds no row, a TiDB update that changes
\* nothing, and YugabyteDB's finds.
THEOREM DeparturesKnown == Spec => DepartsAsKnown
<1> DEFINE Keeps == Contract!Next \/ UNCHANGED Contract!vars \/ Departs
<1>1. TypeOK /\ PendingInTx /\ OnlyOracleWaits /\ [Next]_vars => Keeps
  BY ContractStep
<1>2. IInv => PendingInTx
  BY DEF IInv
<1> QED
  BY <1>1, <1>2, TypeCorrect, UniqueInvariant, OracleWaits, PTL DEF Spec, DepartsAsKnown

\* The initial states agree.
LEMMA ContractInit == Init => Contract!Init
  BY SameData DEF Init, Contract!Init

\* The row that Oracle's INSERT was rejected for is still there.
RowAwaits ==
  \A c \in Callers : pend[c] # None => Base(c, pend[c].inTx)[pend[c].id] # NoRow

\* Alone, and without UNIQUE columns, that row is the caller's own to keep.
LEMMA RowAwaitsStep ==
  ASSUME Unique = {}, \A c, d \in Callers : c = d,
         TypeOK, OnlyOracleWaits, RowAwaits, [Next]_vars
  PROVE  RowAwaits'
<1> SUFFICES ASSUME NEW c \in Callers, pend'[c] # None
             PROVE  (Base(c, pend[c].inTx)[pend[c].id] # NoRow)'
  BY DEF RowAwaits
<1>1. ASSUME NEW inTx \in BOOLEAN, NEW id \in Ids, NEW f \in Writes,
             OracleRejected(c, inTx, id, f)
      PROVE  (Base(c, pend[c].inTx)[pend[c].id] # NoRow)'
  <2>1. InsertStatement(db, inTx, Base(c, inTx), id, f) = InsertOnly(Base(c, inTx), id, f)
    BY <1>1, InsertStatementCases DEF OracleRejected, SqlAdapters
  <2>2. ~InsertOnly(Base(c, inTx), id, f).ok
    BY <1>1, <2>1 DEF OracleRejected
  <2>3. Base(c, inTx)[id] # NoRow
    BY <2>2 DEF InsertOnly, Rivals, Clash
  <2>4. pend'[c].inTx = inTx /\ pend'[c].id = id /\ UNCHANGED <<rows, ws>>
    BY <1>1 DEF OracleRejected, TypeOK
  <2> QED
    BY <2>3, <2>4 DEF Base, View
<1>2. ASSUME OracleFallback(c) \/ FallbackFails(c) PROVE FALSE
  BY <1>2 DEF OracleFallback, FallbackFails, Apply, TypeOK
<1>3. CASE UNCHANGED vars
  BY <1>3 DEF vars, RowAwaits, Base, View
<1>4. CASE pend[c] = None
  <2>1. ASSUME NEW inTx \in BOOLEAN, NEW id \in Ids, NEW f \in Writes,
               Upsert(c, inTx, id, f) \/ Update(c, inTx, id, f)
        PROVE  FALSE
    BY <1>4, <2>1 DEF Upsert, Update, Apply
  <2>2. ASSUME NEW inTx \in BOOLEAN, NEW id \in Ids, Delete(c, inTx, id) \/ FindByID(c, inTx, id)
        PROVE  FALSE
    BY <1>4, <2>2 DEF Delete, FindByID
  <2>3. ASSUME NEW inTx \in BOOLEAN, NEW f \in Keys, FindByKey(c, inTx, f)
        PROVE  FALSE
    BY <1>4, <2>3 DEF FindByKey
  <2>4. ASSUME NEW inTx \in BOOLEAN, NEW call \in Calls,
               StatementFails(c, call, inTx) \/ Refuse(c, call, inTx)
        PROVE  FALSE
    BY <1>4, <2>4 DEF StatementFails, Refuse
  <2>5. ASSUME BeginTx(c) \/ CommitTx(c) \/ RollbackTx(c)
        PROVE  FALSE
    BY <1>4, <2>5 DEF BeginTx, CommitTx, RollbackTx, EndTx
  <2> QED
    BY <1>1, <1>2, <1>3, <2>1, <2>2, <2>3, <2>4, <2>5 DEF Next, Calls
<1>5. CASE pend[c] # None
  <2>1. ASSUME NEW inTx \in BOOLEAN, NEW id \in Ids, NEW f \in Writes,
               Upsert(c, inTx, id, f) \/ Update(c, inTx, id, f) \/ OracleRejected(c, inTx, id, f)
        PROVE  FALSE
    BY <1>5, <2>1 DEF Upsert, Update, OracleRejected, Ready
  <2>2. ASSUME NEW inTx \in BOOLEAN, NEW id \in Ids, Delete(c, inTx, id) \/ FindByID(c, inTx, id)
        PROVE  FALSE
    BY <1>5, <2>2 DEF Delete, FindByID, Ready
  <2>3. ASSUME NEW inTx \in BOOLEAN, NEW f \in Keys, FindByKey(c, inTx, f)
        PROVE  FALSE
    BY <1>5, <2>3 DEF FindByKey, Ready
  <2>4. ASSUME NEW inTx \in BOOLEAN, NEW call \in Calls,
               StatementFails(c, call, inTx) \/ Refuse(c, call, inTx)
        PROVE  FALSE
    BY <1>5, <2>4 DEF StatementFails, Refuse, Ready
  <2>5. ASSUME BeginTx(c) \/ CommitTx(c) \/ RollbackTx(c)
        PROVE  FALSE
    BY <1>5, <2>5 DEF BeginTx, CommitTx, RollbackTx, EndTx
  <2> QED
    BY <1>2, <1>3, <2>1, <2>2, <2>3, <2>4, <2>5 DEF Next, Calls
<1> QED
  BY <1>4, <1>5

\* Where nothing is UNIQUE and whole rows are written, REPLACE merges.
LEMMA WholeRowsMerge ==
  ASSUME Unique = {}, NEW f \in Fields, DOMAIN f = Cols, NEW t \in Tables, NEW id
  PROVE  ReplaceInto(t, id, f).new = Put(t, id, Merged(t, id, f))
<1> DEFINE row == Overlay(Blank, f)
<1>1. Merged(t, id, f) = row
  BY DEF Merged, Overlay
<1>2. Rivals(t, id, row) = {}
  BY DEF Rivals, Clash
<1>3. ReplaceInto(t, id, f).new = [j \in Ids |-> IF j = id THEN row ELSE t[j]]
  BY <1>2 DEF ReplaceInto
<1> QED
  BY <1>1, <1>3 DEF Put, Tables

\* The five adapters that find and update as the contract says implement it:
\* SQLite where no column is UNIQUE and whole rows are written, Oracle where no
\* column is UNIQUE and there is one caller, the other three everywhere.
THEOREM ContractKept ==
  ASSUME Adapters \cap {"tidb", "yugabyte"} = {},
         "sqlite" \in Adapters => Unique = {} /\ \A f \in Writes : DOMAIN f = Cols,
         "oracle" \in Adapters => Unique = {} /\ \A c, d \in Callers : c = d
  PROVE  Spec => ImplementsContract
<1> DEFINE Waits == "oracle" \in Adapters => RowAwaits
<1>1. Init => Waits /\ Contract!Init
  BY ContractInit DEF Init, RowAwaits
<1>2. TypeOK /\ OnlyOracleWaits /\ Waits /\ [Next]_vars => Waits'
  BY RowAwaitsStep
<1>3. TypeOK /\ Waits => ~Departs
  <2> SUFFICES ASSUME TypeOK, Waits, Departs PROVE FALSE
    OBVIOUS
  <2>1. db \in Adapters /\ last'.by \in Callers /\ last'.inTx \in BOOLEAN
    BY DEF TypeOK, Departs, Events
  <2>2. Before \in Tables
    BY <2>1, BaseType DEF Before
  <2>3. CASE Replaces
    <3>1. db = "sqlite" /\ last'.id \in Ids \cup {None}
      BY <2>1, <2>3 DEF Replaces, Replacing, Departs, Events
    <3>2. PICK f \in Writes : /\ After = ReplaceInto(Before, last'.id, f).new
                              /\ After # Put(Before, last'.id, Merged(Before, last'.id, f))
      BY <2>3 DEF Replaces
    <3>3. f \in Fields /\ DOMAIN f = Cols /\ Unique = {}
      BY <2>1, <3>1, WritesAssumption
    <3> QED
      BY <2>2, <3>1, <3>2, <3>3, WholeRowsMerge
  <2>4. CASE StoresNothing
    <3>1. db = "oracle" /\ RowAwaits
      BY <2>1, <2>4 DEF StoresNothing
    <3> QED
      BY <2>1, <2>4, <3>1 DEF StoresNothing, RowAwaits, Before
  <2> QED
    BY <2>1, <2>3, <2>4 DEF Departs, DeniesUpdate, FindsBlank
<1>4. TypeOK /\ PendingInTx /\ OnlyOracleWaits /\ Waits /\ [Next]_vars => [Contract!Next]_Contract!vars
  BY <1>3, ContractStep
<1>5. IInv => PendingInTx
  BY DEF IInv
<1> QED
  BY <1>1, <1>2, <1>4, <1>5, TypeCorrect, UniqueInvariant, OracleWaits, PTL
  DEF Spec, ImplementsContract, Contract!Spec

\* PostgreSQL, CockroachDB and SQL Server implement the contract without any
\* condition: atomic insert-or-update, truthful results, all-or-nothing transactions.
THEOREM MergingImplementsContract ==
  ASSUME Adapters \subseteq {"postgres", "cockroach", "sqlserver"}
  PROVE  Spec => ImplementsContract
  BY ContractKept
=============================================================================
