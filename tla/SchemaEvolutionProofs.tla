----------------------- MODULE SchemaEvolutionProofs -----------------------
(***************************************************************************)
(* What holds of schemas and tables that change at different times, for    *)
(* every set of programs, columns, declared schemas and added columns.     *)
(***************************************************************************)
EXTENDS SchemaEvolution, TLAPS

-----------------------------------------------------------------------------
(* Functions on some of the columns.                                       *)

\* A function on some columns, taken apart.
LEMMA PartialElim ==
  ASSUME NEW S, NEW f \in Partial(S)
  PROVE  /\ DOMAIN f \subseteq Columns
         /\ \A c \in DOMAIN f : f[c] \in S
         /\ f = [c \in DOMAIN f |-> f[c]]
  BY DEF Partial

\* And put together.
LEMMA PartialIntro ==
  ASSUME NEW S, NEW D \in SUBSET Columns, NEW f \in [D -> S]
  PROVE  f \in Partial(S)
  BY DEF Partial

\* Schemas are declared with the types of the schema package.
LEMMA DeclaredType ==
  ASSUME NEW p \in Programs
  PROVE  /\ Declared[p] \in Partial(ColumnData)
         /\ \A c \in DOMAIN Declared[p] : Declared[p][c].type \in DataTypes
<1> DEFINE T == {col \in ColumnData : col.type \in DataTypes}
<1>1. Declared[p] \in Partial(T)
  BY DeclaredAssumption
<1>2. PICK D \in SUBSET Columns : Declared[p] \in [D -> T]
  BY <1>1 DEF Partial
<1>3. Declared[p] \in [D -> ColumnData] /\ \A c \in D : Declared[p][c].type \in DataTypes
  BY <1>2
<1> QED
  BY <1>2, <1>3, PartialIntro

\* A column that is added is a column of the schema package.
LEMMA AlteredType ==
  ASSUME NEW col \in Altered
  PROVE  col \in ColumnData /\ col.type \in DataTypes
  BY AlteredAssumption DEF ColumnData

-----------------------------------------------------------------------------
(* The invariant.                                                          *)

\* The types in the database are those that CREATE and ALTER TABLE were given.
TableTyped == table # None => \A c \in DOMAIN table : table[c].type \in DataTypes

\* A column as the infoschema package reads it: without, and with, its indexes.
FirstRead(a, col) == IF a = "sqlite" THEN SQLiteColumn(col) ELSE InfoSchemaColumn(col)
FullyRead(a, col) ==
  IF a = "sqlite" THEN [SQLiteColumn(col) EXCEPT !.unique = @ \/ col.unique]
  ELSE InfoSchemaColumn(col)

\* What was read is what is in the table still, as far as it was read.
ReadFromTable ==
  \A p \in Programs :
    /\ columns[p] # None =>
         /\ table # None /\ DOMAIN columns[p] \subseteq DOMAIN table
         /\ \A c \in DOMAIN columns[p] : columns[p][c] = FirstRead(adapter, table[c])
    /\ p \in parsed =>
         /\ table # None /\ DOMAIN schema[p] \subseteq DOMAIN table
         /\ \A c \in DOMAIN schema[p] : schema[p][c] = FullyRead(adapter, table[c])

\* A program gets its schema when there is a table.
SchemaHasTable == \A p \in Programs : schema[p] # None => table # None

\* What a program holds has the columns of the table, and NULL where they allow it.
HeldFits ==
  \A p \in Programs : held[p] # None =>
    /\ schema[p] # None /\ DOMAIN held[p] \subseteq DOMAIN table
    /\ \A c \in DOMAIN held[p] : held[p][c] = Null => table[c].nullable

IInv == TypeOK /\ TableTyped /\ SchemaHasTable /\ ReadFromTable /\ HeldFits

\* What is read of a column is a column again.
LEMMA ReadType ==
  ASSUME NEW a, NEW col \in ColumnData, col.type \in DataTypes
  PROVE  FirstRead(a, col) \in ColumnData /\ FullyRead(a, col) \in ColumnData
<1>1. SQLiteColumn(col) \in ColumnData
  BY DEF SQLiteColumn, ColumnData
<1>2. InfoSchemaColumn(col) \in ColumnData
  BY DEF InfoSchemaColumn, TiDBShows, ColumnData, DataTypes
<1>3. [SQLiteColumn(col) EXCEPT !.unique = @ \/ col.unique] \in ColumnData
  BY <1>1 DEF ColumnData
<1> QED
  BY <1>1, <1>2, <1>3 DEF FirstRead, FullyRead

\* A row that the database takes has the type of a row.
LEMMA RowType ==
  ASSUME table \in Partial(ColumnData),
         NEW r, r = [c \in DOMAIN table |-> r[c]],
         \A c \in DOMAIN table : r[c] \in Cells \cup {Null}
  PROVE  r \in Partial(Cells \cup {Null}) /\ DOMAIN r = DOMAIN table
<1>1. DOMAIN table \in SUBSET Columns
  BY PartialElim
<1>2. r \in [DOMAIN table -> Cells \cup {Null}]
  OBVIOUS
<1> QED
  BY <1>1, <1>2, PartialIntro

\* So has what INSERT, REPLACE and UPDATE make of fields.
LEMMA SavedType ==
  ASSUME TypeOK, table # None, NEW f \in Partial(Cells \cup {Null})
  PROVE  /\ Fresh(f) \in Partial(Cells \cup {Null}) /\ DOMAIN Fresh(f) = DOMAIN table
         /\ row # None => Over(f) \in Partial(Cells \cup {Null}) /\ DOMAIN Over(f) = DOMAIN table
<1>1. table \in Partial(ColumnData)
  BY DEF TypeOK
<1>2. \A c \in DOMAIN f : f[c] \in Cells \cup {Null}
  BY PartialElim
<1>3. Fresh(f) \in Partial(Cells \cup {Null}) /\ DOMAIN Fresh(f) = DOMAIN table
  <2>1. \A c \in DOMAIN table : Fresh(f)[c] \in Cells \cup {Null}
    BY <1>2, CellsAssumption DEF Fresh
  <2> QED
    BY <1>1, <2>1, RowType DEF Fresh
<1>4. ASSUME row # None
      PROVE  Over(f) \in Partial(Cells \cup {Null}) /\ DOMAIN Over(f) = DOMAIN table
  <2>1. row \in Partial(Cells \cup {Null}) /\ DOMAIN row = DOMAIN table
    BY <1>4 DEF TypeOK
  <2>2. \A c \in DOMAIN table : row[c] \in Cells \cup {Null}
    BY <2>1, PartialElim
  <2>3. \A c \in DOMAIN table : Over(f)[c] \in Cells \cup {Null}
    BY <1>2, <2>2 DEF Over
  <2> QED
    BY <1>1, <2>3, RowType DEF Over
<1> QED
  BY <1>3, <1>4

\* A step that changes neither the table nor what was read or declared.
LEMMA SameSchemas ==
  ASSUME TableTyped, SchemaHasTable, ReadFromTable, UNCHANGED <<adapter, table, schema, parsed, columns>>
  PROVE  (TableTyped /\ SchemaHasTable /\ ReadFromTable)'
  BY DEF TableTyped, SchemaHasTable, ReadFromTable

\* The row changes.
LEMMA RowStep ==
  ASSUME IInv, UNCHANGED <<adapter, table, schema, parsed, columns, held>>,
         \/ row' = None
         \/ /\ row' \in Partial(Cells \cup {Null})
            /\ table # None /\ DOMAIN row' = DOMAIN table /\ Takes(row')
  PROVE  IInv'
<1>1. TypeOK'
  BY DEF IInv, TypeOK, Takes
<1>2. HeldFits'
  BY DEF IInv, HeldFits
<1> QED
  BY <1>1, <1>2, SameSchemas DEF IInv

\* Insert keeps the invariant ...
LEMMA InsertKeeps ==
  ASSUME IInv, NEW p \in Programs, NEW f \in Partial(Cells \cup {Null}), Insert(p, f)
  PROVE  IInv'
<1>1. table # None
  BY DEF Insert, CanInsert, IInv, SchemaHasTable
<1>2. /\ row' \in Partial(Cells \cup {Null}) /\ DOMAIN row' = DOMAIN table /\ Takes(row')
  BY <1>1, SavedType DEF Insert, CanInsert, Inserted, IInv
<1> QED
  BY <1>1, <1>2, RowStep DEF Insert

\* ... and so do Update and Delete ...
LEMMA UpdateKeeps ==
  ASSUME IInv, NEW p \in Programs, NEW f \in Partial(Cells \cup {Null}), Update(p, f)
  PROVE  IInv'
<1>1. table # None
  BY DEF Update, CanUpdate, IInv, SchemaHasTable
<1>2. /\ row' \in Partial(Cells \cup {Null}) /\ DOMAIN row' = DOMAIN table /\ Takes(row')
  BY <1>1, SavedType DEF Update, CanUpdate, IInv
<1> QED
  BY <1>1, <1>2, RowStep DEF Update

\* ... and a find.
LEMMA FindKeeps ==
  ASSUME IInv, NEW p \in Programs, Find(p)
  PROVE  IInv'
<1> DEFINE f == [c \in DOMAIN schema[p] |-> row[c]]
<1>1. schema[p] \in Partial(ColumnData) /\ table \in Partial(ColumnData)
  BY DEF Find, IInv, TypeOK, SchemaHasTable
<1>2. row \in Partial(Cells \cup {Null}) /\ DOMAIN row = DOMAIN table
  BY DEF Find, IInv, TypeOK
<1>3. DOMAIN schema[p] \in SUBSET Columns /\ DOMAIN schema[p] \subseteq DOMAIN row
  BY <1>1, <1>2, PartialElim DEF Find, CanFind
<1>4. f \in [DOMAIN schema[p] -> Cells \cup {Null}]
  BY <1>2, <1>3, PartialElim
<1>5. f \in Partial(Cells \cup {Null})
  BY <1>3, <1>4, PartialIntro
<1>6. held' = [held EXCEPT ![p] = f] /\ UNCHANGED <<adapter, table, row, schema, parsed, columns>>
  BY DEF Find
<1> HIDE DEF f
<1>7. TypeOK'
  BY <1>5, <1>6 DEF IInv, TypeOK, Takes
<1>8. HeldFits'
  <2>1. DOMAIN f = DOMAIN schema[p] /\ DOMAIN schema[p] \subseteq DOMAIN table /\ schema[p] # None
    BY <1>2, <1>3 DEF f, Find
  <2>2. \A c \in DOMAIN f : f[c] = Null => table[c].nullable
    BY <1>2, <2>1 DEF f, Find, IInv, TypeOK, Takes
  <2>3. \A q \in Programs : held'[q] = IF q = p THEN f ELSE held[q]
    BY <1>6 DEF IInv, TypeOK
  <2> QED
    BY <1>6, <2>1, <2>2, <2>3 DEF IInv, HeldFits
<1> QED
  BY <1>6, <1>7, <1>8, SameSchemas DEF IInv

\* CreateTables makes the table as declared, or leaves it.
LEMMA CreateTablesKeeps ==
  ASSUME IInv, NEW p \in Programs, CreateTables(p)
  PROVE  IInv'
<1>1. Declared[p] \in Partial(ColumnData) /\ Declared[p] # None
  BY DeclaredType, NoneAssumption
<1>2. table' # None /\ (table # None => table' = table)
  BY <1>1 DEF CreateTables
<1>3. TypeOK'
  BY <1>1, <1>2 DEF CreateTables, IInv, TypeOK, Takes
<1>4. TableTyped'
  BY DeclaredType DEF CreateTables, IInv, TableTyped
<1>5. SchemaHasTable'
  BY <1>2 DEF SchemaHasTable
<1>6. parsed' \subseteq parsed /\ p \notin parsed' /\ columns' = columns /\ adapter' = adapter
  BY DEF CreateTables
<1>7. \A q \in Programs \ {p} : schema'[q] = schema[q]
  BY DEF CreateTables, IInv, TypeOK
<1>8. ReadFromTable'
  BY <1>2, <1>6, <1>7 DEF IInv, ReadFromTable
<1>9. HeldFits'
  <2>1. \A q \in Programs : held'[q] = held[q] /\ (held[q] # None => table' = table /\ schema'[q] # None)
    BY <1>1, <1>2 DEF CreateTables, IInv, TypeOK, HeldFits, SchemaHasTable
  <2> QED
    BY <2>1 DEF IInv, HeldFits
<1> QED
  BY <1>3, <1>4, <1>5, <1>8, <1>9 DEF IInv

\* AlterTable only adds a column, which every row then has.
LEMMA AlterTableKeeps ==
  ASSUME IInv, NEW c \in Columns, NEW col \in Altered, AlterTable(c, col)
  PROVE  IInv'
<1>1. table \in Partial(ColumnData) /\ c \notin DOMAIN table
  BY DEF AlterTable, IInv, TypeOK
<1>2. /\ table' = [k \in DOMAIN table \cup {c} |-> IF k = c THEN col ELSE table[k]]
      /\ DOMAIN table' = DOMAIN table \cup {c} /\ DOMAIN table' \in SUBSET Columns
  BY <1>1, PartialElim DEF AlterTable
<1>3. col \in ColumnData /\ col.type \in DataTypes
  BY AlteredType
<1>4. \A k \in DOMAIN table' : table'[k] \in ColumnData
  BY <1>1, <1>2, <1>3, PartialElim
<1>5. table' \in Partial(ColumnData) /\ table' # None
  <2>1. table' \in [DOMAIN table' -> ColumnData]
    BY <1>2, <1>4
  <2> QED
    BY <1>2, <2>1, PartialIntro, NoneAssumption
<1>6. \A k \in DOMAIN table : table'[k] = table[k]
  BY <1>1, <1>2
<1>7. ASSUME row # None
      PROVE  /\ row' \in Partial(Cells \cup {Null})
             /\ DOMAIN row' = DOMAIN table' /\ Takes(row)'
  <2>1. row \in Partial(Cells \cup {Null}) /\ DOMAIN row = DOMAIN table /\ Takes(row)
    BY <1>7 DEF IInv, TypeOK
  <2>2. row' = [k \in DOMAIN table' |->
                  IF k # c THEN row[k] ELSE IF col.nullable THEN Null ELSE Default]
    BY <1>7 DEF AlterTable
  <2>3. \A k \in DOMAIN table : row[k] \in Cells \cup {Null}
    BY <2>1, PartialElim
  <2>4. \A k \in DOMAIN table' : row'[k] \in Cells \cup {Null}
    BY <1>2, <2>2, <2>3, CellsAssumption
  <2>5. row' \in [DOMAIN table' -> Cells \cup {Null}]
    BY <2>2, <2>4
  <2>6. Takes(row)'
    BY <1>2, <1>6, <2>1, <2>2, CellsAssumption DEF Takes
  <2> QED
    BY <1>2, <2>2, <2>5, <2>6, PartialIntro
<1>8. row = None => row' = None
  BY DEF AlterTable
<1>9. TypeOK'
  BY <1>5, <1>7, <1>8 DEF AlterTable, IInv, TypeOK
<1>10. TableTyped'
  BY <1>2, <1>3, <1>6 DEF IInv, TableTyped, AlterTable
<1>11. SchemaHasTable'
  BY <1>5 DEF SchemaHasTable
<1>12. UNCHANGED <<adapter, schema, parsed, columns>>
  BY DEF AlterTable
<1>13. ReadFromTable'
  BY <1>2, <1>5, <1>6, <1>12
     DEF IInv, ReadFromTable
<1>14. HeldFits'
  BY <1>2, <1>6 DEF AlterTable, IInv, HeldFits
<1> QED
  BY <1>9, <1>10, <1>11, <1>13, <1>14 DEF IInv

\* The columns that are read are those of the table, as they are read.
LEMMA ReadColumnsKeeps ==
  ASSUME IInv, NEW p \in Programs, ReadColumns(p)
  PROVE  IInv'
<1> DEFINE cols == Parsed(table)
<1>1. table \in Partial(ColumnData) /\ \A c \in DOMAIN table : table[c].type \in DataTypes
  BY DEF ReadColumns, IInv, TypeOK, TableTyped
<1>2. DOMAIN cols = DOMAIN table /\ \A c \in DOMAIN table : cols[c] = FirstRead(adapter, table[c])
  BY DEF Parsed, FirstRead
<1>3. cols \in Partial(ColumnData)
  <2>1. \A c \in DOMAIN table : cols[c] \in ColumnData
    BY <1>1, <1>2, PartialElim, ReadType
  <2>2. cols \in [DOMAIN table -> ColumnData]
    BY <2>1 DEF Parsed
  <2> QED
    BY <1>1, <2>2, PartialElim, PartialIntro
<1>4. columns' = [columns EXCEPT ![p] = cols] /\ UNCHANGED <<adapter, table, row, schema, parsed, held>>
  BY DEF ReadColumns
<1> HIDE DEF cols
<1>5. TypeOK'
  BY <1>3, <1>4 DEF IInv, TypeOK, Takes
<1>6. \A q \in Programs : columns'[q] = IF q = p THEN cols ELSE columns[q]
  BY <1>4 DEF IInv, TypeOK
<1>7. ReadFromTable'
  BY <1>2, <1>4, <1>6
     DEF IInv, ReadFromTable, ReadColumns
<1> QED
  BY <1>4, <1>5, <1>7 DEF IInv, TableTyped, SchemaHasTable, HeldFits

\* With the indexes, what was read says of each column all that it ever will.
LEMMA ReadIndexesKeeps ==
  ASSUME IInv, NEW p \in Programs, ReadIndexes(p)
  PROVE  IInv'
<1> DEFINE fields == IF adapter = "sqlite" THEN UpdateConstraints(columns[p], table) ELSE columns[p]
<1>1. /\ table \in Partial(ColumnData) /\ \A c \in DOMAIN table : table[c].type \in DataTypes
      /\ columns[p] \in Partial(ColumnData) /\ table # None
      /\ DOMAIN columns[p] \subseteq DOMAIN table
      /\ \A c \in DOMAIN columns[p] : columns[p][c] = FirstRead(adapter, table[c])
  BY DEF ReadIndexes, IInv, TypeOK, TableTyped, ReadFromTable
<1>2. DOMAIN fields = DOMAIN columns[p]
  BY DEF UpdateConstraints
<1>3. \A c \in DOMAIN columns[p] : fields[c] = FullyRead(adapter, table[c])
  <2> SUFFICES ASSUME NEW c \in DOMAIN columns[p]
               PROVE  fields[c] = FullyRead(adapter, table[c])
    OBVIOUS
  <2>1. CASE adapter = "sqlite"
    <3>1. columns[p][c] = SQLiteColumn(table[c]) /\ c \in DOMAIN table
      BY <1>1, <2>1 DEF FirstRead
    <3>2. fields[c] = [columns[p][c] EXCEPT !.unique = @ \/ (c \in DOMAIN table /\ table[c].unique)]
      BY <2>1 DEF UpdateConstraints
    <3>3. columns[p][c] \in ColumnData /\ table[c] \in ColumnData
      BY <1>1, <3>1, PartialElim
    <3>4. fields[c] = [SQLiteColumn(table[c]) EXCEPT !.unique = @ \/ table[c].unique]
      <4>1. SQLiteColumn(table[c]) = columns[p][c] /\ c \in DOMAIN table
        BY <3>1
      <4> HIDE DEF fields
      <4> QED
        BY <3>2, <4>1, Zenon
    <3> QED
      BY <2>1, <3>4 DEF FullyRead
  <2>2. CASE adapter # "sqlite"
    BY <1>1, <2>2 DEF FirstRead, FullyRead
  <2> QED
    BY <2>1, <2>2
<1>4. fields \in Partial(ColumnData)
  <2>1. \A c \in DOMAIN columns[p] : fields[c] \in ColumnData
    BY <1>1, <1>3, PartialElim, ReadType
  <2>2. fields = [c \in DOMAIN columns[p] |-> fields[c]]
    <3>1. CASE adapter = "sqlite"
      BY <3>1 DEF UpdateConstraints
    <3>2. CASE adapter # "sqlite"
      <4>1. columns[p] = [c \in DOMAIN columns[p] |-> columns[p][c]]
        BY <1>1, PartialElim
      <4>2. fields = columns[p]
        BY <3>2
      <4> QED
        BY <4>1, <4>2
    <3> QED
      BY <3>1, <3>2
  <2>3. fields \in [DOMAIN columns[p] -> ColumnData]
    BY <2>1, <2>2
  <2> QED
    BY <1>1, <2>3, PartialElim, PartialIntro
<1>5. /\ schema' = [schema EXCEPT ![p] = fields] /\ parsed' = parsed \cup {p}
      /\ columns' = [columns EXCEPT ![p] = None] /\ UNCHANGED <<adapter, table, row, held>>
  BY DEF ReadIndexes
<1> HIDE DEF fields
<1>6. TypeOK'
  BY <1>4, <1>5 DEF IInv, TypeOK, Takes
<1>7. \A q \in Programs : /\ schema'[q] = IF q = p THEN fields ELSE schema[q]
                          /\ columns'[q] = IF q = p THEN None ELSE columns[q]
  BY <1>5 DEF IInv, TypeOK
<1>8. ReadFromTable'
  BY <1>1, <1>2, <1>3, <1>5, <1>7 DEF IInv, ReadFromTable
<1>9. SchemaHasTable'
  BY <1>1, <1>5 DEF SchemaHasTable
<1>10. HeldFits'
  BY <1>4, <1>5, <1>7, NoneAssumption DEF IInv, HeldFits
<1> QED
  BY <1>5, <1>6, <1>8, <1>9, <1>10 DEF IInv, TableTyped

\* Deleting the row.
LEMMA DeleteKeeps ==
  ASSUME IInv, NEW p \in Programs, Delete(p)
  PROVE  IInv'
  BY RowStep DEF Delete

\* Values that the caller sets are values that a row can have.
LEMMA CellsAreFields == Partial(Cells) \subseteq Partial(Cells \cup {Null})
<1> SUFFICES ASSUME NEW f \in Partial(Cells)
             PROVE  f \in Partial(Cells \cup {Null})
  OBVIOUS
<1>1. DOMAIN f \in SUBSET Columns /\ f \in [DOMAIN f -> Cells \cup {Null}]
  BY PartialElim
<1> QED
  BY <1>1, PartialIntro

\* Whatever a program saves.
LEMMA SavesKeeps ==
  ASSUME IInv, NEW p \in Programs, Saves(p)
  PROVE  IInv'
<1>1. held[p] # None => held[p] \in Partial(Cells \cup {Null})
  BY DEF IInv, TypeOK
<1> QED
  BY <1>1, CellsAreFields, InsertKeeps, UpdateKeeps DEF Saves

\* IInv holds at first, when nothing is there.
LEMMA InitInv == Init => IInv
  BY DEF Init, IInv, TypeOK, TableTyped, SchemaHasTable, ReadFromTable, HeldFits

\* And every step keeps it.
LEMMA InvStep == IInv /\ [Next]_vars => IInv'
<1> SUFFICES ASSUME IInv, [Next]_vars
             PROVE  IInv'
  OBVIOUS
<1>1. ASSUME NEW c \in Columns, NEW col \in Altered, AlterTable(c, col)
      PROVE  IInv'
  BY <1>1, AlterTableKeeps
<1>2. ASSUME NEW p \in Programs,
             CreateTables(p) \/ ReadColumns(p) \/ ReadIndexes(p) \/ Saves(p) \/ Find(p) \/ Delete(p)
      PROVE  IInv'
  BY <1>2, CreateTablesKeeps, ReadColumnsKeeps, ReadIndexesKeeps, SavesKeeps, FindKeeps, DeleteKeeps
<1>3. CASE UNCHANGED vars
  <2>1. TypeOK'
    BY <1>3 DEF vars, IInv, TypeOK, Takes
  <2> QED
    BY <1>3, <2>1, SameSchemas DEF vars, IInv, HeldFits
<1> QED
  BY <1>1, <1>2, <1>3 DEF Next

\* The invariant of the specification.
LEMMA Inductive == Spec => []IInv
  BY InitInv, InvStep, PTL DEF Spec

-----------------------------------------------------------------------------
(* The theorems.                                                           *)

\* The variables have their types; a row has a value, or an allowed NULL, in
\* every column that the table has by then, whoever added it.
THEOREM TypeCorrect == Spec => []TypeOK
<1>1. IInv => TypeOK
  BY DEF IInv
<1> QED
  BY <1>1, Inductive, PTL

\* A schema that was read from the database still reads every object, but for
\* the columns that are Unreadable: it has the columns of the table, and knows
\* where a NULL can be.
THEOREM ParsedCanRead == Spec => []ParsedReads
<1>1. IInv => ParsedReads
  <2> SUFFICES ASSUME IInv, NEW p \in parsed, DOMAIN schema[p] \cap Unreadable = {}
               PROVE  CanFind(p)
    BY DEF ParsedReads
  <2>1. /\ p \in Programs /\ table # None /\ DOMAIN schema[p] \subseteq DOMAIN table
        /\ \A c \in DOMAIN schema[p] : schema[p][c] = FullyRead(adapter, table[c])
    BY DEF IInv, TypeOK, ReadFromTable
  <2>2. ASSUME NEW c \in DOMAIN schema[p]
        PROVE  /\ Scans(schema[p][c].type)
               /\ row # None /\ row[c] = Null => schema[p][c].nullable /\ schema[p][c].type \in NullableTypes
    <3>1. c \in DOMAIN table /\ table[c] \in ColumnData /\ table[c].type \in DataTypes
      BY <2>1, PartialElim DEF IInv, TypeOK, TableTyped
    <3>2. adapter # "sqlite" => TiDBShows[table[c].type] \in DataTypes
      BY <3>1 DEF Unreadable
    <3>3. row # None /\ row[c] = Null => table[c].nullable /\ table[c].type \in NullableTypes
      BY <3>1 DEF Unreadable, IInv, TypeOK, Takes
    <3>4. CASE adapter = "sqlite"
      <4>1. schema[p][c] = [SQLiteColumn(table[c]) EXCEPT !.unique = @ \/ table[c].unique]
        BY <2>1, <3>4 DEF FullyRead
      <4>2. SQLiteColumn(table[c]) \in ColumnData
        BY <3>1 DEF SQLiteColumn, ColumnData
      <4>3. /\ SQLiteColumn(table[c]).nullable = table[c].nullable
            /\ SQLiteColumn(table[c]).type = table[c].type
        BY <3>1 DEF SQLiteColumn, ColumnData
      <4>4. schema[p][c].nullable = table[c].nullable /\ schema[p][c].type = table[c].type
        BY <4>1, <4>2, <4>3 DEF ColumnData
      <4> QED
        BY <3>3, <3>4, <4>4 DEF Scans
    <3>5. CASE adapter # "sqlite"
      <4>1. schema[p][c] = [table[c] EXCEPT !.type = TiDBShows[@]]
        BY <2>1, <3>5 DEF FullyRead, InfoSchemaColumn
      <4>2. schema[p][c].nullable = table[c].nullable /\ schema[p][c].type = TiDBShows[table[c].type]
        BY <3>1, <4>1 DEF ColumnData
      <4>3. table[c].type \in NullableTypes /\ TiDBShows[table[c].type] \in DataTypes =>
              TiDBShows[table[c].type] \in NullableTypes
        BY <3>1 DEF TiDBShows, DataTypes, NullableTypes
      <4> QED
        BY <3>2, <3>3, <3>5, <4>2, <4>3 DEF Scans
    <3> QED
      BY <3>4, <3>5
  <2> QED
    BY <2>1, <2>2 DEF CanFind
<1> QED
  BY <1>1, Inductive, PTL

\* What SQLite shows of a column with its indexes is the column, but for a DEFAULT.
LEMMA SQLiteRead ==
  ASSUME NEW col \in ColumnData
  PROVE  LET r == FullyRead("sqlite", col)
         IN  /\ r.nullable = col.nullable /\ r.unique = col.unique
             /\ r.default = IF col.default = None THEN None ELSE "quoted"
             /\ col.default = None => r = col
<1> DEFINE s == SQLiteColumn(col)
           r == FullyRead("sqlite", col)
<1>1. /\ s \in [type : DataTypes \cup {"bigint", "tinyint", "double"}, nullable : BOOLEAN, unique : BOOLEAN,
                default : {None, "plain", "quoted"}]
      /\ s.type = col.type /\ s.nullable = col.nullable /\ s.unique = FALSE
      /\ s.default = IF col.default = None THEN None ELSE "quoted"
  BY DEF SQLiteColumn, ColumnData
<1>2. r = [s EXCEPT !.unique = @ \/ col.unique]
  BY DEF FullyRead
<1> HIDE DEF s, r
<1>3. col.unique \in BOOLEAN
  BY DEF ColumnData
<1>4. r = [s EXCEPT !.unique = col.unique]
  BY <1>1, <1>2, <1>3
<1>5. /\ r.nullable = s.nullable /\ r.unique = col.unique /\ r.default = s.default /\ r.type = s.type
      /\ r \in [type : DataTypes \cup {"bigint", "tinyint", "double"}, nullable : BOOLEAN, unique : BOOLEAN,
                default : {None, "plain", "quoted"}]
  BY <1>1, <1>3, <1>4
<1>6. col.default = None => r = col
  BY <1>1, <1>5 DEF ColumnData
<1> QED
  BY <1>1, <1>5, <1>6 DEF r

\* A schema that was read from the database says what was declared.
THEOREM ParsedAsDeclared == Spec => []ParsedIsDeclared
<1>1. IInv => ParsedIsDeclared
  <2> SUFFICES ASSUME IInv, NEW p \in parsed
               PROVE  LET cols == DOMAIN schema[p]
                      IN  /\ \A c \in cols : /\ schema[p][c].nullable = table[c].nullable
                                             /\ schema[p][c].unique = table[c].unique
                          /\ adapter = "sqlite" /\ (\A c \in cols : table[c].default = None) =>
                               Creatable(schema[p]) /\ \A c \in cols : schema[p][c] = table[c]
    BY DEF ParsedIsDeclared
  <2>1. /\ p \in Programs /\ DOMAIN schema[p] \subseteq DOMAIN table
        /\ \A c \in DOMAIN schema[p] : schema[p][c] = FullyRead(adapter, table[c])
    BY DEF IInv, TypeOK, ReadFromTable
  <2>2. \A c \in DOMAIN schema[p] : table[c] \in ColumnData
    BY <2>1, PartialElim DEF IInv, TypeOK, ReadFromTable
  <2>3. ASSUME NEW c \in DOMAIN schema[p], adapter # "sqlite"
        PROVE  schema[p][c].nullable = table[c].nullable /\ schema[p][c].unique = table[c].unique
    <3>1. schema[p][c] = [table[c] EXCEPT !.type = TiDBShows[@]]
      BY <2>1, <2>3 DEF FullyRead, InfoSchemaColumn
    <3> QED
      BY <2>2, <3>1 DEF ColumnData
  <2>4. ASSUME NEW c \in DOMAIN schema[p], adapter = "sqlite"
        PROVE  /\ schema[p][c].nullable = table[c].nullable /\ schema[p][c].unique = table[c].unique
               /\ table[c].default = None => schema[p][c] = table[c]
    BY <2>1, <2>2, <2>4, SQLiteRead
  <2>5. None # "quoted"
    BY NoneAssumption
  <2> QED
    BY <2>3, <2>4, <2>5 DEF Creatable
<1> QED
  BY <1>1, Inductive, PTL

\* What was found can be saved again: a table only grows, so that it still has the
\* columns of the object, and allows NULL where the object has it.
THEOREM FoundSaved == Spec => []FoundCanBeSaved
<1>1. IInv => FoundCanBeSaved
  <2> SUFFICES ASSUME IInv, NEW p \in Programs, held[p] # None, DOMAIN held[p] # {}
               PROVE  /\ row # None => CanUpdate(p, held[p])
                      /\ Required(table) \subseteq DOMAIN held[p] /\ DOMAIN held[p] \subseteq DOMAIN schema[p] =>
                           CanInsert(p, held[p])
    BY DEF FoundCanBeSaved
  <2> DEFINE f == held[p]
  <2>1. /\ schema[p] # None /\ DOMAIN f \subseteq DOMAIN table
        /\ \A c \in DOMAIN f : f[c] = Null => table[c].nullable
    BY DEF IInv, HeldFits
  <2>2. row # None => \A c \in DOMAIN table : row[c] = Null => table[c].nullable
    BY DEF IInv, TypeOK, Takes
  <2>3. row # None => Takes(Over(f))
    BY <2>1, <2>2 DEF Takes, Over
  <2>4. ASSUME Required(table) \subseteq DOMAIN f
        PROVE  Takes(Fresh(f))
    <3> SUFFICES ASSUME NEW c \in DOMAIN table, Fresh(f)[c] = Null
                 PROVE  table[c].nullable
      BY DEF Takes
    <3>1. CASE c \in DOMAIN f
      BY <2>1, <3>1 DEF Fresh
    <3>2. CASE c \notin DOMAIN f
      BY <2>4, <3>2, CellsAssumption DEF Fresh, Required
    <3> QED
      BY <3>1, <3>2
  <2> HIDE DEF f
  <2>5. row # None => CanUpdate(p, f)
    BY <2>1, <2>3 DEF CanUpdate, f
  <2>6. Required(table) \subseteq DOMAIN f /\ DOMAIN f \subseteq DOMAIN schema[p] => CanInsert(p, f)
    BY <2>1, <2>3, <2>4 DEF CanInsert, Inserted, f
  <2> QED
    BY <2>5, <2>6 DEF f
<1> QED
  BY <1>1, Inductive, PTL

\* An AlterTable over rows keeps nobody from inserting.
THEOREM NobodyIsLockedOut == Spec => NobodyLockedOut
<1>1. ASSUME NEW c \in Columns, NEW col \in Altered, AlterTable(c, col), TypeOK,
             adapter # "tidb", row # None \/ adapter = "sqlite"
      PROVE  LockedOut' \subseteq LockedOut
  <2>1. col.nullable
    <3>1. CASE adapter = "sqlite"
      <4>1. NotNull = "refused"
        BY <3>1 DEF NotNull, SQLiteAlter
      <4> QED
        BY <1>1, <4>1 DEF AlterTable
    <3>2. CASE adapter # "sqlite"
      <4>1. adapter \in {"postgres", "sqlserver", "oracle", "cockroach", "yugabyte"}
        BY <1>1, <3>2, AdaptersAssumption DEF TypeOK, AllAdapters
      <4>2. NotNull = "refused over rows"
        <5>1. CASE adapter = "postgres"
          BY <5>1 DEF NotNull, PostgresAlter
        <5>2. CASE adapter = "sqlserver"
          BY <5>2 DEF NotNull, SQLServerAlter
        <5>3. CASE adapter = "oracle"
          BY <5>3 DEF NotNull, OracleAlter
        <5>4. CASE adapter = "cockroach"
          BY <5>4 DEF NotNull, CockroachAlter
        <5>5. CASE adapter = "yugabyte"
          BY <5>5 DEF NotNull, YugabyteAlter
        <5> QED
          BY <4>1, <5>1, <5>2, <5>3, <5>4, <5>5
      <4> QED
        BY <1>1, <3>2, <4>2 DEF AlterTable
    <3> QED
      BY <3>1, <3>2
  <2>2. table' = [k \in DOMAIN table \cup {c} |-> IF k = c THEN col ELSE table[k]] /\ c \notin DOMAIN table
    BY <1>1 DEF AlterTable
  <2>3. DOMAIN table' = DOMAIN table \cup {c} /\ table'[c] = col /\ \A k \in DOMAIN table : table'[k] = table[k]
    BY <2>2
  <2>4. Required(table') \subseteq Required(table)
    BY <2>1, <2>3 DEF Required
  <2>5. schema' = schema /\ table # None
    BY <1>1 DEF AlterTable
  <2> QED
    BY <2>4, <2>5 DEF LockedOut
<1>2. TypeOK /\ [Next]_vars =>
        [\A c \in Columns, col \in Altered :
           AlterTable(c, col) /\ adapter # "tidb" /\ (row # None \/ adapter = "sqlite") =>
             LockedOut' \subseteq LockedOut]_vars
  BY <1>1
<1> QED
  BY <1>2, TypeCorrect, PTL DEF Spec, NobodyLockedOut
=============================================================================
