----------------------------- MODULE SchemaEvolution -----------------------------
(***************************************************************************)
(* One table that outlives the programs and the schemas it was made for.   *)
(* CreateTables passes over a table that is there, AlterTable changes the  *)
(* table and no schema, the infoschema package reads a schema back from    *)
(* the database: programs with different schemas work on the same rows.    *)
(* The column "id", which every schema and every table has, is left out,    *)
(* and so are JSON and times, whose values change on the way (FieldCodec). *)
(***************************************************************************)
EXTENDS Naturals

CONSTANTS
  Programs,
  Columns,
  Declared,  \* by program: the fields of the schema it calls CreateTables with
  Altered,   \* the ColumnData that AlterTable is called for
  Cells,     \* the values of columns
  Default,   \* the one that is the Default of fields, where they have one
  Adapters,  \* the adapters under study
  Null,      \* SQL NULL
  None       \* no table, no row, no schema; no Default

AllAdapters == {"sqlite", "postgres", "sqlserver", "oracle", "cockroach", "yugabyte", "tidb"}

DataTypes  == {"text", "varchar", "integer", "boolean", "real"}
ColumnData == [type : DataTypes \cup {"bigint", "tinyint", "double"}, nullable : BOOLEAN, unique : BOOLEAN,
               default : {None, "plain", "quoted"}]

\* Functions on some of the columns.
Partial(S) == UNION {[D -> S] : D \in SUBSET Columns}

ASSUME AdaptersAssumption == Adapters \subseteq AllAdapters
ASSUME DeclaredAssumption ==
  Declared \in [Programs -> Partial({col \in ColumnData : col.type \in DataTypes})]
ASSUME AlteredAssumption == Altered \subseteq [type : DataTypes, nullable : BOOLEAN,
                                               unique : {FALSE}, default : {None}]
ASSUME CellsAssumption == Default \in Cells /\ Null \notin Cells /\ None \notin Cells
ASSUME NoneAssumption  == None \notin {"plain", "quoted"} /\ None \notin Partial(ColumnData)

VARIABLES
  adapter,  \* the adapter the programs use
  table,    \* the columns of the table in the database
  row,      \* the row under study
  schema,   \* by program: the fields of its schema
  parsed,   \* the programs whose schema was read from the database
  columns,  \* by program: the columns it has read so far
  held      \* by program: the Fields of the object it found last

vars == <<adapter, table, row, schema, parsed, columns, held>>

Init ==
  /\ adapter \in Adapters
  /\ table = None /\ row = None
  /\ schema = [p \in Programs |-> None]
  /\ parsed = {}
  /\ columns = [p \in Programs |-> None]
  /\ held = [p \in Programs |-> None]

-----------------------------------------------------------------------------
(* Columns, and what becomes of them on the way to the database and back.  *)

\* mapDataType of TiDB, as information_schema shows it afterwards.
TiDBShows == [text |-> "text", varchar |-> "varchar", integer |-> "bigint",
              boolean |-> "tinyint", real |-> "double"]

\* A find of a field of type t scans it, and does not refuse it.
Scans(t) == adapter = "sqlite" \/ t \in DataTypes

\* The types of nullable fields for which the finds of all adapters have a
\* pointer, so that they can scan NULL. A bool and a float64 cannot take it.
NullableTypes == {"text", "varchar", "integer"}

\* CREATE TABLE takes the fields as they are, but no quotes in a DEFAULT '%v'.
Creatable(fields) == \A c \in DOMAIN fields : fields[c].default # "quoted"

\* Mutant of SQLiteColumn: the flag notnull is taken for "nullable".
MutSQLiteColumn(col) ==
  [col EXCEPT !.nullable = ~@, !.unique = FALSE, !.default = IF @ = None THEN None ELSE "quoted"]

\* convertColumn of the SQLite adapter: PRAGMA table_info shows the type as it
\* was declared and the DEFAULT clause with its quotes, and nothing of UNIQUE.
SQLiteColumn(col) ==
  [col EXCEPT !.unique = FALSE, !.default = IF @ = None THEN None ELSE "quoted"]

\* Mutant of InfoSchemaColumn: the DataType is taken from column_type.
MutInfoSchemaColumn(col) == [col EXCEPT !.type = "varchar(255)"]

\* convertColumn of the parser for INFORMATION_SCHEMA: UNIQUE is in column_key.
InfoSchemaColumn(col) == [col EXCEPT !.type = TiDBShows[@]]

\* AddField of every column that was read.
Parsed(cols) ==
  [c \in DOMAIN cols |-> IF adapter = "sqlite" THEN SQLiteColumn(cols[c]) ELSE InfoSchemaColumn(cols[c])]

\* Mutant of UpdateConstraints: like processIndexes it skips automatic indexes.
MutUpdateConstraints(fields, cols) == fields

\* updateColumnConstraints: every index on a single column, the automatic ones
\* of UNIQUE clauses too, if the field is among those that were read.
UpdateConstraints(fields, cols) ==
  [c \in DOMAIN fields |-> [fields[c] EXCEPT !.unique = @ \/ (c \in DOMAIN cols /\ cols[c].unique)]]

Required(cols) == {c \in DOMAIN cols : ~cols[c].nullable /\ cols[c].default = None}

-----------------------------------------------------------------------------
(* Making and changing the table.                                          *)

\* Mutant of CreateTables: the table is dropped first.
MutCreateTables(p) ==
  /\ table' = Declared[p]
  /\ row' = None
  /\ schema' = [schema EXCEPT ![p] = Declared[p]]
  /\ parsed' = parsed \ {p}
  /\ UNCHANGED <<adapter, columns, held>>

\* CREATE TABLE IF NOT EXISTS, and SetSchema whether or not it did something.
CreateTables(p) ==
  /\ Creatable(Declared[p])
  /\ table' = IF table = None THEN Declared[p] ELSE table
  /\ schema' = [schema EXCEPT ![p] = Declared[p]]
  /\ parsed' = parsed \ {p}
  /\ UNCHANGED <<adapter, row, columns, held>>

\* What the databases make of ADD COLUMN NOT NULL without a DEFAULT: it is
\* refused, refused if there are rows, or the rows get a value ("" or 0).
SQLiteAlter    == "refused"
PostgresAlter  == "refused over rows"
SQLServerAlter == "refused over rows"
OracleAlter    == "refused over rows"

\* Mutant of CockroachAlter: the rows are given a value first.
MutCockroachAlter == "fills"

CockroachAlter == "refused over rows"
YugabyteAlter  == "refused over rows"
TiDBAlter      == "fills"

NotNull ==
  [sqlite |-> SQLiteAlter, postgres |-> PostgresAlter, sqlserver |-> SQLServerAlter,
   oracle |-> OracleAlter, cockroach |-> CockroachAlter, yugabyte |-> YugabyteAlter,
   tidb |-> TiDBAlter][adapter]

\* AlterTable: the column is added, to the table and to nobody's schema. Other
\* calls of it end in an error and change nothing.
AlterTable(c, col) ==
  /\ table # None /\ c \notin DOMAIN table
  /\ \/ col.nullable
     \/ NotNull = "refused over rows" /\ row = None
     \/ NotNull = "fills"
  /\ table' = [k \in DOMAIN table \cup {c} |-> IF k = c THEN col ELSE table[k]]
  /\ row' = IF row = None THEN None
            ELSE [k \in DOMAIN table' |->
                    IF k # c THEN row[k] ELSE IF col.nullable THEN Null ELSE Default]
  /\ UNCHANGED <<adapter, schema, parsed, columns, held>>

\* ParseSchema, ParseTableFromName: the columns are read in one query ...
\* (The queries are written for SQLite and for MySQL's INFORMATION_SCHEMA.)
ReadColumns(p) ==
  /\ adapter \in {"sqlite", "tidb"} /\ table # None
  /\ columns' = [columns EXCEPT ![p] = Parsed(table)]
  /\ UNCHANGED <<adapter, table, row, schema, parsed, held>>

\* ... and the indexes in others. The schema is the program's from then on.
ReadIndexes(p) ==
  /\ columns[p] # None
  /\ schema' = [schema EXCEPT ![p] =
                  IF adapter = "sqlite" THEN UpdateConstraints(columns[p], table) ELSE columns[p]]
  /\ parsed' = parsed \cup {p}
  /\ columns' = [columns EXCEPT ![p] = None]
  /\ UNCHANGED <<adapter, table, row, held>>

-----------------------------------------------------------------------------
(* Working on the row.                                                     *)

\* The fields f over the columns of the table, and the database's defaults.
Fresh(f) ==
  [c \in DOMAIN table |->
     IF c \in DOMAIN f THEN f[c] ELSE IF table[c].default = None THEN Null ELSE Default]

\* UPDATE SET of the fields f.
Over(f) == [c \in DOMAIN table |-> IF c \in DOMAIN f THEN f[c] ELSE row[c]]

\* The database takes r: no NULL in a NOT NULL column.
Takes(r) == \A c \in DOMAIN table : r[c] = Null => table[c].nullable

\* What an Insert makes of the row; REPLACE deletes it first.
Inserted(f) == IF adapter \in {"sqlite", "tidb"} \/ row = None THEN Fresh(f) ELSE Over(f)

\* Insert and Upsert, with fields of the schema only. ON CONFLICT, and Oracle's
\* INSERT, look at NOT NULL before they look for a row that is there; MERGE does
\* not. (An object of nothing but its id is left out.)
CanInsert(p, f) ==
  /\ schema[p] # None /\ DOMAIN f # {} /\ DOMAIN f \subseteq DOMAIN schema[p] \cap DOMAIN table
  /\ Takes(Inserted(f)) /\ (adapter # "sqlserver" => Takes(Fresh(f)))

Insert(p, f) ==
  /\ CanInsert(p, f)
  /\ row' = Inserted(f)
  /\ UNCHANGED <<adapter, table, schema, parsed, columns, held>>

\* Update, which names the fields of the object and does not ask the schema.
CanUpdate(p, f) ==
  /\ schema[p] # None /\ DOMAIN f # {} /\ DOMAIN f \subseteq DOMAIN table
  /\ row # None /\ Takes(Over(f))

Update(p, f) ==
  /\ CanUpdate(p, f)
  /\ row' = Over(f)
  /\ UNCHANGED <<adapter, table, schema, parsed, columns, held>>

\* A find selects the fields of the schema: it works if the table has them, their
\* types are scanned, and each NULL into a variable that takes it.
CanFind(p) ==
  /\ DOMAIN schema[p] \subseteq DOMAIN table
  /\ \A c \in DOMAIN schema[p] :
       /\ Scans(schema[p][c].type)
       /\ row # None /\ row[c] = Null => schema[p][c].nullable /\ schema[p][c].type \in NullableTypes

\* YugabyteDB's find returns an object without its values.

Find(p) ==
  /\ adapter # "yugabyte" /\ schema[p] # None /\ CanFind(p) /\ row # None
  /\ held' = [held EXCEPT ![p] = [c \in DOMAIN schema[p] |-> row[c]]]
  /\ UNCHANGED <<adapter, table, row, schema, parsed, columns>>

Delete(p) ==
  /\ schema[p] # None /\ row # None
  /\ row' = None
  /\ UNCHANGED <<adapter, table, schema, parsed, columns, held>>

\* What is saved: fields of the caller's, or the object as it was found.
Saves(p) ==
  \/ \E f \in Partial(Cells) : Insert(p, f) \/ Update(p, f)
  \/ held[p] # None /\ (Insert(p, held[p]) \/ Update(p, held[p]))

Next ==
  \/ \E c \in Columns, col \in Altered : AlterTable(c, col)
  \/ \E p \in Programs :
       CreateTables(p) \/ ReadColumns(p) \/ ReadIndexes(p) \/ Saves(p) \/ Find(p) \/ Delete(p)

Spec == Init /\ [][Next]_vars

-----------------------------------------------------------------------------
(* Properties.                                                             *)

\* The types of the variables.
TypeOK ==
  /\ adapter \in Adapters
  /\ table \in Partial(ColumnData) \cup {None}
  /\ row \in Partial(Cells \cup {Null}) \cup {None}
  /\ row # None => table # None /\ DOMAIN row = DOMAIN table /\ Takes(row)
  /\ parsed \subseteq Programs
  /\ schema \in [Programs -> Partial(ColumnData) \cup {None}]
  /\ columns \in [Programs -> Partial(ColumnData) \cup {None}]
  /\ held \in [Programs -> Partial(Cells \cup {Null}) \cup {None}]

\* The columns that no schema read from the database reads: in TiDB those whose
\* types come back under names that the finds refuse, and, while the row has a
\* NULL there, those of the types that take none.
Unreadable ==
  {c \in DOMAIN table :
     \/ adapter # "sqlite" /\ TiDBShows[table[c].type] \notin DataTypes
     \/ row # None /\ row[c] = Null /\ table[c].type \notin NullableTypes}

\* A program that works with a schema it has read from the database can read
\* every object, also the NULLs of columns that were added over it, whatever was
\* added to the table during the reading or since: but for Unreadable columns.
ParsedReads ==
  \A p \in parsed : DOMAIN schema[p] \cap Unreadable = {} => CanFind(p)

\* A schema read back says what was declared: the programs that read it find
\* the same columns NULL and UNIQUE as the program that made the table, and, in
\* SQLite, CreateTables makes the same table of it elsewhere, but for a DEFAULT,
\* which comes back in quotes.
ParsedIsDeclared ==
  \A p \in parsed :
    LET cols == DOMAIN schema[p]
    IN  /\ \A c \in cols : /\ schema[p][c].nullable = table[c].nullable
                           /\ schema[p][c].unique = table[c].unique
        /\ adapter = "sqlite" /\ (\A c \in cols : table[c].default = None) =>
             Creatable(schema[p]) /\ \A c \in cols : schema[p][c] = table[c]

\* What a program has found it can save again, whatever others have made of the
\* table and the row since, and of whichever schema of its own it found it: with
\* Update while there is a row, with Insert also when it was deleted, unless new
\* rows have to have a column by now that the object lacks.
FoundCanBeSaved ==
  \A p \in Programs : held[p] # None /\ DOMAIN held[p] # {} =>
    /\ row # None => CanUpdate(p, held[p])
    /\ Required(table) \subseteq DOMAIN held[p] /\ DOMAIN held[p] \subseteq DOMAIN schema[p] =>
         CanInsert(p, held[p])

\* Programs whose schema lacks a column that every new row has to have.
LockedOut ==
  {p \in Programs : schema[p] # None /\ table # None /\ ~(Required(table) \subseteq DOMAIN schema[p])}

\* An AlterTable over a table in use, with rows in it, never keeps programs
\* that could insert before from inserting, except in TiDB; in SQLite never.
NobodyLockedOut ==
  [][\A c \in Columns, col \in Altered :
       AlterTable(c, col) /\ adapter # "tidb" /\ (row # None \/ adapter = "sqlite") =>
         LockedOut' \subseteq LockedOut]_vars
=============================================================================
