----------------------------- MODULE TableCreation -----------------------------
(***************************************************************************)
(* CreateTables of the SQL and ScyllaDB adapters: several programs, each   *)
(* with a storage of its own, start against one database. A call creates   *)
(* the tables of the schema one statement at a time, in the order of a Go  *)
(* map; it sets the storage's schema when all of them are there, and       *)
(* returns the first error otherwise. The programs call it until it        *)
(* returns nil, and use the tables from then on.                           *)
(***************************************************************************)
EXTENDS Naturals

CONSTANTS
  Programs,
  Tables,      \* the tables of the schema
  UniqueType,  \* by table: the DataType of its unique column, or "none"
  Adapters,    \* the adapters under study
  MaxFaults,   \* bound on crashes and on errors of the database
  NoTable      \* no table at hand

AllAdapters ==
  {"sqlite", "postgres", "sqlserver", "oracle", "cockroach", "yugabyte", "tidb", "scylla"}

\* The DataTypes the schema gives its unique columns.
UniqueTypes == {"text", "varchar", "integer"}

ASSUME AdaptersAssumption == Adapters \subseteq AllAdapters
ASSUME UniqueAssumption   == UniqueType \in [Tables -> UniqueTypes \cup {"none"}]
ASSUME FaultsAssumption   == MaxFaults \in Nat
ASSUME NoTableAssumption  == NoTable \notin Tables

UniqueTables == {t \in Tables : UniqueType[t] # "none"}

VARIABLES
  adapter,      \* the adapter the programs use
  exists,       \* the tables in the database
  constrained,  \* those whose column is UNIQUE in the database
  dups,         \* those with two rows that agree on the unique column
  ready,        \* by program: its storage has the schema
  at,           \* by program: where it is in CreateTables
  table,        \* by program: the table of the statements at hand
  todo,         \* by program: the tables the loop has not finished
  faults        \* crashes and database errors so far

vars == <<adapter, exists, constrained, dups, ready, at, table, todo, faults>>

Init ==
  /\ adapter \in Adapters
  /\ exists = {} /\ constrained = {} /\ dups = {}
  /\ ready = [p \in Programs |-> FALSE]
  /\ at = [p \in Programs |-> "idle"]
  /\ table = [p \in Programs |-> NoTable]
  /\ todo = [p \in Programs |-> {}]
  /\ faults = 0

-----------------------------------------------------------------------------
(* The statements.                                                         *)

\* mapDataType: the column types a unique index can be built on. TEXT becomes
\* NVARCHAR(MAX) or CLOB, VARCHAR too, or in TiDB VARCHAR(255).
SQLServerIndexable == {"integer"}
OracleIndexable    == {"integer"}
TiDBIndexable      == {"integer", "varchar"}

Indexable(t) ==
  CASE adapter = "sqlserver" -> UniqueType[t] \in SQLServerIndexable
    [] adapter = "oracle"    -> UniqueType[t] \in OracleIndexable
    [] adapter = "tidb"      -> UniqueType[t] \in TiDBIndexable
    [] OTHER                 -> TRUE

\* Mutant of Altering: TiDB adds the constraint as Oracle does.
MutAltering == {"oracle", "tidb"}

\* These check for the table and add the constraint in statements of their own.
Altering == {"oracle"}

\* These say UNIQUE in the CREATE TABLE; ScyllaDB has no such constraint.
Inline == AllAdapters \ (Altering \cup {"scylla"})

\* CREATE TABLE IF NOT EXISTS passes over a table that is there; a UNIQUE
\* column that cannot be indexed makes the database refuse the statement.
Creatable(t) ==
  t \in exists \/ (adapter \in Inline /\ t \in UniqueTables => Indexable(t))

\* What CREATE TABLE does to the database.
Created(t) ==
  /\ exists' = exists \cup {t}
  /\ constrained' =
       IF t \notin exists /\ adapter \in Inline /\ t \in UniqueTables
         THEN constrained \cup {t} ELSE constrained

Untouched == UNCHANGED <<exists, constrained>>

-----------------------------------------------------------------------------
(* A call of CreateTables by program p.                                    *)

CreateTables(p) ==
  /\ at[p] = "idle" /\ ~ready[p]
  /\ at' = [at EXCEPT ![p] = "loop"]
  /\ todo' = [todo EXCEPT ![p] = Tables]
  /\ UNCHANGED <<adapter, exists, constrained, dups, ready, table, faults>>

\* One round of the loop: CREATE TABLE IF NOT EXISTS.
CreateTable(p, t) ==
  /\ at[p] = "loop" /\ t \in todo[p]
  /\ adapter \notin Altering
  /\ Creatable(t)
  /\ Created(t)
  /\ todo' = [todo EXCEPT ![p] = @ \ {t}]
  /\ UNCHANGED <<adapter, dups, ready, at, table, faults>>

\* Mutant of CheckTable: the table is created whether or not it is there.
MutCheckTable(p, t) ==
  /\ at[p] = "loop" /\ t \in todo[p]
  /\ adapter \in Altering
  /\ at' = [at EXCEPT ![p] = "create"]
  /\ table' = [table EXCEPT ![p] = t]
  /\ UNCHANGED <<adapter, exists, constrained, dups, ready, todo, faults>>

\* Oracle: SELECT COUNT(*) FROM user_tables. A table that is there is skipped.
CheckTable(p, t) ==
  /\ at[p] = "loop" /\ t \in todo[p]
  /\ adapter \in Altering
  /\ IF t \in exists
       THEN /\ todo' = [todo EXCEPT ![p] = @ \ {t}]
            /\ UNCHANGED <<at, table>>
       ELSE /\ at' = [at EXCEPT ![p] = "create"]
            /\ table' = [table EXCEPT ![p] = t]
            /\ UNCHANGED todo
  /\ UNCHANGED <<adapter, exists, constrained, dups, ready, faults>>

\* Oracle: CREATE TABLE, if nobody created the table since.
CreateChecked(p) ==
  /\ at[p] = "create" /\ table[p] \notin exists
  /\ Created(table[p])
  /\ IF table[p] \in UniqueTables
       THEN /\ at' = [at EXCEPT ![p] = "constrain"]
            /\ UNCHANGED <<table, todo>>
       ELSE /\ at' = [at EXCEPT ![p] = "loop"]
            /\ table' = [table EXCEPT ![p] = NoTable]
            /\ todo' = [todo EXCEPT ![p] = @ \ {table[p]}]
  /\ UNCHANGED <<adapter, dups, ready, faults>>

\* Oracle: ALTER TABLE ADD CONSTRAINT UNIQUE. An error is only logged.
AddConstraint(p) ==
  /\ at[p] = "constrain"
  /\ \/ /\ Indexable(table[p]) /\ table[p] \notin dups
        /\ constrained' = constrained \cup {table[p]}
        /\ UNCHANGED faults
     \/ /\ ~Indexable(table[p]) \/ table[p] \in dups
        /\ UNCHANGED <<constrained, faults>>
     \/ /\ faults < MaxFaults /\ faults' = faults + 1
        /\ UNCHANGED constrained
  /\ at' = [at EXCEPT ![p] = "loop"]
  /\ table' = [table EXCEPT ![p] = NoTable]
  /\ todo' = [todo EXCEPT ![p] = @ \ {table[p]}]
  /\ UNCHANGED <<adapter, exists, dups, ready>>

SetSchema(p) ==
  /\ at[p] = "loop" /\ todo[p] = {}
  /\ ready' = [ready EXCEPT ![p] = TRUE]
  /\ at' = [at EXCEPT ![p] = "idle"]
  /\ UNCHANGED <<adapter, exists, constrained, dups, table, todo, faults>>

\* The call is over, and with it its place in the loop.
Stops(p) ==
  /\ at' = [at EXCEPT ![p] = "idle"]
  /\ table' = [table EXCEPT ![p] = NoTable]
  /\ todo' = [todo EXCEPT ![p] = {}]

\* The database refuses CREATE TABLE: the call returns the error.
Refused(p) ==
  /\ \/ at[p] = "loop" /\ adapter \notin Altering /\ \E t \in todo[p] : ~Creatable(t)
     \/ at[p] = "create" /\ table[p] \in exists
  /\ Stops(p)
  /\ UNCHANGED <<adapter, exists, constrained, dups, ready, faults>>

\* Mutant of Fails: an error of CREATE TABLE is only logged.
MutFails(p) ==
  /\ faults < MaxFaults /\ faults' = faults + 1
  /\ at[p] = "loop"
  /\ \E t \in todo[p] : todo' = [todo EXCEPT ![p] = @ \ {t}]
  /\ UNCHANGED <<adapter, exists, constrained, dups, ready, at, table>>

\* A statement ends in an error, the connection is lost or the context is
\* cancelled, before or after the database carried it out.
Fails(p) ==
  /\ faults < MaxFaults /\ faults' = faults + 1
  /\ \/ at[p] = "loop" /\ todo[p] # {} /\ Untouched
     \/ at[p] = "loop" /\ adapter \notin Altering
        /\ \E t \in todo[p] : Creatable(t) /\ Created(t)
     \/ at[p] = "create" /\ Untouched
     \/ at[p] = "create" /\ table[p] \notin exists /\ Created(table[p])
  /\ Stops(p)
  /\ UNCHANGED <<adapter, dups, ready>>

\* The program ends, anywhere, and is started again.
Crash(p) ==
  /\ faults < MaxFaults /\ faults' = faults + 1
  /\ ready' = [ready EXCEPT ![p] = FALSE]
  /\ Stops(p)
  /\ UNCHANGED <<adapter, exists, constrained, dups>>

\* A program that is ready inserts two rows that agree on the unique column.
InsertTwice(p, t) ==
  /\ ready[p] /\ t \in UniqueTables \cap exists
  /\ t \notin constrained
  /\ dups' = dups \cup {t}
  /\ UNCHANGED <<adapter, exists, constrained, ready, at, table, todo, faults>>

Proceeds(p) ==
  \/ CreateTables(p)
  \/ \E t \in Tables : CreateTable(p, t) \/ CheckTable(p, t)
  \/ CreateChecked(p)
  \/ AddConstraint(p)
  \/ SetSchema(p)
  \/ Refused(p)

Next ==
  \E p \in Programs :
    \/ Proceeds(p)
    \/ Fails(p)
    \/ Crash(p)
    \/ \E t \in Tables : InsertTwice(p, t)

Spec == Init /\ [][Next]_vars

\* Programs run, and call CreateTables until it returns nil.
FairSpec == Spec /\ \A p \in Programs : WF_vars(Proceeds(p))
-----------------------------------------------------------------------------
(* Properties.                                                             *)

\* The types of the variables.
TypeOK ==
  /\ adapter \in Adapters
  /\ exists \subseteq Tables
  /\ constrained \subseteq Tables
  /\ dups \subseteq Tables
  /\ ready \in [Programs -> BOOLEAN]
  /\ at \in [Programs -> {"idle", "loop", "create", "constrain"}]
  /\ table \in [Programs -> Tables \cup {NoTable}]
  /\ todo \in [Programs -> SUBSET Tables]
  /\ faults \in 0 .. MaxFaults

\* A storage has a schema only when the database has all of its tables,
\* whatever failed, and whoever else created them.
ReadyMeansCreated == \A p \in Programs : ready[p] => exists = Tables

\* A field that the schema calls unique is unique in the database
\* (README: "// Unique constraint").
NoDuplicates == dups = {}

\* It is with the adapters that declare it in CREATE TABLE, whoever created the
\* table and whatever failed.
UniqueWhereDeclared == adapter \notin {"oracle", "scylla"} => NoDuplicates

\* No call can succeed: a unique column is of a type that has no index (TEXT in
\* TiDB, as the quick start's email).
Unindexable == adapter \in Inline /\ \E t \in UniqueTables : ~Indexable(t)

\* Nothing else stops CreateTables for good: over tables left behind by a call
\* that failed, or created by another program meanwhile, every program is ready
\* in the end.
EventuallyReady == \A p \in Programs : <>[](ready[p] \/ Unindexable)

\* The inductive invariant: a program in the loop has finished the other
\* tables, and a table of an adapter that says UNIQUE was born with it.
LoopIsAhead ==
  \A p \in Programs :
    /\ at[p] = "loop" => Tables \ todo[p] \subseteq exists
    /\ at[p] \in {"create", "constrain"} =>
         table[p] \in Tables /\ Tables \ todo[p] \subseteq exists
    /\ at[p] = "constrain" => table[p] \in exists

BornUnique == adapter \in Inline => exists \cap UniqueTables \subseteq constrained

IInv == ReadyMeansCreated /\ LoopIsAhead /\ BornUnique
=============================================================================
