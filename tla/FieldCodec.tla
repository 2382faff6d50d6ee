------------------------------ MODULE FieldCodec ------------------------------
(***************************************************************************)
(* One field of one object on its way into a SQL column and back: what     *)
(* Insert and Update bind to the statement, and into which Go variable     *)
(* FindByKey and FindByKeyTx scan the column and how they read it then.    *)
(* Every adapter has its own copy of the scan, one per path.               *)
(*                                                                         *)
(* What a value says is its base; depth counts the JSON encodings around   *)
(* it: 0 is a Go value (a map, say), 1 its JSON text, 2 that text as a     *)
(* JSON string.  Only JSON columns ever hold a depth above 0.              *)
(***************************************************************************)
EXTENDS Naturals

CONSTANTS
  Bases,      \* what a value says, other than nil
  Studied,    \* the adapters and columns under study: <<adapter, [kind, nullable]>>
  MaxDepth,   \* bound on depth: only JSON texts below it are inserted again
  Null,       \* SQL NULL
  None        \* no row; no object read so far

\* YugabyteDB's finds return an object without values: see SqlStatements.
ScanningAdapters == {"sqlite", "postgres", "sqlserver", "oracle", "cockroach", "tidb"}

\* TEXT, VARCHAR, CHAR; INTEGER, INT; REAL, FLOAT; BLOB; BOOLEAN; JSON;
\* DATETIME, TIMESTAMP, DATE, TIME, UUID, CLOB, XML; any other DataType.
Kinds      == {"text", "integer", "real", "blob", "boolean", "json", "time", "other"}
AllColumns == [kind : Kinds, nullable : BOOLEAN]

ASSUME StudiedAssumption  == Studied \subseteq ScanningAdapters \X AllColumns
ASSUME NilAssumption      == "nil" \notin Bases
ASSUME DepthAssumption    == MaxDepth \in Nat \ {0}    \* a JSON text has 1

Values == [base : Bases \cup {"nil"}, depth : 0 .. MaxDepth]
Nil    == [base |-> "nil", depth |-> 0]

ASSUME NullAssumption == {Null, None} \cap Values = {} /\ Null # None

-----------------------------------------------------------------------------
(* Binding.                                                                *)

Bound(v) == IF v = Nil THEN Null ELSE v

\* Insert and Upsert marshal every JSON field, nil and JSON texts included.
Inserted(col, v) ==
  IF col.kind = "json" THEN [v EXCEPT !.depth = @ + 1] ELSE Bound(v)

\* Update binds every field as it is; no driver takes a Go map.
CanUpdate(col, v) == col.kind = "json" => v = Nil \/ v.depth > 0

\* Mutant of Updated: JSON fields are marshalled, as by Insert.
MutUpdated(col, v) == Inserted(col, v)

Updated(col, v) == Bound(v)

Written(path, col, v) == IF path = "Insert" THEN Inserted(col, v) ELSE Updated(col, v)

-----------------------------------------------------------------------------
(* Scanning: the kinds of columns each copy of the scan                    *)
(*   points at    with a *T when the column is nullable: NULL makes it nil *)
(*   asserts      scans into a T, and reads as if it were a *T when the    *)
(*                column is nullable: the assertion fails, the field is nil*)
(*   refuses      with "unsupported data type"                             *)
(* The others it scans into a T, which takes no NULL; but a []byte does.   *)

\* Mutant of FieldScanner: of the nullable columns only TEXT has a pointer.
MutFieldScanner == [points |-> {"text"}, asserts |-> {}, refuses |-> {}]

\* FindByKey of SQLite and PostgreSQL: NewFieldScanner and ScanToObject.
FieldScanner == [points |-> {"text", "integer", "json", "time"}, asserts |-> {}, refuses |-> {}]

\* Mutant of SQLiteScanTx: JSON is scanned as in PostgreSQL's FindByKeyTx.
MutSQLiteScanTx == [points |-> {"text", "integer", "time"}, asserts |-> {"json"}, refuses |-> {"other"}]

SQLiteScanTx   == [points |-> {"text", "integer", "json", "time"}, asserts |-> {}, refuses |-> {"other"}]
PostgresScanTx == [points |-> {"text", "integer"}, asserts |-> {"json"}, refuses |-> {"other"}]

SQLServerScan   == [points |-> {"text", "integer"}, asserts |-> {"json"}, refuses |-> {"other"}]
SQLServerScanTx == [points |-> {"text", "integer"}, asserts |-> {"json"}, refuses |-> {"other"}]
OracleScan      == [points |-> {"text", "integer"}, asserts |-> {"json"}, refuses |-> {"other"}]
OracleScanTx    == [points |-> {"text", "integer"}, asserts |-> {"json"}, refuses |-> {"other"}]

CockroachScan   == [points |-> {"text", "integer"}, asserts |-> {}, refuses |-> {"other"}]
CockroachScanTx == [points |-> {"text", "integer"}, asserts |-> {}, refuses |-> {"other"}]
TiDBScan        == [points |-> {"text", "integer"}, asserts |-> {}, refuses |-> {"other"}]
TiDBScanTx      == [points |-> {"text", "integer"}, asserts |-> {}, refuses |-> {"other"}]

FindByKey ==
  [sqlite |-> FieldScanner, postgres |-> FieldScanner, sqlserver |-> SQLServerScan,
   oracle |-> OracleScan, cockroach |-> CockroachScan, tidb |-> TiDBScan]

FindByKeyTx ==
  [sqlite |-> SQLiteScanTx, postgres |-> PostgresScanTx, sqlserver |-> SQLServerScanTx,
   oracle |-> OracleScanTx, cockroach |-> CockroachScanTx, tidb |-> TiDBScanTx]

\* The find returns an error: for a NULL where there is no pointer for it.
ScanFails(scan, col, x) ==
  \/ col.kind \in scan.refuses
  \/ x = Null /\ col.kind # "blob" /\ ~(col.nullable /\ col.kind \in scan.points)

\* Mutant of Scanned: NULL is left for the caller to interpret.
MutScanned(scan, col, x) == IF col.nullable /\ col.kind \in scan.asserts THEN Nil ELSE x

\* What the field of the object found is, if it does not.
Scanned(scan, col, x) ==
  IF x = Null \/ (col.nullable /\ col.kind \in scan.asserts) THEN Nil ELSE x

-----------------------------------------------------------------------------
(* An object that is written and read, and written back as it was read.    *)
VARIABLES
  adapter, col,
  cell,    \* the column of the stored row; None before the row is inserted
  saved,   \* what the caller last saved
  held,    \* the field of the object the caller found last, not saved since
  failed   \* the last call was a find that returned an error

vars == <<adapter, col, cell, saved, held, failed>>

Init ==
  /\ \E study \in Studied : adapter = study[1] /\ col = study[2]
  /\ cell = None
  /\ saved = "nil"
  /\ held = None
  /\ failed = FALSE

\* The values callers set: nil, a Go value, or in a JSON column a JSON text.
Fresh == {Nil} \cup [base : Bases, depth : IF col.kind = "json" THEN {0, 1} ELSE {0}]

\* The statement binds v and the database takes it: a NOT NULL column no NULL.
\* Insert writes the row whether or not it is there, Update an existing one.
CanSave(path, v) ==
  /\ path = "Update" => cell # None /\ CanUpdate(col, v)
  /\ path = "Insert" /\ col.kind = "json" => v.depth < MaxDepth
  /\ col.nullable \/ Written(path, col, v) # Null

\* Mutant of Save: Update leaves out the fields that are nil.
MutSave(path, v) ==
  /\ CanSave(path, v)
  /\ cell' = IF path = "Update" /\ v = Nil THEN cell ELSE Written(path, col, v)
  /\ saved' = v.base
  /\ held' = None
  /\ failed' = FALSE
  /\ UNCHANGED <<adapter, col>>

\* Insert, Upsert, Update and their ...Tx variants, which bind alike.
Save(path, v) ==
  /\ CanSave(path, v)
  /\ cell' = Written(path, col, v)
  /\ saved' = v.base
  /\ held' = None
  /\ failed' = FALSE
  /\ UNCHANGED <<adapter, col>>

\* The object found is saved as it is.
SaveHeld(path) == held # None /\ Save(path, held)

\* An Insert of an object without the field creates the row.
InsertWithout ==
  /\ cell = None /\ col.nullable
  /\ cell' = Null
  /\ saved' = "nil"
  /\ failed' = FALSE
  /\ UNCHANGED <<adapter, col, held>>

\* FindByKey and FindByKeyTx of the row.
Find(inTx) ==
  LET scan == IF inTx THEN FindByKeyTx[adapter] ELSE FindByKey[adapter]
  IN  /\ cell # None
      /\ failed' = ScanFails(scan, col, cell)
      /\ held' = IF ScanFails(scan, col, cell) THEN None ELSE Scanned(scan, col, cell)
      /\ UNCHANGED <<adapter, col, cell, saved>>

Next ==
  \/ \E path \in {"Insert", "Update"} :
       \/ \E v \in Fresh : Save(path, v)
       \/ SaveHeld(path)
  \/ InsertWithout
  \/ \E inTx \in BOOLEAN : Find(inTx)

Spec == Init /\ [][Next]_vars
-----------------------------------------------------------------------------
(* Properties.                                                             *)

\* The types of the variables.
TypeOK ==
  /\ <<adapter, col>> \in Studied
  /\ cell \in Values \cup {Null, None}
  /\ saved \in Bases \cup {"nil"}
  /\ held \in Values \cup {None}
  /\ failed \in BOOLEAN

\* What FindByKey or FindByKeyTx returns is what was saved last, by whichever
\* call: no path of Insert or Update and no copy of the scan loses a value.
FoundIsSaved == held # None => held.base = saved

\* Whatever a save stored can be read: no find returns a scan error.
Readable == ~failed

\* FindByKey and FindByKeyTx read a row alike (README: "transaction-aware
\* versions of all CRUD operations").
PathsAgree ==
  cell # None =>
    LET scan   == FindByKey[adapter]
        scanTx == FindByKeyTx[adapter]
    IN  /\ ScanFails(scan, col, cell) <=> ScanFails(scanTx, col, cell)
        /\ ~ScanFails(scan, col, cell) =>
             Scanned(scan, col, cell) = Scanned(scanTx, col, cell)

\* Updating an object with the fields it was found with changes nothing in
\* the database; so does inserting it again, unless the field is JSON.
ResaveIsIdle ==
  [][\A path \in {"Insert", "Update"} :
       SaveHeld(path) /\ (path = "Insert" => col.kind # "json") => cell' = cell]_vars

\* No value of such a column is taken for nil.
Keeps(scan, c) == ~(c.nullable /\ c.kind \in scan.asserts)

\* Such a column is read, NULL too where it may be NULL.
Reads(scan, c) ==
  /\ c.kind \notin scan.refuses
  /\ c.nullable => c.kind = "blob" \/ c.kind \in scan.points

\* What the two scans say of such a column is the same.
Alike(scan, scanTx, c) ==
  /\ c.kind \in scan.refuses <=> c.kind \in scanTx.refuses
  /\ c.kind \in scan.refuses \/ (Reads(scan, c) <=> Reads(scanTx, c))
  /\ c.kind \in scan.refuses \/ (Keeps(scan, c) <=> Keeps(scanTx, c))

Scans(a) == {FindByKey[a], FindByKeyTx[a]}

\* The invariant behind them: the cell says what was saved, is never a bare nil,
\* is not NULL where it must not be, and is what a find gave to the caller.
CellIsSaved == cell # None => IF cell = Null THEN saved = "nil" ELSE cell.base = saved

HeldIsCell == held # None => cell # None /\ held = IF cell = Null THEN Nil ELSE cell

IInv ==
  /\ TypeOK
  /\ cell # Nil
  /\ cell = Null => col.nullable
  /\ CellIsSaved
  /\ (\A scan \in Scans(adapter) : Keeps(scan, col)) => HeldIsCell
=============================================================================
