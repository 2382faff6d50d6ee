--------------------------- MODULE FieldCodecProofs ---------------------------
(***************************************************************************)
(* What the adapters' copies of the scan lose, for any values and for      *)
(* every column of every adapter: the properties hold of the columns that  *)
(* the scans keep and read, and the last theorems say which those are.     *)
(***************************************************************************)
EXTENDS FieldCodec, TLAPS

\* What is bound to the statement has the base of the value and is no bare nil.
LEMMA WrittenType ==
  ASSUME NEW path \in {"Insert", "Update"}, NEW v \in Values,
         path = "Insert" /\ col.kind = "json" => v.depth < MaxDepth
  PROVE  /\ Written(path, col, v) \in (Values \ {Nil}) \cup {Null}
         /\ IF Written(path, col, v) = Null THEN v = Nil ELSE Written(path, col, v).base = v.base
<1>1. Bound(v) \in (Values \ {Nil}) \cup {Null} /\ IF Bound(v) = Null THEN v = Nil ELSE Bound(v).base = v.base
  BY NullAssumption DEF Bound
<1>2. CASE path = "Insert" /\ col.kind = "json"
  <2>1. v.depth \in 0 .. MaxDepth /\ v.base \in Bases \cup {"nil"}
    BY DEF Values
  <2>2. v.depth + 1 \in 0 .. MaxDepth /\ v.depth + 1 # 0
    BY <1>2, <2>1, DepthAssumption
  <2>3. [v EXCEPT !.depth = @ + 1] = [base |-> v.base, depth |-> v.depth + 1]
    BY DEF Values
  <2>4. Written(path, col, v) = [base |-> v.base, depth |-> v.depth + 1]
    BY <1>2, <2>3 DEF Written, Inserted
  <2>5. Written(path, col, v) \in Values
    BY <2>1, <2>2, <2>4 DEF Values
  <2>6. Written(path, col, v) # Nil
    BY <2>2, <2>4 DEF Nil
  <2> QED
    BY <2>4, <2>5, <2>6, NullAssumption
<1>3. CASE ~(path = "Insert" /\ col.kind = "json")
  BY <1>1, <1>3 DEF Written, Inserted, Updated
<1> QED
  BY <1>2, <1>3

\* The values that callers set are values.
LEMMA FreshType == Fresh \subseteq Values
  BY DepthAssumption DEF Fresh, Values, Nil

\* At the start there is no row.
LEMMA InitInv == Init => IInv
<1> SUFFICES ASSUME Init PROVE IInv
  OBVIOUS
<1>1. <<adapter, col>> \in Studied
  <2>1. PICK s \in Studied : adapter = s[1] /\ col = s[2]
    BY DEF Init
  <2>2. s = <<s[1], s[2]>>
    BY StudiedAssumption
  <2> QED
    BY <2>1, <2>2
<1>2. None # Nil
  BY NullAssumption, DepthAssumption DEF Nil, Values
<1>3. TypeOK
  BY <1>1 DEF Init, TypeOK
<1>4. CellIsSaved /\ HeldIsCell
  BY DEF Init, CellIsSaved, HeldIsCell
<1>5. cell # Nil /\ cell # Null
  BY <1>2, NullAssumption DEF Init
<1> QED
  BY <1>3, <1>4, <1>5 DEF IInv

\* A save of a value leaves the cell as it was bound, and the object is not held.
LEMMA SaveInv ==
  ASSUME IInv, NEW path \in {"Insert", "Update"}, NEW v \in Values, Save(path, v)
  PROVE  IInv'
<1>1. /\ cell' = Written(path, col, v) /\ saved' = v.base /\ held' = None /\ failed' = FALSE
      /\ UNCHANGED <<adapter, col>>
  BY DEF Save
<1>2. /\ cell' \in (Values \ {Nil}) \cup {Null}
      /\ IF cell' = Null THEN v = Nil ELSE cell'.base = v.base
  BY <1>1, WrittenType DEF Save, CanSave
<1>3. cell' = Null => col.nullable
  BY <1>1 DEF Save, CanSave
<1>4. v.base \in Bases \cup {"nil"}
  BY DEF Values
<1>5. v = Nil => v.base = "nil"
  BY DEF Nil
<1>6. TypeOK'
  BY <1>1, <1>2, <1>4 DEF IInv, TypeOK
<1>7. CellIsSaved' /\ HeldIsCell'
  BY <1>1, <1>2, <1>5, NullAssumption DEF CellIsSaved, HeldIsCell
<1>8. cell' # Nil
  BY <1>2, NullAssumption DEF Nil, Values
<1> QED
  BY <1>1, <1>3, <1>6, <1>7, <1>8 DEF IInv

\* A find gives what is in the cell, where the scan keeps it.
LEMMA FindInv ==
  ASSUME IInv, NEW inTx \in BOOLEAN, Find(inTx)
  PROVE  IInv'
<1> DEFINE scan == IF inTx THEN FindByKeyTx[adapter] ELSE FindByKey[adapter]
<1>1. /\ cell # None /\ failed' = ScanFails(scan, col, cell)
      /\ held' = IF ScanFails(scan, col, cell) THEN None ELSE Scanned(scan, col, cell)
      /\ UNCHANGED <<adapter, col, cell, saved>>
  BY DEF Find
<1>2. scan \in Scans(adapter)
  BY DEF Scans
<1> HIDE DEF scan
<1>3. Scanned(scan, col, cell) \in Values
  BY <1>1, NilAssumption, DepthAssumption DEF Scanned, IInv, TypeOK, Nil, Values
<1>4. ScanFails(scan, col, cell) \in BOOLEAN
  BY DEF ScanFails
<1>5. TypeOK'
  BY <1>1, <1>3, <1>4 DEF IInv, TypeOK
<1>6. Keeps(scan, col) => Scanned(scan, col, cell) = IF cell = Null THEN Nil ELSE cell
  BY DEF Keeps, Scanned
<1>7. (\A s \in Scans(adapter) : Keeps(s, col)) => HeldIsCell'
  BY <1>1, <1>2, <1>6 DEF HeldIsCell
<1>8. CellIsSaved'
  BY <1>1 DEF IInv, CellIsSaved
<1> QED
  BY <1>1, <1>5, <1>7, <1>8 DEF IInv, Scans

\* An object that is held was found, so that it is a value.
LEMMA NextInv == IInv /\ [Next]_vars => IInv'
<1> SUFFICES ASSUME IInv, [Next]_vars PROVE IInv'
  OBVIOUS
<1>1. ASSUME NEW path \in {"Insert", "Update"}, NEW v \in Fresh, Save(path, v)
      PROVE  IInv'
  BY <1>1, FreshType, SaveInv
<1>2. ASSUME NEW path \in {"Insert", "Update"}, SaveHeld(path)
      PROVE  IInv'
  <2>1. held \in Values
    BY <1>2 DEF SaveHeld, IInv, TypeOK
  <2> QED
    BY <1>2, <2>1, SaveInv DEF SaveHeld
<1>3. CASE InsertWithout
  <2>1. TypeOK' /\ cell' = Null /\ cell' # None /\ col.nullable /\ saved' = "nil"
    BY <1>3, NullAssumption DEF InsertWithout, IInv, TypeOK
  <2>2. cell' # Nil
    BY <2>1, NullAssumption, DepthAssumption DEF Nil, Values
  <2>3. HeldIsCell => HeldIsCell'
    BY <1>3 DEF InsertWithout, HeldIsCell
  <2> QED
    BY <1>3, <2>1, <2>2, <2>3 DEF InsertWithout, IInv, CellIsSaved, Scans
<1>4. ASSUME NEW inTx \in BOOLEAN, Find(inTx)
      PROVE  IInv'
  BY <1>4, FindInv
<1>5. CASE UNCHANGED vars
  BY <1>5 DEF vars, IInv, TypeOK, CellIsSaved, HeldIsCell, Scans
<1> QED
  BY <1>1, <1>2, <1>3, <1>4, <1>5 DEF Next

\* What the cell and the caller hold, for every column of every adapter.
THEOREM CodecInvariant == Spec => []IInv
<1> QED
  BY InitInv, NextInv, PTL DEF Spec

\* The variables have their types.
THEOREM TypeCorrect == Spec => []TypeOK
<1>1. IInv => TypeOK
  BY DEF IInv
<1> QED
  BY <1>1, CodecInvariant, PTL

\* Where no scan takes a value for nil, what is found is what was saved last.
THEOREM FoundSaved ==
  ASSUME \A s \in Studied : \A scan \in Scans(s[1]) : Keeps(scan, s[2])
  PROVE  Spec => []FoundIsSaved
<1>1. IInv => FoundIsSaved
  <2> SUFFICES ASSUME IInv, held # None PROVE held.base = saved
    BY DEF FoundIsSaved
  <2>1. HeldIsCell
    BY DEF IInv, TypeOK
  <2> QED
    BY <2>1 DEF IInv, CellIsSaved, HeldIsCell, Nil
<1> QED
  BY <1>1, CodecInvariant, PTL

\* Where the scans read a column, NULL too where it may be NULL, no find fails.
THEOREM AllReadable ==
  ASSUME \A s \in Studied : \A scan \in Scans(s[1]) : Reads(scan, s[2])
  PROVE  Spec => []Readable
<1> DEFINE Inv == IInv /\ Readable
<1>1. Init => Inv
  BY InitInv DEF Init, Readable
<1>2. Inv /\ [Next]_vars => Inv'
  <2> SUFFICES ASSUME Inv, [Next]_vars PROVE Readable'
    BY NextInv
  <2>1. ASSUME NEW inTx \in BOOLEAN, Find(inTx) PROVE Readable'
    <3> DEFINE scan == IF inTx THEN FindByKeyTx[adapter] ELSE FindByKey[adapter]
    <3>1. failed' = ScanFails(scan, col, cell)
      BY <2>1 DEF Find
    <3>2. scan \in Scans(adapter)
      BY DEF Scans
    <3>3. Reads(scan, col)
      BY <3>2 DEF IInv, TypeOK
    <3> QED
      BY <3>1, <3>3 DEF Reads, ScanFails, IInv, Readable
  <2>2. CASE UNCHANGED vars
    BY <2>2 DEF vars, Readable
  <2>3. CASE InsertWithout
    BY <2>3 DEF InsertWithout, Readable
  <2>4. ASSUME NEW path \in {"Insert", "Update"}, NEW v, Save(path, v) PROVE Readable'
    BY <2>4 DEF Save, Readable
  <2> QED
    BY <2>1, <2>2, <2>3, <2>4 DEF Next, SaveHeld
<1> QED
  BY <1>1, <1>2, PTL DEF Spec

\* Where the two scans are alike, the finds of a row in and out of transactions
\* give the same, also of the columns that neither keeps or reads.
THEOREM PathsAreAlike ==
  ASSUME \A s \in Studied : Alike(FindByKey[s[1]], FindByKeyTx[s[1]], s[2])
  PROVE  Spec => []PathsAgree
<1>1. IInv => PathsAgree
  <2> SUFFICES ASSUME IInv, cell # None PROVE PathsAgree
    BY DEF PathsAgree
  <2>1. Alike(FindByKey[adapter], FindByKeyTx[adapter], col)
    BY DEF IInv, TypeOK
  <2>2. cell = Null => col.nullable
    BY DEF IInv
  <2> QED
    BY <2>1, <2>2 DEF PathsAgree, Alike, Reads, Keeps, ScanFails, Scanned
<1> QED
  BY <1>1, CodecInvariant, PTL

\* Where no scan takes a value for nil, saving what was found changes nothing,
\* but for an Insert of a JSON field, which is encoded once more.
THEOREM ResavesAreIdle ==
  ASSUME \A s \in Studied : \A scan \in Scans(s[1]) : Keeps(scan, s[2])
  PROVE  Spec => ResaveIsIdle
<1>1. ASSUME IInv, NEW path \in {"Insert", "Update"},
             SaveHeld(path), path = "Insert" => col.kind # "json"
      PROVE  cell' = cell
  <2>1. HeldIsCell
    BY <1>1 DEF IInv, TypeOK
  <2>2. held # None /\ cell' = Bound(held)
    BY <1>1 DEF SaveHeld, Save, Written, Inserted, Updated
  <2>3. cell # Nil
    BY <1>1 DEF IInv
  <2> QED
    BY <2>1, <2>2, <2>3 DEF HeldIsCell, Bound
<1>2. IInv /\ [Next]_vars =>
        [\A path \in {"Insert", "Update"} :
           SaveHeld(path) /\ (path = "Insert" => col.kind # "json") => cell' = cell]_vars
  BY <1>1
<1> QED
  BY <1>2, CodecInvariant, PTL DEF Spec, ResaveIsIdle

\* The columns that lose what was saved: nullable JSON of three adapters.
THEOREM LossyColumns ==
  \A a \in ScanningAdapters, c \in AllColumns :
    (\E scan \in Scans(a) : ~Keeps(scan, c)) <=>
      a \in {"postgres", "sqlserver", "oracle"} /\ c.nullable /\ c.kind = "json"
  BY DEF ScanningAdapters, AllColumns, Kinds, Scans, Keeps, FindByKey, FindByKeyTx,
         FieldScanner, SQLiteScanTx, PostgresScanTx, SQLServerScan, SQLServerScanTx,
         OracleScan, OracleScanTx, CockroachScan, CockroachScanTx, TiDBScan, TiDBScanTx

\* The columns of which some row cannot be read: those of other types inside
\* transactions, and nullable ones that a scan has no pointer for.
THEOREM UnreadableColumns ==
  \A a \in ScanningAdapters, c \in AllColumns :
    (\E scan \in Scans(a) : ~Reads(scan, c)) <=>
      \/ c.kind = "other"
      \/ c.nullable /\ c.kind \in {"real", "boolean"}
      \/ a # "sqlite" /\ c.nullable /\ c.kind \in {"json", "time"}
  BY DEF ScanningAdapters, AllColumns, Kinds, Scans, Reads, FindByKey, FindByKeyTx,
         FieldScanner, SQLiteScanTx, PostgresScanTx, SQLServerScan, SQLServerScanTx,
         OracleScan, OracleScanTx, CockroachScan, CockroachScanTx, TiDBScan, TiDBScanTx

\* The columns that a find reads otherwise inside a transaction: of the adapters
\* that use the common scan, whose ...Tx variants have one of their own.
THEOREM UnlikeColumns ==
  \A a \in ScanningAdapters, c \in AllColumns :
    ~Alike(FindByKey[a], FindByKeyTx[a], c) <=>
      \/ a \in {"sqlite", "postgres"} /\ c.kind = "other"
      \/ a = "postgres" /\ c.nullable /\ c.kind \in {"json", "time"}
  BY DEF ScanningAdapters, AllColumns, Kinds, Alike, Reads, Keeps, FindByKey, FindByKeyTx,
         FieldScanner, SQLiteScanTx, PostgresScanTx, SQLServerScan, SQLServerScanTx,
         OracleScan, OracleScanTx, CockroachScan, CockroachScanTx, TiDBScan, TiDBScanTx
=============================================================================
