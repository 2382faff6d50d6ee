----------------------------- MODULE ObjectTable -----------------------------
(***************************************************************************)
(* The data every storage adapter of DDAO works on: one table of the       *)
(* schema, whose rows are object.Object values stored under their ID.      *)
(*                                                                         *)
(* A field the caller did not set is absent from Object.Fields, so the     *)
(* fields of a call are a function on a SUBSET of the columns; a stored    *)
(* row has a value, possibly NULL, in every column.                        *)
(***************************************************************************)
CONSTANTS
  Ids,      \* object ids (the primary key column "id")
  Cols,     \* the other columns of the table
  Cells,    \* the values a column can hold
  Null,     \* SQL NULL
  NoRow     \* no row under this id

ASSUME NullAssumption  == Null \notin Cells
ASSUME NoRowAssumption == NoRow \notin [Cols -> Cells \cup {Null}]

Values == Cells \cup {Null}
Rows   == [Cols -> Values]
Tables == [Ids -> Rows \cup {NoRow}]
Fields == UNION {[D -> Values] : D \in SUBSET Cols}

\* The row in which no column was given a value.
Blank == [k \in Cols |-> Null]

\* row with the columns of f set to the values of f.
Overlay(row, f) == [k \in Cols |-> IF k \in DOMAIN f THEN f[k] ELSE row[k]]

\* What an insert-or-update of fields f leaves under id, in table t.
Merged(t, id, f) == Overlay(IF t[id] = NoRow THEN Blank ELSE t[id], f)

\* t with row under id.
Put(t, id, row) == [t EXCEPT ![id] = row]
=============================================================================
