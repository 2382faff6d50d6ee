--------------------------- MODULE StorageContract ---------------------------
(***************************************************************************)
(* What storage.Storage promises its callers, whichever database is behind *)
(* it: every call that returns success took effect in one step, a call     *)
(* that returns an error took effect once or not at all, Upsert inserts    *)
(* the object or updates the given fields of the stored one, and a         *)
(* transaction is invisible until CommitTx applies all of it.              *)
(*                                                                         *)
(* Nothing here knows about SQL, unique columns, locks or statements.      *)
(***************************************************************************)
EXTENDS ObjectTable

CONSTANTS
  Callers,    \* goroutines using the storage, each with at most one open tx
  Untouched,  \* a transaction has not written this row
  None        \* no call, no object


VARIABLES
  rows,   \* the committed table
  ws,     \* ws[c]: the rows c's transaction has written
  tx,     \* tx[c]: the state of the *sql.Tx that c holds
  last    \* the call that returned last: its arguments and its result

vars == <<rows, ws, tx, last>>

Clean == [i \in Ids |-> Untouched]

\* The table a call of c works on: inside a transaction, its own writes
\* over the committed rows.
View(c)       == [i \in Ids |-> IF ws[c][i] = Untouched THEN rows[i] ELSE ws[c][i]]
Base(c, inTx) == IF inTx THEN View(c) ELSE rows

NoFields == [k \in {} |-> Null]

\* What a find asks of the row: one value in one column, or only its id.
Keys  == {NoFields} \cup UNION {[{k} -> Cells] : k \in Cols}
Calls == {"Upsert", "Update", "Delete", "Find", "Begin", "Commit", "Rollback"}

\* A call that returned: who made it, on the *sql.Tx or not, its arguments,
\* and its result: out is the Boolean or the error, got the object found.
Events == [by : Callers, call : Calls, inTx : BOOLEAN, id : Ids \cup {None},
           f : Fields, out : {"true", "false", "error"}, got : Rows \cup {NoRow}]

-----------------------------------------------------------------------------
(* What the return of e may go with: each action is a condition on the     *)
(* step that ends with the return of e.                                    *)

Sees(e) == Base(e.by, e.inTx)

InOpenTx(e) == e.inTx => tx[e.by] = "active"

\* The row e writes is committed at once, or kept by the transaction.
Writing(e, row) ==
  /\ InOpenTx(e)
  /\ rows' = IF e.inTx THEN rows ELSE Put(rows, e.id, row)
  /\ ws'   = IF e.inTx THEN [ws EXCEPT ![e.by][e.id] = row] ELSE ws
  /\ tx'   = tx

Reading(e) == InOpenTx(e) /\ UNCHANGED <<rows, ws, tx>>

\* A call outside a transaction whose acknowledgement is lost reports an error
\* although it took effect.
Outcome(e, out) == e.out = out \/ (e.out = "error" /\ ~e.inTx)

Upsert(e) ==
  /\ e.call = "Upsert" /\ Outcome(e, "true") /\ e.id \in Ids
  /\ Writing(e, Merged(Sees(e), e.id, e.f))

\* The row was there: it is changed, and the caller is told so.
Update(e) ==
  /\ e.call = "Update" /\ Outcome(e, "true")
  /\ e.id \in Ids /\ Sees(e)[e.id] # NoRow
  /\ Writing(e, Merged(Sees(e), e.id, e.f))

Delete(e) ==
  /\ e.call = "Delete" /\ Outcome(e, "true")
  /\ e.id \in Ids /\ Sees(e)[e.id] # NoRow
  /\ Writing(e, NoRow)

\* Update and DeleteByID of a row that is not there: (false, nil).
Miss(e) ==
  /\ e.call \in {"Update", "Delete"} /\ Outcome(e, "false")
  /\ e.id \in Ids /\ Sees(e)[e.id] = NoRow
  /\ Reading(e)

\* The object found is a row of the caller's table that satisfies the key ...
Found(e) ==
  /\ e.call = "Find" /\ e.out = "true"
  /\ e.id \in Ids /\ e.got # NoRow /\ e.got = Sees(e)[e.id]
  /\ \A k \in DOMAIN e.f : e.got[k] = e.f[k]
  /\ Reading(e)

\* ... and (nil, nil) means that no such row exists: none under the id, or
\* none at all with the sought value in the key column.
NotFound(e) ==
  /\ e.call = "Find" /\ e.out = "false" /\ e.got = NoRow
  /\ \A i \in IF e.id = None THEN Ids ELSE {e.id} :
       \/ Sees(e)[i] = NoRow
       \/ \E k \in DOMAIN e.f : Sees(e)[i][k] # e.f[k]
  /\ Reading(e)

\* An error without effect ...
NoEffect(e) == e.out = "error" /\ UNCHANGED <<rows, ws, tx>>

\* ... unless it costs the transaction the statement was in.
LosesTx(e) ==
  /\ e.out = "error" /\ e.inTx /\ tx[e.by] = "active"
  /\ rows' = rows
  /\ tx'   = [tx EXCEPT ![e.by] = "aborted"]
  /\ ws'   = [ws EXCEPT ![e.by] = Clean]

Begin(e) ==
  /\ e.call = "Begin" /\ e.out = "true"
  /\ tx[e.by] = "none"
  /\ tx' = [tx EXCEPT ![e.by] = "active"]
  /\ UNCHANGED <<rows, ws>>

\* The end of a transaction: table is what it leaves committed.
Ending(e, table) ==
  /\ tx[e.by] # "none"
  /\ rows' = table
  /\ ws'   = [ws EXCEPT ![e.by] = Clean]
  /\ tx'   = [tx EXCEPT ![e.by] = "none"]

\* A commit that succeeds keeps every write of the transaction, one that
\* fails all of them or none ...
Commit(e) ==
  /\ e.call = "Commit"
  /\ \/ e.out \in {"true", "error"} /\ tx[e.by] = "active" /\ Ending(e, View(e.by))
     \/ e.out = "error" /\ Ending(e, rows)

\* ... and a rollback keeps none of them, even if it reports an error.
Rollback(e) == e.call = "Rollback" /\ e.out \in {"true", "error"} /\ Ending(e, rows)

Init ==
  /\ rows = [i \in Ids |-> NoRow]
  /\ ws   = [c \in Callers |-> Clean]
  /\ tx   = [c \in Callers |-> "none"]
  /\ last = None

Step(e) ==
  \/ Upsert(e) \/ Update(e) \/ Delete(e) \/ Miss(e)
  \/ Found(e) \/ NotFound(e)
  \/ NoEffect(e) \/ LosesTx(e)
  \/ Begin(e) \/ Commit(e) \/ Rollback(e)

Next == last' \in Events /\ Step(last')

Spec == Init /\ [][Next]_vars
=============================================================================
