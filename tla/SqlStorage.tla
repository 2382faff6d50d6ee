------------------------------ MODULE SqlStorage ------------------------------
(***************************************************************************)
(* The seven SQL adapters of DDAO (sqlite, postgres, sqlserver, oracle,    *)
(* cockroach, yugabyte, tidb) behind one ORM, called by several goroutines *)
(* with and without transactions.                                          *)
(*                                                                         *)
(* What an adapter contributes is the STATEMENT it sends for each call,    *)
(* how many it sends, and what it makes of the reply.  The database that   *)
(* runs a statement is external: here it is a table of committed rows,     *)
(* the uncommitted rows of every open transaction, row and unique-key      *)
(* locks held until the transaction ends, and READ COMMITTED reads.        *)
(***************************************************************************)
EXTENDS SqlStatements

CONSTANTS
  Callers,    \* goroutines, each holding at most one *sql.Tx
  Adapters,   \* the adapters under study: one of them is behind the ORM
  Writes,     \* the field sets callers pass to Insert, Upsert and Update
  Untouched,  \* a transaction has not written this row
  None        \* no call, no object

ASSUME AdaptersAssumption  == Adapters \subseteq SqlAdapters
ASSUME WritesAssumption    == Writes \subseteq Fields
ASSUME UntouchedAssumption == Untouched \notin Rows \cup {NoRow}
ASSUME NoneAssumption      == None \notin Ids

VARIABLES
  db,     \* the adapter in orm.Storage
  rows,   \* the committed table
  ws,     \* ws[c][i]: the row c's transaction has written under i
  tx,     \* tx[c]: the *sql.Tx of c
  pend,   \* pend[c]: c is between the two statements of Oracle's Insert
  last    \* the call that returned last

vars == <<db, rows, ws, tx, pend, last>>

-----------------------------------------------------------------------------
Clean    == [i \in Ids |-> Untouched]
NoFields == [k \in {} |-> Null]
Keys     == {NoFields} \cup UNION {[{k} -> Cells] : k \in Cols}

\* The rows that the transaction of c holds locks on.
Held(c) == {i \in Ids : ws[c][i] # Untouched}

\* The table a statement of c sees.
View(c)       == [i \in Ids |-> IF ws[c][i] = Untouched THEN rows[i] ELSE ws[c][i]]
Base(c, inTx) == IF inTx THEN View(c) ELSE rows

Returns(c, call, inTx, id, f, out, got) ==
  last' = [by |-> c, call |-> call, inTx |-> inTx, id |-> id, f |-> f,
           out |-> out, got |-> got]

\* c is not inside another call, and a ...Tx call has a transaction to run in.
Ready(c, inTx) == pend[c] = None /\ (inTx => tx[c] = "active")

\* The rows a statement on id touches: those it changes and the one it hits.
Touched(c, inTx, id, r) ==
  {i \in Ids : r.new[i] # Base(c, inTx)[i] \/ (i = id /\ r.hit)}

\* A statement waits while another transaction has written a row it touches,
\* or holds a unique value it is about to store.  Outside of its transaction,
\* a caller waits for its own transaction too: it is another connection.
MayRun(c, inTx, id, r) ==
  \A h \in Callers : (h # c \/ ~inTx) =>
    \A i \in Touched(c, inTx, id, r), j \in Held(h) :
      /\ i # j
      /\ r.new[i] # NoRow /\ ws[h][j] # NoRow => ~Clash(r.new[i], ws[h][j])

\* The statement takes effect.
Apply(c, inTx, id, r) ==
  /\ r.ok
  /\ MayRun(c, inTx, id, r)
  /\ rows' = IF inTx THEN rows ELSE r.new
  /\ ws'   = IF inTx
             THEN [ws EXCEPT ![c] = [i \in Ids |-> IF i \in Touched(c, inTx, id, r)
                                                   THEN r.new[i] ELSE ws[c][i]]]
             ELSE ws
  /\ UNCHANGED <<db, tx>>

\* The reply to an autocommitted write can be lost after it took effect: the
\* adapter then returns the driver's error.
Outcomes(inTx, out) == IF inTx THEN {out} ELSE {out, "error"}

Flag(b) == IF b THEN "true" ELSE "false"
-----------------------------------------------------------------------------
(* Insert and Upsert (one code path), in and out of a transaction.         *)
Upsert(c, inTx, id, f) ==
  /\ Ready(c, inTx)
  /\ Apply(c, inTx, id, InsertStatement(db, inTx, Base(c, inTx), id, f))
  /\ \E out \in Outcomes(inTx, "true") : Returns(c, "Upsert", inTx, id, f, out, NoRow)
  /\ UNCHANGED pend

\* Oracle: the INSERT failed with ORA-00001, the UPDATE is still to be sent.
OracleRejected(c, inTx, id, f) ==
  /\ db = "oracle"
  /\ Ready(c, inTx)
  /\ LET r == InsertStatement(db, inTx, Base(c, inTx), id, f)
     IN  ~r.ok /\ MayRun(c, inTx, id, r)
  /\ pend' = [pend EXCEPT ![c] = [inTx |-> inTx, id |-> id, f |-> f]]
  /\ UNCHANGED <<db, rows, ws, tx, last>>

\* Mutant of OracleFallback: the columns not given are set to NULL.
MutOracleFallback(c) ==
  /\ pend[c] # None
  /\ LET p == pend[c]
     IN  /\ Apply(c, p.inTx, p.id, ReplaceInto(Base(c, p.inTx), p.id, p.f))
         /\ Returns(c, "Upsert", p.inTx, p.id, p.f, "true", NoRow)
  /\ pend' = [pend EXCEPT ![c] = None]

\* ... and the UPDATE runs.  Its row count is not looked at: success is
\* returned whether or not there was a row to update.
OracleFallback(c) ==
  /\ pend[c] # None
  /\ LET p == pend[c]
     IN  /\ Apply(c, p.inTx, p.id, UpdateWhere(Base(c, p.inTx), p.id, p.f))
         /\ \E out \in Outcomes(p.inTx, "true") :
              Returns(c, "Upsert", p.inTx, p.id, p.f, out, NoRow)
  /\ pend' = [pend EXCEPT ![c] = None]

Update(c, inTx, id, f) ==
  LET r == UpdateStatement(db, Base(c, inTx), id, f)
  IN  /\ Ready(c, inTx)
      /\ Apply(c, inTx, id, r)
      /\ \E out \in Outcomes(inTx, Flag(r.hit)) : Returns(c, "Update", inTx, id, f, out, NoRow)
      /\ UNCHANGED pend

Delete(c, inTx, id) ==
  LET r == DeleteWhere(Base(c, inTx), id)
  IN  /\ Ready(c, inTx)
      /\ Apply(c, inTx, id, r)
      /\ \E out \in Outcomes(inTx, Flag(r.hit)) :
           Returns(c, "Delete", inTx, id, NoFields, out, NoRow)
      /\ UNCHANGED pend

\* FindByID: the row under id, or (nil, nil).
FindByID(c, inTx, id) ==
  /\ Ready(c, inTx)
  /\ LET row == Base(c, inTx)[id]
     IN  IF row = NoRow
         THEN Returns(c, "Find", inTx, id, NoFields, "false", NoRow)
         ELSE Returns(c, "Find", inTx, ScannedID(db, id, None), NoFields, "true", ScannedRow(db, row))
  /\ UNCHANGED <<db, rows, ws, tx, pend>>

\* FindByKey on another column: the first row of the SELECT, in no fixed order.
FindByKey(c, inTx, f) ==
  /\ Ready(c, inTx)
  /\ LET t    == Base(c, inTx)
         hits == {i \in Ids : t[i] # NoRow /\ \A k \in DOMAIN f : t[i][k] = f[k]}
     IN  \/ /\ hits = {}
            /\ Returns(c, "Find", inTx, None, f, "false", NoRow)
         \/ \E i \in hits :
              Returns(c, "Find", inTx, ScannedID(db, i, None), f, "true", ScannedRow(db, t[i]))
  /\ UNCHANGED <<db, rows, ws, tx, pend>>
-----------------------------------------------------------------------------
(* Transactions and errors.                                                *)
BeginTx(c) ==
  /\ pend[c] = None
  /\ tx[c] = "none"
  /\ tx' = [tx EXCEPT ![c] = "active"]
  /\ Returns(c, "Begin", TRUE, None, NoFields, "true", NoRow)
  /\ UNCHANGED <<db, rows, ws, pend>>

\* The *sql.Tx is done, whatever the outcome.
EndTx(c, call, table, out) ==
  /\ pend[c] = None
  /\ rows' = table
  /\ ws'   = [ws EXCEPT ![c] = Clean]
  /\ tx'   = [tx EXCEPT ![c] = "none"]
  /\ Returns(c, call, TRUE, None, NoFields, out, NoRow)
  /\ UNCHANGED <<db, pend>>

\* An error of CommitTx leaves open whether the database committed; the
\* commit of a transaction the database has aborted always fails.
CommitTx(c) ==
  \/ tx[c] = "active" /\ \E out \in {"true", "error"} : EndTx(c, "Commit", View(c), out)
  \/ tx[c] # "none" /\ EndTx(c, "Commit", rows, "error")

\* Mutant of RollbackTx: the writes are kept, as if the transaction committed.
MutRollbackTx(c) == tx[c] # "none" /\ EndTx(c, "Rollback", View(c), "true")

RollbackTx(c) ==
  tx[c] # "none" /\ \E out \in {"true", "error"} : EndTx(c, "Rollback", rows, out)

Statements == {"Upsert", "Update", "Delete", "Find"}
Calls      == Statements \cup {"Begin", "Commit", "Rollback"}

\* An error before anything is sent: a nil or finished transaction, no schema,
\* a field the schema does not have, a cancelled context.
Refuse(c, call, inTx) ==
  /\ pend[c] = None
  /\ Returns(c, call, inTx, None, NoFields, "error", NoRow)
  /\ UNCHANGED <<db, rows, ws, tx, pend>>

\* PostgreSQL and its relatives abort the transaction a statement fails in.
AbortsTx(a) == a \in {"postgres", "yugabyte", "cockroach"}

\* What becomes of c's transaction when a statement in it fails: the database
\* may have chosen it as a deadlock victim, or the connection is gone.
AfterError(c, inTx) ==
  \/ ~(inTx /\ AbortsTx(db)) /\ UNCHANGED <<ws, tx>>
  \/ /\ inTx
     /\ tx' = [tx EXCEPT ![c] = "aborted"]
     /\ ws' = [ws EXCEPT ![c] = Clean]

\* The statement of a call fails: duplicate value, deadlock, timeout.
StatementFails(c, call, inTx) ==
  /\ Ready(c, inTx)
  /\ AfterError(c, inTx)
  /\ Returns(c, call, inTx, None, NoFields, "error", NoRow)
  /\ UNCHANGED <<db, rows, pend>>

\* The second statement of Oracle's Insert fails.
FallbackFails(c) ==
  /\ pend[c] # None
  /\ AfterError(c, pend[c].inTx)
  /\ Returns(c, "Upsert", pend[c].inTx, None, NoFields, "error", NoRow)
  /\ pend' = [pend EXCEPT ![c] = None]
  /\ UNCHANGED <<db, rows>>

Init ==
  /\ db \in Adapters
  /\ rows = [i \in Ids |-> NoRow]
  /\ ws   = [c \in Callers |-> Clean]
  /\ tx   = [c \in Callers |-> "none"]
  /\ pend = [c \in Callers |-> None]
  /\ last = None

Next ==
  \E c \in Callers :
    \/ \E inTx \in BOOLEAN, id \in Ids, f \in Writes :
         \/ Upsert(c, inTx, id, f)
         \/ OracleRejected(c, inTx, id, f)
         \/ Update(c, inTx, id, f)
    \/ \E inTx \in BOOLEAN, id \in Ids :
         \/ Delete(c, inTx, id)
         \/ FindByID(c, inTx, id)
    \/ \E inTx \in BOOLEAN, f \in Keys \ {NoFields} : FindByKey(c, inTx, f)
    \/ OracleFallback(c)
    \/ FallbackFails(c)
    \/ \E call \in Statements, inTx \in BOOLEAN : StatementFails(c, call, inTx)
    \/ \E call \in Calls, inTx \in BOOLEAN : Refuse(c, call, inTx)
    \/ BeginTx(c) \/ CommitTx(c) \/ RollbackTx(c)

Spec == Init /\ [][Next]_vars
-----------------------------------------------------------------------------
(* Properties.                                                             *)
Pending == [inTx : BOOLEAN, id : Ids, f : Writes]
Events  == [by : Callers, call : Calls, inTx : BOOLEAN, id : Ids \cup {None},
            f : Fields, out : {"true", "false", "error"}, got : Rows \cup {NoRow}]

\* The types of the variables: committed tables hold whole rows, a transaction
\* overlays rows, a pending Oracle call keeps its arguments.
TypeOK ==
  /\ db \in Adapters
  /\ rows \in Tables
  /\ ws \in [Callers -> [Ids -> Rows \cup {NoRow, Untouched}]]
  /\ tx \in [Callers -> {"none", "active", "aborted"}]
  /\ pend \in [Callers -> Pending \cup {None}]
  /\ last \in Events \cup {None}

NoDuplicates(t) ==
  \A i, j \in Ids : i # j /\ t[i] # NoRow /\ t[j] # NoRow =>
    \A u \in Unique : t[i][u] = t[j][u] => t[i][u] = Null

\* No two committed objects share the value of a UNIQUE column, whatever mix of
\* upserts, evictions by REPLACE, transactions and rollbacks ran.
UniqueKeys == NoDuplicates(rows)

\* A transaction that is over, or that the database aborted, has left nothing
\* behind that a later commit could apply.
NothingLeft == \A c \in Callers : tx[c] # "active" => ws[c] = Clean

\* Two open transactions never have the same row written, so that committing
\* one never overwrites the other.
OneWriter == \A c, d \in Callers : c # d => Held(c) \cap Held(d) = {}

\* Each transaction's own view respects the UNIQUE columns ...
ViewsUnique == \A c \in Callers : NoDuplicates(View(c))

\* ... and so will the table when several of them have committed.
NoPendingClash ==
  \A c, d \in Callers : c # d =>
    \A i \in Held(c), j \in Held(d) :
      ws[c][i] # NoRow /\ ws[d][j] # NoRow => ~Clash(ws[c][i], ws[d][j])

\* Oracle's UPDATE still runs in the transaction its INSERT was rejected in.
PendingInTx == \A c \in Callers : pend[c] # None /\ pend[c].inTx => tx[c] = "active"

\* The inductive strengthening of UniqueKeys.
IInv ==
  /\ UniqueKeys /\ NothingLeft /\ OneWriter
  /\ ViewsUnique /\ NoPendingClash /\ PendingInTx

Contract == INSTANCE StorageContract

\* The adapter implements the contract of storage.Storage: what callers see is
\* atomic insert-or-update, truthful results and all-or-nothing transactions.
ImplementsContract == Contract!Spec

\* A step in which some call returns: all but Oracle's rejected INSERT.
Returned == \A c \in Callers : pend[c] = None => pend'[c] = None

UpsertSucceeded == Returned /\ last'.call = "Upsert" /\ last'.out = "true"

\* The upsert that returned last' left its values in the caller's table.
Stored ==
  LET t == Base(last.by, last.inTx)'
  IN  /\ t[last'.id] # NoRow
      /\ \A x \in DOMAIN last'.f : t[last'.id][x] = last'.f[x]

\* The table of the caller before the step that returned last', and after it.
Before == Base(last'.by, last'.inTx)
After  == Base(last.by, last.inTx)'

\* When Insert or Upsert returns success the object is in the caller's table,
\* with the field values it was given (README: atomic insert-or-update), as far
\* as the adapters keep it: an Oracle upsert that is acknowledged and
\* not stored, its row deleted between the two statements or its values taken
\* by another row, has at least changed nothing.
StoredOrIdle ==
  [][UpsertSucceeded => Stored \/ (db = "oracle" /\ After = Before)]_vars

Replacing == {"sqlite", "tidb"}

\* An upsert changes no object but its own, whoever runs between Oracle's two
\* statements; but INSERT OR REPLACE and REPLACE INTO remove the objects that
\* hold one of its unique values, and only those.
EvictsOnlyRivals ==
  [][UpsertSucceeded =>
       \A i \in Ids \ {last'.id} :
         \/ After[i] = Before[i]
         \/ /\ db \in Replacing
            /\ After[i] = NoRow
            /\ \E u \in Unique : Before[i][u] # Null /\ Before[i][u] = After[last'.id][u]]_vars

\* An upsert of a stored object leaves the fields it was not given as they are,
\* or, where it replaces the row, resets all of them.
OmittedFieldsKept ==
  [][UpsertSucceeded /\ Before[last'.id] # NoRow =>
       \A x \in Cols \ DOMAIN last'.f :
         After[last'.id][x] = IF db \in Replacing THEN Null ELSE Before[last'.id][x]]_vars

\* An Update that returns false has lost nothing: the object is not there, or
\* (TiDB counts changed rows) it has the given values already.
FalseUpdateLosesNothing ==
  [][Returned /\ last'.call = "Update" /\ last'.out = "false" =>
       Before[last'.id] = NoRow \/ Stored]_vars

(* Where the adapters depart from the contract.                            *)

\* REPLACE resets the columns that are not given and evicts rivals.
Replaces ==
  /\ db \in Replacing /\ last'.call = "Upsert"
  /\ \E f \in Writes :
       /\ last'.f = f
       /\ After = ReplaceInto(Before, last'.id, f).new
       /\ After # Put(Before, last'.id, Merged(Before, last'.id, f))

\* Oracle's second statement found no row, and success is returned.
StoresNothing ==
  /\ db = "oracle" /\ last'.call = "Upsert" /\ last'.out = "true"
  /\ pend[last'.by] # None
  /\ pend[last'.by].inTx = last'.inTx /\ pend[last'.by].id = last'.id
  /\ Before[last'.id] = NoRow
  /\ UNCHANGED <<rows, ws, tx>>

\* TiDB says of an object that has the given values that it is not there.
DeniesUpdate ==
  /\ db = "tidb" /\ last'.call = "Update" /\ last'.out = "false"
  /\ Before[last'.id] # NoRow
  /\ \A x \in DOMAIN last'.f : Before[last'.id][x] = last'.f[x]
  /\ UNCHANGED <<rows, ws, tx>>

\* YugabyteDB returns an object without its id and its values.
FindsBlank ==
  /\ db = "yugabyte" /\ last'.call = "Find" /\ last'.out = "true"
  /\ last'.id = None /\ last'.got = Blank
  /\ UNCHANGED <<rows, ws, tx>>

Departs ==
  /\ last' \in Events
  /\ Replaces \/ StoresNothing \/ DeniesUpdate \/ FindsBlank

\* These four are all: in everything else that any adapter does, errors, lost
\* replies, aborted transactions and Oracle's two statements included, it keeps
\* the contract (README: "consistent CRUD operations across multiple database
\* backends").
DepartsAsKnown ==
  [][Contract!Next \/ UNCHANGED Contract!vars \/ Departs]_vars
=============================================================================
