------------------------------- MODULE Connection -------------------------------
(***************************************************************************)
(* The connection of one SQL storage: Connect opens a handle (a sql.DB, in *)
(* CockroachDB with its pool) and keeps it, ResetConnection closes it and  *)
(* keeps it too. One caller, Main, connects, creates the tables and resets;*)
(* every caller uses the storage, and those other than Main hold           *)
(* transactions, which stay on the handle they were begun on.              *)
(* (Names begin with Conn where TableCreation, the other part of a         *)
(* storage's start, has the same.)                                         *)
(***************************************************************************)
EXTENDS Naturals

CONSTANTS
  Callers, Main,
  Storages,     \* the adapters under study
  MaxConnects   \* bound on the handles opened

SqlAdapters == {"sqlite", "postgres", "sqlserver", "oracle", "cockroach", "yugabyte", "tidb"}

ASSUME MainAssumption     == Main \in Callers
ASSUME StoragesAssumption == Storages \subseteq SqlAdapters
ASSUME ConnectsAssumption == MaxConnects \in Nat

Handles  == 1 .. MaxConnects
NoHandle == 0

VARIABLES
  storage,  \* its adapter
  db,       \* the storage's handle, NoHandle before the first Connect
  opened,   \* how many handles were opened so far
  open,     \* those that are open
  closing,  \* those whose Close waits for transactions
  sch,      \* the storage has a schema
  tx,       \* by caller: the handle of its transaction, or NoHandle
  resets,   \* Main waits in ResetConnection
  outcome   \* of the last call

connVars == <<storage, db, opened, open, closing, sch, tx, resets, outcome>>

Outcomes == {"ok", "not connected", "schema not initialized", "closed", "nil schema", "nil handle"}

ConnInit ==
  /\ storage \in Storages
  /\ db = NoHandle
  /\ opened = 0
  /\ open = {} /\ closing = {}
  /\ sch = FALSE
  /\ tx = [c \in Callers |-> NoHandle]
  /\ resets = FALSE
  /\ outcome = "ok"

\* Main is busy while it waits in ResetConnection.
Free(c) == c = Main => ~resets
-----------------------------------------------------------------------------
(* What a call looks at before it uses the handle, and the schema.         *)

Calls   == {"Insert", "Update", "FindByKey", "DeleteByID", "AlterTable"}
TxCalls == {"InsertTx", "UpdateTx", "FindByKeyTx", "DeleteByIDTx"}

ChecksConnection(call) == call = "FindByKey" => storage \in {"sqlite", "postgres"}

ChecksSchema(call) ==
  \/ call \in {"Insert", "InsertTx"}
  \/ call = "Update" /\ storage \in {"sqlite", "postgres"}

ReadsSchema(call) == call \notin {"DeleteByID", "DeleteByIDTx", "AlterTable"}

\* A method on a nil schema or a nil handle panics.
SchemaOutcome(call) ==
  IF sch \/ ~ReadsSchema(call) THEN "ok"
  ELSE IF ChecksSchema(call) THEN "schema not initialized" ELSE "nil schema"

HandleOutcome ==
  IF db = NoHandle THEN "nil handle"
  ELSE IF db \notin open \/ db \in closing THEN "closed" ELSE "ok"

Outcome(call) ==
  IF db = NoHandle /\ ChecksConnection(call) THEN "not connected"
  ELSE IF SchemaOutcome(call) # "ok" THEN SchemaOutcome(call) ELSE HandleOutcome
-----------------------------------------------------------------------------
(* The calls.                                                              *)

\* The new handle takes the place of the old one, which nobody closes.
Connect ==
  /\ Free(Main) /\ opened < MaxConnects
  /\ opened' = opened + 1
  /\ open' = open \cup {opened + 1}
  /\ db' = opened + 1
  /\ outcome' = "ok"
  /\ UNCHANGED <<storage, closing, sch, tx, resets>>

\* These ping the database, and leave the handle open when that fails.
ConnectFails ==
  /\ Free(Main) /\ opened < MaxConnects
  /\ storage \in {"postgres", "sqlserver", "oracle"}
  /\ opened' = opened + 1
  /\ open' = open \cup {opened + 1}
  /\ outcome' = "not connected"
  /\ UNCHANGED <<storage, db, closing, sch, tx, resets>>

\* CreateTables, which TableCreation has in detail, as far as the handle goes.
CallCreateTables ==
  /\ Free(Main)
  /\ outcome' = IF db = NoHandle THEN "not connected" ELSE HandleOutcome
  /\ sch' = (sch \/ outcome' = "ok")
  /\ UNCHANGED <<storage, db, opened, open, closing, tx, resets>>

\* Mutant of Close: the storage forgets the handle it closed, as S3Storage does.
MutClose ==
  /\ open' = open \ {db}
  /\ closing' = closing \ {db}
  /\ db' = NoHandle

\* BaseSQLStorage.ResetConnection. A transaction goes on on its connection.
Close ==
  /\ open' = open \ {db}
  /\ closing' = closing \ {db}
  /\ UNCHANGED db

ResetConnection ==
  /\ Free(Main)
  /\ outcome' = "ok"
  /\ UNCHANGED <<storage, opened, sch, tx>>
  /\ IF storage = "cockroach" /\ db \in open
       THEN /\ resets' = TRUE
            /\ closing' = closing \cup {db}
            /\ UNCHANGED <<db, open>>
       ELSE UNCHANGED resets /\ Close

\* CockroachDB: pool.Close returns when the pool has its connections back.
PoolClosed ==
  /\ resets
  /\ \A c \in Callers : tx[c] # db
  /\ resets' = FALSE
  /\ Close
  /\ outcome' = "ok"
  /\ UNCHANGED <<storage, opened, sch, tx>>

Use(c, call) ==
  /\ Free(c)
  /\ outcome' = Outcome(call)
  /\ UNCHANGED <<storage, db, opened, open, closing, sch, tx, resets>>

UseTx(c, call) ==
  /\ tx[c] # NoHandle
  /\ outcome' = SchemaOutcome(call)
  /\ UNCHANGED <<storage, db, opened, open, closing, sch, tx, resets>>

BeginTx(c) ==
  /\ c # Main /\ tx[c] = NoHandle
  /\ outcome' = IF db = NoHandle THEN "not connected" ELSE HandleOutcome
  /\ tx' = IF outcome' = "ok" THEN [tx EXCEPT ![c] = db] ELSE tx
  /\ UNCHANGED <<storage, db, opened, open, closing, sch, resets>>

\* Mutant of EndTx: the transaction is ended only over a connection in use.
MutEndTx(c) ==
  /\ tx[c] # NoHandle
  /\ outcome' = HandleOutcome
  /\ tx' = IF outcome' = "ok" THEN [tx EXCEPT ![c] = NoHandle] ELSE tx
  /\ UNCHANGED <<storage, db, opened, open, closing, sch, resets>>

\* CommitTx and RollbackTx ask only for the transaction.
EndTx(c) ==
  /\ tx[c] # NoHandle
  /\ tx' = [tx EXCEPT ![c] = NoHandle]
  /\ outcome' = "ok"
  /\ UNCHANGED <<storage, db, opened, open, closing, sch, resets>>

ConnNext ==
  \/ Connect \/ ConnectFails \/ CallCreateTables \/ ResetConnection \/ PoolClosed
  \/ \E c \in Callers :
       \/ \E call \in Calls : Use(c, call)
       \/ \E call \in TxCalls : UseTx(c, call)
       \/ BeginTx(c)
       \/ EndTx(c)

ConnSpec == ConnInit /\ [][ConnNext]_connVars

\* Callers end the transactions they began, and goroutines run.
FairConnSpec ==
  ConnSpec /\ WF_connVars(PoolClosed) /\ \A c \in Callers : WF_connVars(EndTx(c))
-----------------------------------------------------------------------------
(* Properties.                                                             *)

\* The types of the variables.
ConnTypeOK ==
  /\ storage \in Storages
  /\ db \in Handles \cup {NoHandle}
  /\ opened \in 0 .. MaxConnects
  /\ open \subseteq Handles
  /\ closing \subseteq Handles
  /\ sch \in BOOLEAN
  /\ tx \in [Callers -> Handles \cup {NoHandle}]
  /\ resets \in BOOLEAN
  /\ outcome \in Outcomes

\* No call uses a nil handle, though FindByKey of five adapters does not ask
\* for a connection: it reads the schema first, which CreateTables sets only
\* over a connection, and ResetConnection keeps the handle.
NoNilHandle == outcome # "nil handle"

\* The inductive invariant behind it.
ConnInv == ConnTypeOK /\ NoNilHandle /\ (sch => db # NoHandle)

\* ResetConnection returns, also while other callers hold transactions.
ResetReturns == resets ~> ~resets
=============================================================================
