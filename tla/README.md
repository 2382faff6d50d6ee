# DDAO in TLA+

DDAO is a Go library that puts one interface, `storage.Storage`, in front of
nine databases. This directory specifies what that interface promises, models
what the adapters do, checks the one against the other with TLC, and proves the
most important results with TLAPS. Paths are relative to `src/`.

Contents: [the system](#the-system), [the modules](#the-modules),
[the runs](#the-runs), [what the code does not keep](#what-the-code-does-not-keep),
[the proofs](#the-proofs), [fairness](#fairness),
[abstractions](#abstractions), [the plan](#the-plan).

## The system

A program builds a `schema.Schema`, wraps a storage in an `orm.ORM`, calls
`Connect` and `CreateTables`, and from then on inserts, updates, finds and
deletes `object.Object`s, from as many goroutines as it likes, with or without a
`*sql.Tx`. Nothing in the library starts a goroutine; all of its concurrency is
that of its callers, of other programs on the same database, and of the requests
that a call is made of.

| Component | State it keeps | Operations | Interacts with | What is hard | What makes it correct |
|---|---|---|---|---|---|
| SQL adapters `storage/{sqlite,postgres,sqlserver,oracle,cockroach,yugabyte,tidb}` and `storage/common` | none of their own for calls; the tables, the transactions and the locks are the database's | `Insert`, `Upsert`, `Update`, `FindByID`, `FindByKey`, `DeleteByID`, their `...Tx` variants, `BeginTx`, `CommitTx`, `RollbackTx`, `AlterTable` | the database, one or two statements a call | Oracle's two statements; REPLACE that evicts rows; lost replies; transactions the database aborts | calls are atomic, results are true, transactions are all or nothing, unique values stay unique |
| Field binding and scanning (`common/types.go`, `common/utils.go`, and a copy in each adapter) | the Go variables of one call | what a field is bound as; what a column is scanned into and read as | both finds of each adapter | nullable columns, JSON, two copies per adapter that disagree | what is found is what was saved; what is stored can be read; saving what was found changes nothing |
| Table creation (`CreateTables`, `mapDataType`) | the tables and constraints in the database; the storage's schema pointer | one `CREATE TABLE` per table; Oracle: a check, a `CREATE`, an `ALTER` per unique column | other programs on the database, crashes | partial failure, retry, races of two programs | a storage with a schema has its tables; UNIQUE is UNIQUE; a retry gets through |
| Connection (`common/base.go`, each `Connect`, `ResetConnection`) | the handle, CockroachDB's pool, the schema pointer | `Connect`, `ResetConnection`, the checks at the start of each call | open transactions | calls that skip the checks; a handle kept after it is closed; `pool.Close` waits | no nil handle; reset returns |
| S3 adapter `storage/s3` | the client and uploader; a bucket with one JSON object per row | the same calls, as one to many requests | S3, other goroutines between two requests | check-then-put, paging, skipped errors, transactions that are none | as for SQL |
| ScyllaDB adapter `storage/scylla` | session, schema | the same calls, one CQL statement each, under the schema's lock | `schema.Schema` | locks it holds already | calls return |
| Schema `schema` | the map of tables, an RWMutex | `AddTable`, `GetTable`, `Lock`..., loops over the map in `CreateTables` | every adapter | readers, writers and loops at once; unknown tables | no race, no lock lost, no panic |
| ORM `orm` | the storage and the schema | hands every call on; `FindByID` becomes `FindByKey("id")` | the storage | adapters for which these are not the same | as the storage |
| `AlterTable` and InfoSchema parser `schema/parser/infoschema` | the table in the database, and each program's schema beside it | `ALTER TABLE ADD COLUMN`; reading a table's columns and indexes into a `Schema` | programs with older and newer schemas | nobody compares the two; two queries; types and defaults that do not come back | a schema that was read fits the table; older programs can go on |
| Wiki `examples/wiki` | users, sessions, pages | register, log in and out, view, edit | the ORM on SQLite, several browsers | a row read in one call and written in a later one; REPLACE that evicts an account | sessions that ended stay gone; no session changes hands; authors and titles are kept |
| LDAP server `examples/ldapd` | entries and users | ADD, DELETE, MODIFY, BIND, the start with its initial data | the ORM on SQLite, connections and web requests | two tables without a transaction; a start cut off in the middle | the two tables agree; deleted is deleted; a restart takes nothing back |
| Object `object` | one object | accessors with conversions | | | |
| REST server `examples/restd`, database console `examples/dbadmin`, demos | users and posts; a storage and a flag | HTTP | the ORM | find, then update | |

Not modelled: `object` (accessors of one value), the test suite (its
expectations are quoted by the properties), `examples/restd` (its handlers find
and update as the wiki's do, and keep nothing that the storage does not),
`examples/dbadmin` (it runs what a person types; its requests share a storage and
a flag without any order, so that no property of them could hold), the demos and
the containers. `PROJECT.json` has the status of every part, the hazards found
in the code at its line, and which property covers it.

## The modules

```
ObjectTable          ids, columns, rows, merging
  StorageContract    what storage.Storage promises (abstract)
  SqlStatements      the statement of each adapter for each call
    SqlStorage       callers, transactions, locks, errors      -> StorageContract
                                                               <- SqlStorageProofs
  S3Storage          requests, paging, reset                   -> StorageContract
                                                               <- S3StorageProofs
FieldCodec           binding and scanning of one field         <- FieldCodecProofs
TableCreation        CreateTables, crashes, two programs       <- StorageLifeProofs
Connection           Connect, ResetConnection, the checks      <- StorageLifeProofs
SchemaLock           schema.Schema and its RWMutex             <- SchemaLockProofs
SchemaEvolution      AlterTable and schemas read back          <- SchemaEvolutionProofs
WikiContract         what the wiki promises people (abstract)
WikiServer           the handlers of examples/wiki             -> WikiContract
                                                               <- WikiServerProofs
LdapDirectory        the operations and start of examples/ldapd <- LdapDirectoryProofs
```

Indented modules extend the one above them. `->` is a refinement (`INSTANCE` of
the contract, its `Spec` checked as a property), `<-` the module with the
proofs; `MC*` modules hold the instances for TLC. Every definition's lines are in
`PROJECT.json`, `map`.

**ObjectTable.** One table. The fields of a call are a function on a *subset* of
the columns, since a field the caller did not set is absent from
`Object.Fields`; a stored row has a value or NULL in every column. Whether an
upsert merges into the stored row or replaces it is visible only with this
difference.

**StorageContract.** The abstract specification. Its state is the committed
table `rows`, what each open transaction has written `ws`, its state `tx`, and
`last`, the call that returned last with arguments and result. Each step is the
return of one call and says what may go with it: an upsert that returns success
has written exactly the merge of its fields; an update returns true exactly when
the row was there; a find returns a row the caller can see, or there is none; an
error took effect once or not at all, and inside a transaction not at all; a
commit that succeeds applies everything. Nothing in it knows of SQL.

**SqlStatements, SqlStorage.** `SqlStatements` has what makes the adapters
differ: per adapter and path the table a statement leaves, whether the database
accepts it, and whether it counts a row (`REPLACE`, merging insert, plain
`INSERT`, `UPDATE ... WHERE`, `DELETE`), what the finds make of the row, and
TiDB's row count. `SqlStorage` runs them: `Upsert`, `Update`, `Delete`,
`FindByID`, `FindByKey` with and without `inTx`; Oracle's insert as two actions,
`OracleRejected` and `OracleFallback` or `FallbackFails`, with `pend[c]` between
them; `BeginTx`, `CommitTx`, `RollbackTx` with lost replies; `Refuse` for
errors before anything is sent and `StatementFails` for errors of the database,
which abort the transaction on PostgreSQL and its relatives. `MayRun` is the
database's locking: a row, or a unique value, that another transaction has
written blocks a statement until that transaction ends.

**S3Storage.** One action per request: `CheckExists` then `PutInserted`,
`PutUpdated` or `DeleteObject`; `FindByKey`, `NextPage`, `GetListed`,
`NotFound` for the listing; `BeginTx`, `EndTx`, `Connect`, `ResetConnection`,
and `Panics` for a call whose client was reset under it. `kept` and `crossed` are
history variables: the sought objects that were there since a search began and
whose `GetObject` has not failed, and the callers whose object another call created or deleted since their check.

**FieldCodec.** One column of one object: `Save` through `Insert` or `Update`,
`Find` in or out of a transaction, and saving again what was found. A value is
its `base` and the number of JSON encodings around it, which is all the scans
and the binding tell apart. `Studied` says which adapters and columns a run is
about.

**TableCreation.** Programs that call `CreateTables` until it returns nil, one
action per statement, with `Fails` (before or after the statement took effect)
and `Crash` anywhere.

**SchemaLock.** Go's `sync.RWMutex` as its documentation and the code have it:
`Announce` and `Lock` are the two halves of a writer's `Lock`, a reader that
comes after an announced writer waits, `Unlock` lets the waiting readers in.
On it, `GetTable`, `AddTable`, the loop of `CreateTables`, and the ScyllaDB
adapter's `GetTable` under the lock.

**Connection.** Handles are numbered as they are opened. Each call is its
sequence of checks (`Outcome`), per adapter as the code has them. Its names are
such that `StorageLifeProofs` can extend it and `TableCreation`.

**SchemaEvolution.** One table and one row of it, and programs with schemas of
their own: declared (`CreateTables`, which passes over a table that is there) or
read from the database (`ReadColumns` and then `ReadIndexes`, with other
programs' steps between). `AlterTable` is what each database makes of the
adapter's statement over a table with and without rows. `Insert`, `Update`,
`Find` and `Delete` work on the row with the caller's schema; what was found is
kept in `held` and may be saved later. `SQLiteColumn` and `InfoSchemaColumn`
are the conversions, with what they lose.

**WikiServer.** A handler is up to five storage calls; each is an action, and
`req[t]` is the request under way with everything it has read. A form stays in
its tab and can be sent late and repeatedly (`form`). `Register` evicts, as
`INSERT OR REPLACE` with UNIQUE columns does; `Login` and `CreateSession`,
`FindSession` and `FindUser`, `GetPage` and `UpdatePage` are the pairs that other
requests come between. `Fails` is an error of any call, but for the lookup of
`GET /edit`: whatever its error is, an empty form is served (`LookupFails`).
`opened` (who opened a session, and with which account), `ended` and `unseen` (the
pages of its title that a form was served without) are history variables.

**WikiContract.** What a user of the wiki relies on: users join, and a new account
takes the name and email of an older one (`Join`); somebody who knows the password
of an account opens a session for it (`Open`); sessions end and are never there
again (`End`); pages are created and edited, and keep their author (`Create`,
`Edit`). It has no tables, forms or cookies, and its requests are one step.
`WikiServer` refines it with the accounts of its `users` rows and, as the users
known, the ids of users drawn so far.

**LdapDirectory.** The two tables `entries` and `users`, the operations of
clients call by call, and the start: `CheckBase` and the five Inserts of
`setupInitialData`, one action each, with `Crash` between any two and
`CheckFails` for the error that is taken for "not there". `disturbed` and `met`
record where an ADD or DELETE was cut off or met another; `removed`, `cut` and
`redo` what the properties of a start depend on.

## The runs

Passing runs:

| Run | Instance | What it shows |
|---|---|---|
| `sql_merging` | PostgreSQL, CockroachDB, SQL Server; 2 callers, 2 ids, a UNIQUE and a plain column, 3 writes | they implement the contract (`ImplementsContract`); unique values stay unique (`UniqueKeys`) |
| `sql_others` | SQLite, TiDB, Oracle, YugabyteDB; the same | what the other four keep: an upsert that is acknowledged is stored, or (Oracle) has changed nothing (`StoredOrIdle`); only rivals of a replaced row are removed (`EvictsOnlyRivals`); omitted fields are all kept or all reset (`OmittedFieldsKept`); apart from four departures by name, they keep the contract too (`DepartsAsKnown`); the invariant behind unique keys (`IInv`) |
| `s3_alone` | 1 caller, 3 ids, 2 columns, 2 values, writes of both columns and of one, pages of 2, requests that fail with and without effect, resets | without transactions S3 keeps the contract, but for the stored values that a put was not given (`DropsOnlyFields`) |
| `s3_shared` | 2 callers, 2 ids, 1 column, 1 value, pages of 1, puts and `GetObject`s that fail, resets | a paged search misses nothing that was there all the time and could be got (`KeptIsAhead`); calls that race keep the contract, apart from departures by name (`DepartsAsKnown`, of whose four one column reaches three); `created` is true unless another call created or deleted the object since the check (`CreatedIsTruthful`); every call returns (`EveryCallReturns`) |
| `schema_shared` | 3 goroutines, 2 tables, every operation | no race of `GetTable` and `AddTable` (`NoRace`); nothing but the ScyllaDB adapter waiting for itself keeps a call from returning (`OnlyScyllaBlocks`) |
| `codec_reads` | 6 adapters, 9 columns, SQLite 3 more; 2 values, 4 encodings | what was saved is found (`FoundIsSaved`), can be read at all (`Readable`), in and out of transactions alike (`PathsAgree`), and saving what was found changes nothing (`ResaveIsIdle`); the invariant behind them (`IInv`) |
| `tables_created` | 2 programs, 3 tables (one column that two adapters cannot index), 8 adapters, 2 faults | a schema only over existing tables, with the invariant behind it (`IInv`); UNIQUE holds where CREATE TABLE says it, whoever created the table; calling again gets through unless a column has no index |
| `conn_used` | 3 callers, 3 handles, 7 adapters | no call uses a nil handle (`NoNilHandle`, with the invariant behind it, `ConnInv`); `ResetConnection` returns |
| `schema_evolved` | an older and a newer program, 2 columns, 2 values, 3 kinds of added columns (nullable text and boolean, NOT NULL text), 7 adapters | a schema read back reads every object, NULLs in added columns included, but for named kinds of columns (`ParsedReads`), and says what was declared (`ParsedIsDeclared`), also when the table changes between the two queries; what was found can be saved again, whatever others have done since (`FoundCanBeSaved`); a table in use is not altered so that programs can insert no more (`NobodyLockedOut`) |
| `wiki_edited` | 2 tabs, 2 people who want one name, 2 accounts, 2 sessions, 2 pages, 2 titles; one session ends | the server implements its contract (`ImplementsContract`): ended sessions stay gone, a name and an email have one owner, authors are kept; a session never passes to another account (`SessionKeepsAccount`); a form makes a second page of its title only in a race, when sent twice, or after a failed lookup (`DuplicatesAreUnseen`) |
| `ldap_served` | 2 clients on the base entry and the administrator's, 2 passwords, 2 faults | accounts follow their entries (`AccountsFollowEntries`); an account has its entry (`AccountsHaveEntries`); the initial tree stands (`InitialTreeStands`), a restart takes nothing back (`RestartKeepsChanges`) and gets through (`StartsAgain`) |

*Why these bounds are enough to see something.* Two callers make every race that
the code has: each hazard is between one call and one other. Two ids are needed
for an eviction and for a unique clash; the third id of `s3_alone` gives a page
with another behind it, and pages of one in `s3_shared` a page boundary between
any two objects. One cell value next to NULL is enough for equal, different and
absent fields, and each write leaves out or clears a column. The codec needs
depth 4 to wrap a JSON text twice more than callers do. Two faults let a retry
fail too. Three handles are a connect, a failed connect and a reconnect. Two
programs are one that knows a column and one that does not; two columns are one
of the first schema and one that is added. In the wiki, two tabs are two editors
of a page, or an editor and somebody who logs out or registers; one title is
asked for, since what is about a title does not depend on which. In the
directory, two clients are two operations that meet on a DN, and two faults cut a
start and the one after it. `Callers` and `Ids` are symmetric in the SQL runs,
tabs and ids in `wiki_edited`, which check no liveness; no other run uses
symmetry. The bounded quantities are `MaxDepth`, `MaxFaults` (of `TableCreation`
and `LdapDirectory`), `MaxConnects`, and in `wiki_edited` the sessions that end:
of the two only one does (`OneEnds`), since what a session's end can spoil it
spoils for the work of that session, while the other shows that the rest goes on.
Every other variable is finite by its type, in the wiki because ids are used up.
The SQL runs look at states through `MCView`, which leaves `last` out: what a call
returned decides nothing that happens later. Every step is still checked with its
own `last`. The view keeps whether `last` is the return of a `BeginTx`, so that a
call that returns what another has just returned, and changes nothing else, is
not taken for a stutter.

*Deadlock* is not checked where the model may stop: a transaction can be left
open for ever while the only other caller waits for its lock, or is in the
middle of Oracle's two statements (`SqlStorage`); a caller of a reset storage
that nobody connects again (`S3Storage`); a goroutine stuck in a lock, which is
what liveness is checked for (`SchemaLock`); a database where every program is
ready and nothing is left to insert (`TableCreation`); a database where no
program's table can be created (`SchemaEvolution`). `Connection`, `FieldCodec`,
`WikiServer` and `LdapDirectory` check it.

## What the code does not keep

One run ends in a counterexample that follows the code; the quoted documentation
is in `PROJECT.json`, `findings`.

| Run | Violated | What happens |
|---|---|---|
| `schema_scylla` | `EveryCallReturns` | three calls of the ScyllaDB adapter deadlock on themselves |

What else the code does not keep is in the models as the code has it, and the
properties say what holds in spite of it, or the runs leave it out by a condition
that is stated here:

- Between Oracle's INSERT and UPDATE the row can be deleted: success, and nothing
  is stored (one of the two cases where `StoredOrIdle` allows "has changed
  nothing").
- On S3 an insert or update puts the object with the fields it was given: values
  stored before under other columns are gone (`DropsFields`), where the SQL
  adapters keep them and the contract merges. An update puts its object back when
  another caller deletes it after the check (`PutsBack`), a delete of an object
  that another caller deleted after the check says that it did it
  (`DeletesNothing`), and a search overlooks objects stored behind it, or whose
  `GetObject` fails, which it takes for objects that are gone (`Overlooks`). These
  four are all that `DepartsAsKnown` allows, and the first all that
  `DropsOnlyFields` allows a single caller; `s3_alone` reaches the first,
  `s3_shared` the others; the second and third only for a caller in `crossed`. For
  such a caller `created` need not be true either: when two callers insert an
  object, both may be told that they created it.
- Two programs that start at once, or a crash between Oracle's CREATE and its
  ALTERs, leave a UNIQUE column without its constraint for good
  (`UniqueWhereDeclared` is about the other adapters).
- SQLite and TiDB remove other objects that hold a unique value of the new one
  (the exception in `EvictsOnlyRivals`) and reset the fields an upsert was not
  given (that in `OmittedFieldsKept`).
- TiDB's update that changes nothing says that there was nothing to update (`DeniesUpdate`
  in `DepartsAsKnown`; it has lost nothing, `FalseUpdateLosesNothing`).
- Oracle takes any error with "unique" in it for an existing row, so that a
  clash in another column is acknowledged and not stored (the exception in
  `StoredOrIdle`, beside the race).
- YugabyteDB's finds return an object without its ID and values (`ScannedRow`,
  `ScannedID`; `FindsBlank` in `DepartsAsKnown`).
- On S3 `ORM.FindByID` misses objects whose fields do not repeat the id (all of
  `MCWrites` and `MCShared` do), and transactions do nothing (`AsEvent` counts
  their calls as failed).
- The loops of `CreateTables` over the schema's map take no lock and race with
  `AddTable` (`NoRace` is about the others); `GetTable` of an unknown table panics, with its lock released.
- SQL Server, Oracle, and PostgreSQL inside transactions read a nullable JSON
  column as nil; other kinds of nullable columns cannot be read back when NULL,
  depending on the adapter (`MCStudied` has the columns that can).
- SQL Server, Oracle and TiDB cannot index the text types the schema allows for
  unique columns; the README's quick start has one (`Unindexable`).
- `AlterTable` with NOT NULL gives no DEFAULT. SQLite refuses it, the others over
  a table with rows; over an empty one, and in TiDB always, it keeps programs
  with an older schema from inserting (the exceptions in `NobodyLockedOut`).
- TiDB's BIGINT and TINYINT, which INTEGER and BOOLEAN become, are types that the
  finds refuse: a schema that was read back does not read such tables. A nullable
  BOOLEAN or REAL is scanned into a `bool` or `float64`, which takes no NULL: when
  `AlterTable` adds one, no object stored before can be found by a program that
  knows the column (both are `Unreadable`, the condition of `ParsedReads`). SQLite's DEFAULT comes back in quotes, and
  `CreateTables` quotes it again (that of `ParsedIsDeclared`).
- A start of the LDAP server that is cut off after its first entry is never
  completed, and one whose check fails writes over a directory in use (`cut`,
  `redo`). ADD and DELETE that meet, are cut off, or meet a bind may leave an
  account without an entry or with an old password (`disturbed`).
- Two wiki editors of one title make two pages, and so does one who is served an
  empty form because the lookup failed (`unseen` in `DuplicatesAreUnseen`); the later of two saves of a page wins; a registration
  takes the name of another account and removes it.
- Finds, and most updates, before `CreateTables` use a nil schema and panic
  (the outcome `"nil schema"`); a failed or second `Connect` leaves a handle
  that nobody closes (`ConnectFails`, `Connect`).

## The proofs

All are checked by `tlapm` for every value of the constants that satisfies the
named assumptions (NULL is not a value, `NoRow` not a row, `Untouched` neither,
`Adapters` among those modelled, writes are fields, and the like). None assumes
that a set is finite.

- `SqlStorageProofs!TypeCorrect`. A committed table holds whole rows only, and
  a pending Oracle call arguments of a call. The lemmas say what each statement
  leaves.
- `SqlStorageProofs!SuccessStored`, `OnlyRivalsEvicted`, `OmittedKept`,
  `FalseUpdateTruthful`. The action properties of all seven adapters.
  `UpsertHasEffect` and `FallbackHasEffect` say what table the statement of an
  acknowledged upsert leaves, merged or replaced; `WhoReturns` finds the action
  behind a return, `OracleWaits` is the invariant that only Oracle is ever
  between two statements, and `AppliedTable` that what the caller sees next is
  what the statement left.
- `SqlStorageProofs!DeparturesKnown`. Every step of each of the seven adapters,
  whatever the callers, writes and UNIQUE columns, is a step of
  `StorageContract`, a stutter, or one of four departures: `Replaces` (SQLite,
  TiDB), `StoresNothing` (Oracle), `DeniesUpdate` (TiDB), `FindsBlank`
  (YugabyteDB). The mapping is the identity on `rows`, `ws`, `tx` and `last`. One
  lemma per action gives the contract's action it is, or the departure.
- `SqlStorageProofs!ContractKept`. What is left is to say when no departure
  can happen: SQLite implements the contract where no column is UNIQUE and
  every write sets every column (`WholeRowsMerge`: REPLACE is then a merge),
  Oracle where no column is UNIQUE and there is one caller (`RowAwaits`: the row
  that the INSERT met is there when the UPDATE comes), PostgreSQL, CockroachDB
  and SQL Server always (`MergingImplementsContract`). None of the hypotheses is
  spare: TLC finds a behaviour that is not the contract's for SQLite with a UNIQUE
  column or with partial writes, for Oracle with a UNIQUE column or with two
  callers, and for TiDB and YugabyteDB.
- `SqlStorageProofs!UniqueInvariant`, `UniqueKept`. No two committed objects
  share a unique value, on any adapter. `UniqueKeys` is not inductive: a commit
  may bring in the duplicate. `IInv` adds that every transaction's view is free
  of duplicates (`ViewsUnique`), that two transactions never write one row
  (`OneWriter`) nor two rows that clash (`NoPendingClash`), and that a
  transaction that is over has left no writes (`NothingLeft`, with
  `PendingInTx` for Oracle, whose second statement may run only in a transaction
  that is still there). With these, the table after a commit and the view of
  every other transaction over it are free of duplicates: a pair of rows comes
  from the table, from one transaction, or from two, and each has its conjunct.
  For a statement, `ApplyAutocommit` and `ApplyInTx` use its locks, one lemma per
  kind of statement its effect: `REPLACE` is the interesting one, since it makes
  room for its row by deleting others.
- `S3StorageProofs!SearchIsAhead`, `NotFoundTruthful`. `KeptIsAhead` is not
  inductive: an object of `kept` also has to be one that the listing will still
  return and whose fields still match, whatever others put meanwhile, which takes
  that stored objects repeat their ID. The induction over pages needs the least
  key beyond the cursor, from `WellFoundedInduction`. Assumed: objects repeat
  their ID (`Searchable`).
- `S3StorageProofs!SearchAdvances`. Each step of a search ends it, looks at a key
  that it never looks at again, or fetches a page that has keys or is the last. The
  keys ahead of it (`Ahead`) only get fewer, whatever others do (`PageIsBehind`);
  over finitely many ids a search that goes on comes to an end.
- `S3StorageProofs!DepartsOnlyAsKnown`. Any number of callers, with requests that
  fail and resets: every request is a step of the contract, a stutter, or one of
  the four departures `DropsFields`, `PutsBack`, `DeletesNothing`, `Overlooks`. A
  put, which replaces, is the contract's merge as long as it drops no value
  (`PutMerges`); that a search which ends has nothing left in `kept` is
  `KeptIsAhead`, from which `NotFoundTruthful` follows too.
- `S3StorageProofs!CreatedTruthful`. However many callers there are, what a check
  has seen still stands when its object is put or deleted, unless another call has
  created or deleted the object in between (`CheckStands`, over the callers
  outside `crossed`): then `created` is true, and an update or a delete has its
  object. An overwrite by others takes nothing of that back.
- `S3StorageProofs!CreatedTruthfulAlone`, `AloneDropsOnlyFields`,
  `AloneImplementsContract`. A single caller is never crossed (`Undisturbed`), so
  that `created` is true without exception and, where every `GetObject` gets an
  answer, no departure is possible but the dropped fields (`NoRaceAlone`); nor
  these, if its objects always have a value in every column (`Complete`, kept by
  `WholeObjects`).
- `SchemaLockProofs!LockInvariant`, `TablesGuarded`. No goroutine
  stores into the map while another is in `GetTable` or `AddTable`, for any
  number of goroutines. `Exclusion` relates program counters to the
  lock's two fields.
- `SchemaLockProofs!ScyllaNeverReturns`, `SelfLockIsFinal`. The deadlock that
  `schema_scylla` shows, as a fact about every behaviour: no Insert, Update or
  FindByKey of the ScyllaDB adapter ever returns, and once one waits for its own
  lock it waits for good, no table is added, and only `CreateTables`, which takes
  no lock, still comes back. `SelfLocking`: the holder of the write lock is such a
  call, or has not yet done what it took the lock for.
- `SchemaLockProofs!NobodyStuck`. The lock has no other deadlock: while a call has not
  returned, what some goroutine waits for has come (`CanGoOn`, the guards of the
  steps), or a call of the ScyllaDB adapter waits for itself. `WaitsForSomeone`: readers
  wait for a writer, and a writer for readers that are reading, never in a circle.
- `FieldCodecProofs!CodecInvariant`, `FoundSaved`, `AllReadable`, `PathsAreAlike`,
  `ResavesAreIdle`. The properties of the codec for any adapters, columns and
  depth of encoding whose scans satisfy a condition on the tables of scans alone:
  `Keeps` (takes no value for nil), `Reads`, `Alike`. `IInv` says that the cell is
  what was saved last, never a bare nil, and NULL only where it may be, and that
  where the scans keep values the object a caller holds is the cell.
  `LossyColumns`, `UnreadableColumns` and `UnlikeColumns` go through the tables and
  say which adapters and columns fail the conditions, and that no other does: the
  columns of `MCStudied` are what is left.
- `StorageLifeProofs!CreationInvariant`, `SchemaIsBacked`, `UniqueEnforced`.
  `LoopIsAhead`: a program in its loop has finished the tables that are not in
  `todo`, whoever created them. `BornUnique`: a table made by an adapter that
  says UNIQUE in the CREATE TABLE has been unique since. `UniqueEnforced` is about
  such adapters; Oracle, which adds UNIQUE in a statement of its own, may never do it.
- `StorageLifeProofs!UniqueAlone`. On Oracle no unique column repeats a value where
  one program creates the tables without a fault and every unique column can be
  indexed. With a second program, a fault or such a column it may: each hypothesis is
  needed, and TLC has a counterexample without it.
- `StorageLifeProofs!CreationAdvances`. A program that is not ready comes nearer to
  it with each of its steps (`Advances`): a table less to finish, or the next
  statement for the one at hand. Others never set it back; its call ends without
  a fault only when it was `Overtaken`, another program having created the table
  since Oracle's check. Tables are never dropped, so that this happens no more
  often than there are tables.
- `StorageLifeProofs!ConnectionInvariant`, `HandleIsThere`. A storage with a
  schema has a handle, which is why the finds that never ask for one do not meet
  nil: `CreateTables` asks, and `ResetConnection` keeps the handle it closes.
- `StorageLifeProofs!ResetOnlyWaits`. While CockroachDB's `ResetConnection` waits
  for its pool, the transactions it waits for only get fewer (`WaitsLess`), each
  commit or rollback taking one away: a handle that is closing serves no new one.
  None of them is that of the caller who resets (`WaitsForOthers`).
- `SchemaEvolutionProofs!ParsedCanRead`, `ParsedAsDeclared`, `FoundSaved`,
  `NobodyIsLockedOut`. A column, once added, is never
  changed or dropped: what was read of the table (`columns`, and `schema` of a
  program in `parsed`) stays what the conversions make of the table's columns
  (`ReadFromTable`), however many are added in the meantime, and what was found fits
  the table's columns (`HeldFits`). `SchemaHasTable`: a program with a schema has a
  table.
- `WikiServerProofs!EndedForGood`, `AccountKept`, `AuthorsKept`,
  `DuplicatesExplained`. `OnlyDrawn`: rows, forms and requests hold only ids that
  were drawn, so that a new id meets nothing old. `ReadStands` is what of a
  request's readings is still true when it writes: the account of a login is the
  one read or gone, the page of an edit is still there with the author read.
  `LacksUnseen`: the pages with the title of a form for a new page are those that
  were there and kept from it by a failed lookup, and those counted since.
- `WikiServerProofs!WikiImplementsContract`. Every step of the server, with up to
  five storage calls to a request and any requests between them, is a step of
  `WikiContract` or a stutter. A request may write after its session has ended or
  its account was evicted; what lets it is that its user has logged in once
  (`LoggedIn`). `RowIsOpeners` says that the row of a session is its opener's, and
  `ReadStands` that the user a request acts for has opened a session and that
  the UPDATE of an edit writes the author who is there. Assumed: no id of
  a user is that of a session or a page (`IdsAssumption`), as generateID's are.
- `LdapDirectoryProofs!AccountsFollow`, `AccountsHave`, `TreeStands`,
  `NothingTakenBack`. `Owns`: an ADD or DELETE that has met no other is alone with
  its DN and carries what the DN is left; `BindIsFresh`: a bind has read what is
  there, or the DN is disturbed. `Agrees` is the property, one DN at a time, with
  them. `GivenHasEntry`: only a start that was cut off leaves a DN an account without
  an entry, and then nobody is at it. For the start, `BaseIsFirst` (without its base entry the directory was
  never written, or a client deleted it), `Progress`, `OwnWrites` and
  `AllOrNothing`. Assumed: the four initial entries have different DNs.

Every module with proofs also proves its types (`Connection`'s as
part of its invariant), and no run repeats what is only a type: `SchemaEvolution`
keeps `TypeOK` in its run because it says more (a stored row has exactly the table's
columns).

Every invariant and every action property that a passing run checks is stated by a
theorem. Model-checked only is what is liveness (`EveryCallReturns`,
`OnlyScyllaBlocks`, `EventuallyReady`, `ResetReturns`, `StartsAgain`), which is
beyond the prover: it rests on fairness, and with it on ENABLED. Of four of them the
safety half is proved, the one that a step by step argument can have: `NobodyStuck`
is that of `OnlyScyllaBlocks`, and `SearchAdvances`, `CreationAdvances` and
`ResetOnlyWaits` are the variants behind `EveryCallReturns` of `S3Storage`,
`EventuallyReady` and `ResetReturns`. That of `StartsAgain` is the order of six
statements that nothing else touches.

Not proved either are what the models take from outside, and the operators of
`SchemaEvolution` and `FieldCodec` against the code: they are tables of what each
adapter does, and a theorem about them is one about the tables.

## Fairness

- `SchemaLock`: weak fairness of each goroutine's next step, because the Go
  scheduler runs what can run. Strong fairness of `Announce`, because writers
  queue on a `sync.Mutex`, which hands over to the longest waiter after a
  millisecond. Nobody is obliged to call.
- `S3Storage`: weak fairness of the requests of a call under way; the SDK ends
  each with an answer or an error. None of Connect, reset or new calls.
- `TableCreation`: programs run, and call `CreateTables` again after an error,
  which the README's examples leave to the caller; without it nothing can
  be said of a failed start.
- `LdapDirectory`: weak fairness of the start (`Boots`): a server that is down is
  started again by whoever runs it, and the process goes on. Faults are bounded;
  without the bound a start could be cut off for ever. None of the clients.
- `Connection`: goroutines run (`PoolClosed`), and callers end the transactions
  they began (`EndTx`), as README:623-632 asks of them.

## Abstractions

- **The database** is external: serial statements, READ COMMITTED reads, locks on
  written rows and unique values until the end of the transaction. SQLite and
  CockroachDB isolate more strictly, so that what holds here holds there. A deadlock of
  two transactions ends by `StatementFails`.
- **Transactions**: a goroutine holds at most one. Statements outside it block on
  its locks, since they use another connection of the pool.
- **Unique columns** in `SqlStorage` are created as declared (`TableCreation` is
  about when they are not), and NULLs never clash; SQL Server lets a unique
  column have a single NULL, so it rejects a write the model accepts. NOT NULL
  is in `FieldCodec`. Callers always set a field.
- **TiDB**'s row count is that of a connection string without `clientFoundRows`.
- **Drivers**: what a driver makes of a time or UUID scanned into a string is
  left to it, so those kinds are not among the portable columns. Oracle's empty string
  as NULL is not modelled.
- **DDL**: `CREATE TABLE IF NOT EXISTS` and SQL Server's batch with the same
  meaning are one step; that two of them can collide in PostgreSQL's catalog is
  one of the errors of `Fails`. The order of the loop is any order, as for a Go map.
- **S3** is strongly consistent and lists in key order; keys are numbers, which
  are also the continuation tokens. Timestamps and content types are left out.
- **A panic** ends the call, not the program: the goroutine is taken to recover,
  as an HTTP handler does, so that what a panic leaves locked is seen. A data
  race is the violation of `NoRace`, without a model of what Go does then.
- **Examples**: passwords and hashes are values that are equal or not, parsing, HTML
  and templates are left out, and ids from `generateID` are never drawn twice. Both
  servers use SQLite, whose calls are atomic (`SqlStorage`); a call that fails has
  done nothing there.
- **SchemaEvolution** leaves out "id", which every schema and table has, objects
  with no other field, JSON and times, whose values change on the way
  (`FieldCodec`), and lists of tables, comments and indexes on several columns, which `CreateTables` never makes.
- **Connection**: one goroutine connects, creates tables and resets, without a
  transaction of its own; calls are one step, so a reset in the middle of one is
  not covered.

## The plan

The order was: calls and transactions of the SQL adapters against the contract,
since every user depends on them; S3 against the same contract; the lock,
because a call that never returns is worse than a wrong one; then the data on
its way through the adapters, and the beginning and end of a storage's life.
Then schemas that change under programs, and the two servers of the examples,
where the hazards of the library meet: REPLACE, rows written back long after they
were read, two tables without a transaction. What is left, in order:

1. *Proofs*: that the accounts of the LDAP server implement a specification of
   their own, without tables and requests, as the wiki does.
2. *Connection*: `Connect` and `ResetConnection` racing with calls in the middle,
   and SQLite's `:memory:`, of which every connection of the pool has its own.
3. *Schema*: `AddField` with its field order, and S3's `CreateTables`.
4. *ScyllaDB* without its lock: `Update`, which is an upsert there, and
   `DeleteByID`, against the contract.
