------------------------------- MODULE S3Storage -------------------------------
(***************************************************************************)
(* The Amazon S3 adapter (storage/s3): one JSON object per row, no schema  *)
(* and no transactions.  Insert, Update and DeleteByID are a GetObject     *)
(* that checks for the object and then, in a second request, a PutObject   *)
(* or DeleteObject; FindByKey lists the table page by page and gets every  *)
(* object of a page.  Each request is a step here, and the requests of     *)
(* several goroutines interleave.                                          *)
(*                                                                         *)
(* The bucket is external: a strongly consistent map whose keys are listed *)
(* in order.  Timestamps are left out; a stored object is the Fields of    *)
(* the call that put it.                                                   *)
(***************************************************************************)
EXTENDS ObjectTable, Naturals, FiniteSetsExt

CONSTANTS
  Callers,    \* goroutines sharing the S3Storage
  Writes,     \* the objects that callers store, see Objects
  PageSize,   \* how many keys a ListObjectsV2 page holds
  Faults,     \* the requests that may fail: "check", "put", "list", "get"
  TxCallers,  \* the callers that use transactions
  Resets,     \* whether ResetConnection is called while others use the storage
  Untouched,  \* (of the contract) a transaction has not written this row
  None        \* no call, no id, no transaction

\* Objects are listed by key, so that ids are numbers and cursors too.
ASSUME IdsAssumption      == Ids \subseteq Nat \ {0}
ASSUME PageSizeAssumption == PageSize \in Nat \ {0}

VARIABLES
  client,   \* whether s.client and s.uploader are set
  bucket,   \* the object stored for each id
  call,     \* call[c]: the call c is in, between two of its requests
  kept,     \* (history) the ids that held an object c looks for since c's search
            \* began, and whose GetObject has not failed
  crossed,  \* (history) the callers whose object others created or deleted since the check
  last      \* the call that returned last

vars == <<client, bucket, call, kept, crossed, last>>

\* Object.Fields, and whether they repeat the object's ID under "id".
Objects == [f : Fields, named : BOOLEAN]

ASSUME WritesAssumption == Writes \subseteq Objects
ASSUME ObjectAssumption == NoRow \notin Objects

\* What FindByKey is given: "id" and an id, or another column and its value.
Key(id, f) == [id |-> id, f |-> f]
NoFields   == [x \in {} |-> Null]
ColumnKeys == UNION {[{x} -> Cells] : x \in Cols}
SearchKeys == {Key(None, f) : f \in ColumnKeys} \cup {Key(i, NoFields) : i \in Ids}

\* FindByKey returns the object o: it has the field, with that value.
Matches(o, i, key) ==
  /\ o # NoRow
  /\ key.id # None => o.named /\ key.id = i
  /\ \A x \in DOMAIN key.f : x \in DOMAIN o.f /\ o.f[x] = key.f[x]

\* Its caller asked for the object o of id i.
Wanted(o, i, key) ==
  /\ o # NoRow
  /\ key.id # None => key.id = i
  /\ \A x \in DOMAIN key.f : x \in DOMAIN o.f /\ o.f[x] = key.f[x]

-----------------------------------------------------------------------------
Searching(c) == call[c] # None /\ call[c].op = "Find"

\* The history variable in a step that leaves the bucket as table.
Watch(table) ==
  kept' = [c \in Callers |-> IF Searching(c)
                             THEN {i \in kept[c] : Wanted(table[i], i, call[c].key)}
                             ELSE {}]

Returns(c, op, id, f, out, got) ==
  /\ call' = [call EXCEPT ![c] = None]
  /\ last' = [by |-> c, call |-> op, id |-> id, f |-> f, out |-> out, got |-> got]

Fails(c, op) == Returns(c, op, None, NoFields, "error", NoRow)

\* A new call: the storage is connected, and c is not inside another call.
Ready(c) == client /\ call[c] = None

\* "not connected to S3".
Refuse(c, op) ==
  /\ ~client /\ call[c] = None
  /\ Fails(c, op)
  /\ UNCHANGED <<client, bucket, kept, crossed>>

-----------------------------------------------------------------------------
(* Insert (and Upsert, and the ...Tx variants of all calls, which ignore   *)
(* their transaction), Update and DeleteByID.                              *)

\* Mutant of Pending: Insert takes it that there was no object.
MutPending(op, id, o) == [op |-> op, id |-> id, obj |-> o, created |-> TRUE]

\* The call between its two requests keeps what the check said.
Pending(op, id, o) == [op |-> op, id |-> id, obj |-> o, created |-> bucket[id] = NoRow]

\* The first request: is there an object under id?
CheckExists(c, op, id, o) ==
  /\ Ready(c)
  /\ \/ /\ bucket[id] # NoRow \/ op = "Insert"
        /\ call' = [call EXCEPT ![c] = Pending(op, id, o)]
        /\ UNCHANGED last
     \/ /\ bucket[id] = NoRow /\ op # "Insert"
        /\ Returns(c, op, id, o.f, "false", NoRow)
     \/ "check" \in Faults /\ Fails(c, op)
  /\ UNCHANGED <<client, bucket, kept, crossed>>

Sending(c, op) == client /\ call[c] # None /\ call[c].op = op

\* The callers that have checked for the object of id, and not yet written it.
Checked(id) == {d \in Callers : call[d] # None /\ call[d].op # "Find" /\ call[d].id = id}

\* c's call is over, and nobody has crossed it any more.
Uncrossed(c) == crossed' = crossed \ {c}

\* The second request of c's call leaves stored under its id.
Stores(c, stored) ==
  LET id == call[c].id
  IN  /\ bucket' = [bucket EXCEPT ![id] = stored]
      /\ Watch(bucket')
      /\ IF (stored = NoRow) = (bucket[id] = NoRow) THEN Uncrossed(c)
         ELSE crossed' = (crossed \cup Checked(id)) \ {c}

\* A PutObject or DeleteObject that fails may have taken effect all the same.
RequestFails(c, op, stored) ==
  /\ "put" \in Faults
  /\ \/ Stores(c, stored)
     \/ UNCHANGED <<bucket, kept>> /\ Uncrossed(c)
  /\ Returns(c, op, call[c].id, call[c].obj.f, "error", NoRow)

\* Insert puts the whole object and reports the answer of the check: "true"
\* if there was no object then, "existed" otherwise.
PutInserted(c) ==
  LET p == call[c]
  IN  /\ Sending(c, "Insert")
      /\ \/ /\ Stores(c, p.obj)
            /\ Returns(c, "Insert", p.id, p.obj.f, IF p.created THEN "true" ELSE "existed", NoRow)
         \/ RequestFails(c, "Insert", p.obj)
      /\ UNCHANGED client

PutUpdated(c) ==
  LET p == call[c]
  IN  /\ Sending(c, "Update")
      /\ \/ Stores(c, p.obj) /\ Returns(c, "Update", p.id, p.obj.f, "true", NoRow)
         \/ RequestFails(c, "Update", p.obj)
      /\ UNCHANGED client

\* Mutant of DeleteObject: the object stays, as in a bucket with versions.
MutDeleteObject(c) ==
  /\ Sending(c, "Delete")
  /\ Returns(c, "Delete", call[c].id, NoFields, "true", NoRow)
  /\ Uncrossed(c)
  /\ UNCHANGED <<client, bucket, kept>>

\* DeleteObject succeeds whether or not the object is still there.
DeleteObject(c) ==
  LET p == call[c]
  IN  /\ Sending(c, "Delete")
      /\ \/ Stores(c, NoRow) /\ Returns(c, "Delete", p.id, NoFields, "true", NoRow)
         \/ RequestFails(c, "Delete", NoRow)
      /\ UNCHANGED client

-----------------------------------------------------------------------------
(* FindByID, and FindByKey, which ORM.FindByID calls too.                  *)
Result(c, id, key) ==
  Returns(c, "Find", id, key.f, "true", bucket[id])

\* Storage.FindByID: one GetObject.
FindByID(c, id) ==
  /\ Ready(c)
  /\ \/ bucket[id] # NoRow /\ Result(c, id, Key(id, NoFields))
     \/ bucket[id] = NoRow /\ Returns(c, "Find", id, NoFields, "false", NoRow)
     \/ "check" \in Faults /\ Fails(c, "Find")
  /\ UNCHANGED <<client, bucket, kept, crossed>>

\* FindByKey starts: no page has been fetched.
FindByKey(c, key) ==
  /\ Ready(c)
  /\ call' = [call EXCEPT ![c] = [op |-> "Find", key |-> key, page |-> {}, cursor |-> 0,
                                  more |-> TRUE]]
  /\ kept' = [kept EXCEPT ![c] = {i \in Ids : Wanted(bucket[i], i, key)}]
  /\ UNCHANGED <<client, bucket, crossed, last>>

Lowest(S, n) == {i \in S : Cardinality({j \in S : j <= i}) <= n}

\* Mutant of NextCursor: one key too far.
MutNextCursor(s, page) == IF page = {} THEN s.cursor ELSE Max(page) + 1

\* The continuation token is the last key of the page.
NextCursor(s, page) == IF page = {} THEN s.cursor ELSE Max(page)

\* The next page: the first keys after the last one listed.
NextPage(c) ==
  LET s    == call[c]
      rest == {i \in Ids : bucket[i] # NoRow /\ i > s.cursor}
      page == Lowest(rest, PageSize)
  IN  /\ Searching(c)
      /\ s.page = {} /\ s.more
      /\ \/ /\ call' = [call EXCEPT ![c].page = page, ![c].more = page # rest,
                                    ![c].cursor = NextCursor(s, page)]
            /\ UNCHANGED last
         \/ "list" \in Faults /\ Fails(c, "Find")
      /\ kept' = [kept EXCEPT ![c] = IF call'[c] = None THEN {} ELSE @]
      /\ UNCHANGED <<client, bucket, crossed>>

\* Mutant of Skipped: the object is asked for again.
MutRetried(s, i) == s.page

\* The search goes on with the other objects of the page.
Skipped(s, i) == s.page \ {i}

\* The objects of the page one by one: the first that matches is returned;
\* one that is gone or does not match is skipped, and so is one whose GetObject
\* fails.
GetListed(c) ==
  LET s == call[c]
      i == Min(s.page)
  IN  /\ Sending(c, "Find") /\ s.page # {}
      /\ \/ /\ Matches(bucket[i], i, s.key)
            /\ Result(c, i, s.key)
            /\ kept' = [kept EXCEPT ![c] = {}]
         \/ /\ call' = [call EXCEPT ![c].page = Skipped(s, i)]
            /\ \/ ~Matches(bucket[i], i, s.key) /\ UNCHANGED kept
               \/ "get" \in Faults /\ kept' = [kept EXCEPT ![c] = @ \ {i}]
            /\ UNCHANGED last
      /\ UNCHANGED <<client, bucket, crossed>>

\* Mutant of NotFound: only the first page is looked at.
MutNotFound(c) ==
  LET s == call[c]
  IN  /\ Searching(c)
      /\ s.page = {} /\ (s.cursor # 0 \/ ~s.more)
      /\ Returns(c, "Find", s.key.id, s.key.f, "false", NoRow)
      /\ kept' = [kept EXCEPT ![c] = {}]
      /\ UNCHANGED <<client, bucket, crossed>>

\* No more pages: (nil, nil).
NotFound(c) ==
  LET s == call[c]
  IN  /\ Searching(c)
      /\ s.page = {} /\ ~s.more
      /\ Returns(c, "Find", s.key.id, s.key.f, "false", NoRow)
      /\ kept' = [kept EXCEPT ![c] = {}]
      /\ UNCHANGED <<client, bucket, crossed>>
-----------------------------------------------------------------------------
(* Transactions, connection.                                               *)

\* BeginTx returns an empty sql.Tx: nothing refers to it.
BeginTx(c) ==
  /\ call[c] = None
  /\ c \in TxCallers
  /\ Returns(c, "Begin", None, NoFields, "true", NoRow)
  /\ UNCHANGED <<client, bucket, kept, crossed>>

\* CommitTx and RollbackTx do nothing, with or without a transaction.
EndTx(c, op) ==
  /\ call[c] = None
  /\ c \in TxCallers
  /\ Returns(c, op, None, NoFields, "true", NoRow)
  /\ UNCHANGED <<client, bucket, kept, crossed>>

\* Connect sets the client even if its HeadBucket then fails.
Connect ==
  /\ ~client /\ client' = TRUE
  /\ UNCHANGED <<bucket, call, kept, crossed, last>>

\* ResetConnection does not wait for the calls under way ...
ResetConnection ==
  /\ Resets /\ client' = FALSE
  /\ UNCHANGED <<bucket, call, kept, crossed, last>>

\* ... which dereference the nil client, or uploader, in their next request.
\* (Listing goes on: the paginator holds the client it was given.)
Panics(c) ==
  /\ ~client /\ call[c] # None
  /\ Searching(c) => call[c].page # {}
  /\ Returns(c, call[c].op, None, NoFields, "panic", NoRow)
  /\ kept' = [kept EXCEPT ![c] = {}]
  /\ Uncrossed(c)
  /\ UNCHANGED <<client, bucket>>

Init ==
  /\ client = TRUE
  /\ bucket = [i \in Ids |-> NoRow]
  /\ call = [c \in Callers |-> None]
  /\ kept = [c \in Callers |-> {}]
  /\ crossed = {}
  /\ last = None

\* What c does once it is in a call.
Continue(c) ==
  \/ PutInserted(c) \/ PutUpdated(c) \/ DeleteObject(c)
  \/ NextPage(c) \/ GetListed(c) \/ NotFound(c)
  \/ Panics(c)

Next ==
  \/ \E c \in Callers :
       \/ \E id \in Ids, o \in Writes, op \in {"Insert", "Update"} : CheckExists(c, op, id, o)
       \/ \E id \in Ids : CheckExists(c, "Delete", id, [f |-> NoFields, named |-> FALSE])
       \/ \E id \in Ids : FindByID(c, id)
       \/ \E key \in SearchKeys : FindByKey(c, key)
       \/ Continue(c)
       \/ BeginTx(c) \/ EndTx(c, "Commit") \/ EndTx(c, "Rollback")
       \/ \E op \in {"Insert", "Update", "Delete", "Find"} : Refuse(c, op)
  \/ Connect \/ ResetConnection

Spec == Init /\ [][Next]_vars

\* A goroutine inside a call goes on with it: every request gets an answer
\* or an error.
FairSpec == Spec /\ \A c \in Callers : WF_vars(Continue(c))
-----------------------------------------------------------------------------
(* Properties.                                                             *)
Writing   == [op : {"Insert", "Update", "Delete"}, id : Ids, obj : Objects, created : BOOLEAN]
Search    == [op : {"Find"}, key : SearchKeys, page : SUBSET Ids, cursor : Ids \cup {0},
              more : BOOLEAN]
Calls     == {"Insert", "Update", "Delete", "Find", "Begin", "Commit", "Rollback"}
Outcomes  == {"true", "existed", "false", "error", "panic"}
Events    == [by : Callers, call : Calls, id : Ids \cup {None}, f : Fields, out : Outcomes,
              got : Objects \cup {NoRow}]

ASSUME NoneAssumption == None \notin Events /\ None \notin Ids

\* The types of the variables.
TypeOK ==
  /\ client \in BOOLEAN
  /\ bucket \in [Ids -> Objects \cup {NoRow}]
  /\ call \in [Callers -> Writing \cup Search \cup {None}]
  /\ kept \in [Callers -> SUBSET Ids]
  /\ crossed \subseteq Callers
  /\ last \in Events \cup {None}

\* When FindByKey returns (nil, nil), no object with the sought value was in
\* the bucket all through the search, however the bucket changed between the
\* pages ("Not found" in s3.go), but one whose GetObject failed.
NotFoundIsTrue ==
  [][\A c \in Callers : NotFound(c) => kept[c] = {}]_vars

\* The search has not passed by an object that was there all the time, and that
\* it could get.
KeptIsAhead ==
  \A c \in Callers : Searching(c) =>
    \A i \in kept[c] : i \in call[c].page \/ (call[c].more /\ i > call[c].cursor)

\* Every call returns, also while others keep adding objects to the table.
EveryCallReturns == \A c \in Callers : call[c] # None ~> call[c] = None

\* Insert reports that it created the object exactly when there was none
\* (storagetest: "object was not created"), unless another call created or
\* deleted it between the check and the put.
CreatedIsTruthful ==
  [][\A c \in Callers \ crossed : PutInserted(c) /\ last'.out \in {"true", "existed"} =>
       (last'.out = "true" <=> bucket[last'.id] = NoRow)]_vars

\* An object as the row it stands for.
AsRow(o) == IF o = NoRow THEN NoRow ELSE Overlay(Blank, o.f)

\* The call that returned last as the contract has it: for want of any effect,
\* BeginTx, CommitTx and RollbackTx count as failed; so does a call that panics.
AsEvent(e) ==
  [by |-> e.by, call |-> IF e.call = "Insert" THEN "Upsert" ELSE e.call, inTx |-> FALSE,
   id |-> e.id, f |-> e.f,
   out |-> IF e.out = "panic" \/ e.call \in {"Begin", "Commit", "Rollback"} THEN "error"
           ELSE IF e.out = "existed" THEN "true" ELSE e.out,
   got |-> AsRow(e.got)]

Contract == INSTANCE StorageContract
  WITH rows <- [i \in Ids |-> AsRow(bucket[i])],
       ws   <- [c \in Callers |-> [i \in Ids |-> Untouched]],
       tx   <- [c \in Callers |-> "none"],
       last <- IF last = None THEN None ELSE AsEvent(last)

\* Seen without its transactions, the adapter would implement the contract.
ImplementsContract == Contract!Spec

(* Where it departs from the contract.                                     *)

\* A put replaces the whole object: the stored values that the call did not
\* give are lost, where the contract keeps them.
DropsFields(c) ==
  /\ PutInserted(c) \/ PutUpdated(c)
  /\ LET p == call[c]
     IN  /\ bucket[p.id] # NoRow /\ bucket'[p.id] = p.obj
         /\ \E x \in DOMAIN bucket[p.id].f \ DOMAIN p.obj.f : bucket[p.id].f[x] # Null

\* An update puts back the object that was deleted after its check.
PutsBack(c) ==
  /\ c \in crossed /\ PutUpdated(c) /\ bucket[call[c].id] = NoRow
  /\ bucket'[call[c].id] = call[c].obj

\* A delete is acknowledged though the object is gone since its check.
DeletesNothing(c) ==
  c \in crossed /\ DeleteObject(c) /\ bucket[call[c].id] = NoRow /\ last'.out = "true"

\* A search says "not found" of objects that came, or were changed, behind it,
\* or whose GetObject failed.
Overlooks(c) ==
  /\ NotFound(c) /\ kept[c] = {}
  /\ \E i \in Ids : Wanted(bucket[i], i, call[c].key)

Departs ==
  \E c \in Callers : DropsFields(c) \/ PutsBack(c) \/ DeletesNothing(c) \/ Overlooks(c)

\* These four are all: in everything else that callers do to each other,
\* with requests that fail and resets, each call is atomic (README: "consistent
\* CRUD operations across multiple database backends").
DepartsAsKnown ==
  [][Contract!Next \/ UNCHANGED Contract!vars \/ Departs]_vars

\* A caller that has the storage for itself, and whose GetObjects succeed, sees
\* the contract kept but for the fields that its own puts drop.
DropsOnlyFields ==
  /\ Contract!Init
  /\ [][Contract!Next \/ UNCHANGED Contract!vars \/ \E c \in Callers : DropsFields(c)]_vars
=============================================================================
