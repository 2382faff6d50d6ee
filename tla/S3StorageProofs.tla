--------------------------- MODULE S3StorageProofs ---------------------------
(***************************************************************************)
(* What the S3 adapter keeps for every set of callers, keys and objects    *)
(* and for every page size: its paged search, and the contract of          *)
(* storage.Storage, but for four departures, of which a single caller      *)
(* meets one.                                                              *)
(***************************************************************************)
EXTENDS S3Storage, FiniteSetTheorems, WellFoundedInduction, TLAPS

-----------------------------------------------------------------------------
(* Pages.                                                                  *)

\* A set of numbers that is not empty has a least one.
LEMMA LeastNat ==
  ASSUME NEW T \in SUBSET Nat, T # {}
  PROVE  \E x \in T : \A y \in T : x <= y
<1> DEFINE Less == OpToRel(<, Nat)
<1>1. PICK x \in T : \A y \in T : ~(<<y, x>> \in Less)
  BY NatLessThanWellFounded, WFMin
<1>2. \A y \in T : y < x => <<y, x>> \in Less
  BY DEF OpToRel
<1>3. \A y \in T : ~(y < x)
  BY <1>1, <1>2, Zenon
<1> QED
  BY <1>3

\* Min of the keys of a page is one of them.
LEMMA MinInSet ==
  ASSUME NEW T \in SUBSET Nat, T # {}
  PROVE  Min(T) \in T
<1>1. \E x \in T : \A y \in T : x =< y
  BY LeastNat
<1> QED
  BY <1>1 DEF Min

\* The place of a key among those that are left.
Rank(rest, i) == Cardinality({j \in rest : j <= i})

\* Places are numbers, in the order of the keys.
LEMMA RankOrder ==
  ASSUME NEW rest \in SUBSET Nat, NEW i \in rest, NEW j \in rest
  PROVE  /\ Rank(rest, i) \in Nat
         /\ i < j => Rank(rest, i) < Rank(rest, j)
<1> DEFINE Upto(k) == {x \in rest : x <= k}
<1>1. IsFiniteSet(Upto(i)) /\ IsFiniteSet(Upto(j))
  BY FS_BoundedSetOfNaturals
<1>2. Cardinality(Upto(i)) \in Nat /\ Cardinality(Upto(j)) \in Nat
  BY <1>1, FS_CardinalityType
<1>3. ASSUME i < j PROVE Cardinality(Upto(i)) < Cardinality(Upto(j))
  <2>1. \A x \in rest : x <= i => x <= j
    BY <1>3
  <2>2. Upto(i) \in SUBSET Upto(j)
    BY <2>1
  <2>3. j \in Upto(j) /\ j \notin Upto(i)
    BY <1>3
  <2>4. Cardinality(Upto(i)) <= Cardinality(Upto(j)) /\ Cardinality(Upto(i)) # Cardinality(Upto(j))
    BY <1>1, <2>2, <2>3, FS_Subset
  <2> QED
    BY <1>2, <2>4
<1> QED
  BY <1>2, <1>3 DEF Rank

\* A page that is not empty has a last key, also among infinitely many.
LEMMA PageHasMax ==
  ASSUME NEW rest \in SUBSET Nat, NEW n \in Nat, Lowest(rest, n) # {}
  PROVE  /\ Max(Lowest(rest, n)) \in Lowest(rest, n)
         /\ \A j \in Lowest(rest, n) : j <= Max(Lowest(rest, n))
<1> DEFINE page == Lowest(rest, n)
           free == {n - Rank(rest, i) : i \in page}
<1>1. page \subseteq rest /\ \A i \in page : Rank(rest, i) <= n
  BY DEF Lowest, Rank
<1>2. \A i \in page : Rank(rest, i) \in Nat
  BY <1>1, RankOrder
<1>3. free \in SUBSET Nat /\ free # {}
  BY <1>1, <1>2
<1>4. PICK x \in free : \A y \in free : x <= y
  BY <1>3, LeastNat
<1>5. PICK i \in page : x = n - Rank(rest, i)
  OBVIOUS
<1>6. ASSUME NEW j \in page PROVE j <= i
  <2>1. x <= n - Rank(rest, j)
    BY <1>4, <1>6
  <2>2. Rank(rest, j) <= Rank(rest, i)
    BY <1>2, <1>5, <1>6, <2>1
  <2>3. i \in rest /\ j \in rest
    BY <1>1, <1>6
  <2>4. i < j => Rank(rest, i) < Rank(rest, j)
    BY <2>3, RankOrder
  <2>5. Rank(rest, i) \in Nat /\ Rank(rest, j) \in Nat
    BY <1>2, <1>6
  <2>6. ~(i < j)
    BY <2>2, <2>4, <2>5
  <2> QED
    BY <2>3, <2>6
<1>7. \E k \in page : \A j \in page : k >= j
  BY <1>1, <1>6
<1> QED
  BY <1>1, <1>7 DEF Max

\* What a page leaves for the next one comes after all of it.
LEMMA PageComesFirst ==
  ASSUME NEW rest \in SUBSET Nat, NEW n \in Nat,
         NEW i \in rest \ Lowest(rest, n), NEW m \in Lowest(rest, n)
  PROVE  m < i
<1>1. m \in rest /\ Rank(rest, m) <= n /\ ~(Rank(rest, i) <= n)
  BY DEF Lowest, Rank
<1>2. CASE i = m
  BY <1>1, <1>2
<1>3. CASE i < m
  <2>1. Rank(rest, i) < Rank(rest, m) /\ Rank(rest, i) \in Nat /\ Rank(rest, m) \in Nat
    BY <1>1, <1>3, RankOrder
  <2> QED
    BY <1>1, <2>1
<1> QED
  BY <1>1, <1>2, <1>3

-----------------------------------------------------------------------------
(* Types.                                                                  *)

CallTypes == Writing \cup Search \cup {None}

\* The empty set of fields is one.
LEMMA NoFieldsType == NoFields \in Fields
  BY DEF NoFields, Fields

\* What a search is for are fields, and an id or none.
LEMMA KeyType ==
  ASSUME NEW key \in SearchKeys
  PROVE  key.f \in Fields /\ key.id \in Ids \cup {None}
<1>1. ASSUME NEW f \in ColumnKeys PROVE f \in Fields
  <2>1. PICK x \in Cols : f \in [{x} -> Cells]
    BY <1>1 DEF ColumnKeys
  <2>2. f \in [{x} -> Values] /\ {x} \in SUBSET Cols
    BY <2>1 DEF Values
  <2> QED
    BY <2>2 DEF Fields
<1> QED
  BY <1>1, NoFieldsType DEF SearchKeys, Key

\* A call that returns is an event, and its caller is idle again.
LEMMA ReturnsType ==
  ASSUME TypeOK, NEW c \in Callers, NEW op \in Calls, NEW id \in Ids \cup {None},
         NEW f \in Fields, NEW out \in Outcomes, NEW got \in Objects \cup {NoRow},
         Returns(c, op, id, f, out, got)
  PROVE  call' \in [Callers -> CallTypes] /\ last' \in Events
  BY DEF TypeOK, Returns, CallTypes, Events

\* So is one that fails.
LEMMA FailsType ==
  ASSUME TypeOK, NEW c \in Callers, NEW op \in Calls, Fails(c, op)
  PROVE  call' \in [Callers -> CallTypes] /\ last' \in Events
  BY NoFieldsType, ReturnsType DEF Fails, Outcomes

\* The second request of a call leaves objects in the bucket.
LEMMA StoresType ==
  ASSUME TypeOK, NEW c \in Callers, call[c].id \in Ids, NEW stored \in Objects \cup {NoRow},
         Stores(c, stored)
  PROVE  /\ bucket' \in [Ids -> Objects \cup {NoRow}] /\ kept' \in [Callers -> SUBSET Ids]
         /\ crossed' \subseteq Callers
<1>1. bucket' \in [Ids -> Objects \cup {NoRow}]
  BY DEF TypeOK, Stores
<1>2. \A d \in Callers : kept[d] \in SUBSET Ids
  BY DEF TypeOK
<1>3. crossed' \subseteq Callers
  BY DEF TypeOK, Stores, Uncrossed, Checked
<1> QED
  BY <1>1, <1>2, <1>3 DEF Stores, Watch

\* The arguments and the object of a call that is about to write.
LEMMA SendingType ==
  ASSUME TypeOK, NEW c \in Callers, NEW op \in {"Insert", "Update", "Delete"}, Sending(c, op)
  PROVE  call[c] \in Writing /\ call[c].id \in Ids /\ call[c].obj.f \in Fields
<1>1. call[c] \in Writing
  BY DEF TypeOK, Sending, Search
<1> QED
  BY <1>1 DEF Writing, Objects

\* What a search knows.
LEMMA SearchingType ==
  ASSUME TypeOK, NEW c \in Callers, Searching(c)
  PROVE  /\ call[c] \in Search
         /\ call[c].key.f \in Fields /\ call[c].key.id \in Ids \cup {None}
         /\ call[c].page \in SUBSET Nat /\ call[c].cursor \in Nat
<1>1. call[c] \in Search
  BY DEF TypeOK, Searching, Writing
<1>2. call[c].key \in SearchKeys /\ call[c].page \subseteq Ids /\ call[c].cursor \in Ids \cup {0}
  BY <1>1 DEF Search
<1>3. call[c].key.f \in Fields /\ call[c].key.id \in Ids \cup {None}
  BY <1>2, KeyType
<1>4. \A i \in Ids : i \in Nat
  BY IdsAssumption
<1>5. call[c].page \in SUBSET Nat
  BY <1>2, <1>4
<1>6. call[c].cursor \in Nat
  BY <1>2, <1>4
<1> QED
  BY <1>1, <1>3, <1>5, <1>6

\* A request that fails has the effect of one that does not, or none.
LEMMA RequestFailsType ==
  ASSUME TypeOK, NEW c \in Callers, NEW op \in {"Insert", "Update", "Delete"}, Sending(c, op),
         NEW stored \in Objects \cup {NoRow}, RequestFails(c, op, stored)
  PROVE  /\ bucket' \in [Ids -> Objects \cup {NoRow}] /\ kept' \in [Callers -> SUBSET Ids]
         /\ call' \in [Callers -> CallTypes] /\ last' \in Events /\ crossed' \subseteq Callers
<1>1. call[c].id \in Ids /\ call[c].obj.f \in Fields
  BY SendingType
<1>2. /\ bucket' \in [Ids -> Objects \cup {NoRow}] /\ kept' \in [Callers -> SUBSET Ids]
      /\ crossed' \subseteq Callers
  BY <1>1, StoresType DEF RequestFails, Uncrossed, TypeOK
<1>3. Returns(c, op, call[c].id, call[c].obj.f, "error", NoRow)
  BY DEF RequestFails
<1>4. op \in Calls /\ "error" \in Outcomes
  BY DEF Calls, Outcomes
<1> QED
  BY <1>1, <1>2, <1>3, <1>4, ReturnsType

\* The page that is listed next, and the cursor after it.
LEMMA NextCursorType ==
  ASSUME TypeOK, NEW c \in Callers, Searching(c),
         NEW page, page = Lowest({i \in Ids : bucket[i] # NoRow /\ i > call[c].cursor}, PageSize)
  PROVE  page \in SUBSET Ids /\ NextCursor(call[c], page) \in Ids \cup {0}
<1> DEFINE rest == {i \in Ids : bucket[i] # NoRow /\ i > call[c].cursor}
<1>1. rest \in SUBSET Nat /\ PageSize \in Nat
  BY IdsAssumption, PageSizeAssumption
<1>2. page \in SUBSET Ids
  BY DEF Lowest
<1>3. page # {} => Max(page) \in page
  BY <1>1, PageHasMax
<1>4. call[c].cursor \in Ids \cup {0}
  BY SearchingType DEF Search
<1> QED
  BY <1>2, <1>3, <1>4 DEF NextCursor

\* Each request of a call keeps the types.
LEMMA ContinueType ==
  ASSUME TypeOK, NEW c \in Callers, Continue(c)
  PROVE  TypeOK'
<1> USE DEF CallTypes
<1>1. CASE PutInserted(c)
  <2>1. Sending(c, "Insert")
    BY <1>1 DEF PutInserted
  <2>2. call[c] \in Writing /\ call[c].id \in Ids /\ call[c].obj.f \in Fields
    BY <2>1, SendingType
  <2>3. call[c].obj \in Objects
    BY <2>2 DEF Writing
  <2>4. CASE RequestFails(c, "Insert", call[c].obj)
    BY <1>1, <2>1, <2>3, <2>4, RequestFailsType DEF PutInserted, TypeOK
  <2>5. CASE /\ Stores(c, call[c].obj)
             /\ Returns(c, "Insert", call[c].id, call[c].obj.f,
                        IF call[c].created THEN "true" ELSE "existed", NoRow)
    <3>1. /\ bucket' \in [Ids -> Objects \cup {NoRow}] /\ kept' \in [Callers -> SUBSET Ids]
          /\ crossed' \subseteq Callers
      BY <2>2, <2>3, <2>5, StoresType
    <3>2. "Insert" \in Calls /\ {"true", "existed"} \subseteq Outcomes
      BY DEF Calls, Outcomes
    <3>3. call' \in [Callers -> CallTypes] /\ last' \in Events
      BY <2>2, <2>5, <3>2, ReturnsType
    <3> QED
      BY <1>1, <3>1, <3>3 DEF PutInserted, TypeOK
  <2> QED
    BY <1>1, <2>4, <2>5 DEF PutInserted
<1>2. CASE PutUpdated(c)
  <2>1. Sending(c, "Update")
    BY <1>2 DEF PutUpdated
  <2>2. call[c] \in Writing /\ call[c].id \in Ids /\ call[c].obj.f \in Fields
    BY <2>1, SendingType
  <2>3. call[c].obj \in Objects
    BY <2>2 DEF Writing
  <2>4. CASE RequestFails(c, "Update", call[c].obj)
    BY <1>2, <2>1, <2>3, <2>4, RequestFailsType DEF PutUpdated, TypeOK
  <2>5. CASE Stores(c, call[c].obj) /\ Returns(c, "Update", call[c].id, call[c].obj.f, "true", NoRow)
    <3>1. /\ bucket' \in [Ids -> Objects \cup {NoRow}] /\ kept' \in [Callers -> SUBSET Ids]
          /\ crossed' \subseteq Callers
      BY <2>2, <2>3, <2>5, StoresType
    <3>2. "Update" \in Calls /\ "true" \in Outcomes
      BY DEF Calls, Outcomes
    <3>3. call' \in [Callers -> CallTypes] /\ last' \in Events
      BY <2>2, <2>5, <3>2, ReturnsType
    <3> QED
      BY <1>2, <3>1, <3>3 DEF PutUpdated, TypeOK
  <2> QED
    BY <1>2, <2>4, <2>5 DEF PutUpdated
<1>3. CASE DeleteObject(c)
  <2>1. Sending(c, "Delete")
    BY <1>3 DEF DeleteObject
  <2>2. call[c].id \in Ids
    BY <2>1, SendingType
  <2>4. CASE RequestFails(c, "Delete", NoRow)
    BY <1>3, <2>1, <2>4, RequestFailsType DEF DeleteObject, TypeOK
  <2>5. CASE Stores(c, NoRow) /\ Returns(c, "Delete", call[c].id, NoFields, "true", NoRow)
    <3>1. /\ bucket' \in [Ids -> Objects \cup {NoRow}] /\ kept' \in [Callers -> SUBSET Ids]
          /\ crossed' \subseteq Callers
      BY <2>2, <2>5, StoresType
    <3>2. "Delete" \in Calls /\ "true" \in Outcomes
      BY DEF Calls, Outcomes
    <3>3. call' \in [Callers -> CallTypes] /\ last' \in Events
      BY <2>2, <2>5, <3>2, NoFieldsType, ReturnsType
    <3> QED
      BY <1>3, <3>1, <3>3 DEF DeleteObject, TypeOK
  <2> QED
    BY <1>3, <2>4, <2>5 DEF DeleteObject
<1>4. CASE NextPage(c)
  <2> DEFINE rest == {i \in Ids : bucket[i] # NoRow /\ i > call[c].cursor}
             page == Lowest(rest, PageSize)
  <2>1. Searching(c)
    BY <1>4 DEF NextPage
  <2>2. call[c] \in Search /\ page \in SUBSET Ids /\ NextCursor(call[c], page) \in Ids \cup {0}
    BY <2>1, SearchingType, NextCursorType
  <2> HIDE DEF page
  <2>3. CASE /\ call' = [call EXCEPT ![c].page = page, ![c].more = page # rest,
                                     ![c].cursor = NextCursor(call[c], page)]
             /\ UNCHANGED last
    <3>1. [call[c] EXCEPT !.page = page, !.more = page # rest,
                          !.cursor = NextCursor(call[c], page)] \in Search
      BY <2>2 DEF Search
    <3> QED
      BY <1>4, <2>3, <3>1 DEF NextPage, TypeOK
  <2>4. CASE Fails(c, "Find")
    BY <1>4, <2>4, FailsType DEF NextPage, TypeOK, Calls
  <2> QED
    BY <1>4, <2>3, <2>4 DEF NextPage, page
<1>5. CASE GetListed(c)
  <2> DEFINE i == Min(call[c].page)
  <2>1. Searching(c) /\ call[c].page # {}
    BY <1>5 DEF GetListed, Sending, Searching
  <2>2. /\ call[c] \in Search /\ call[c].key.f \in Fields
        /\ call[c].page \in SUBSET Ids /\ call[c].page \in SUBSET Nat
    BY <2>1, SearchingType DEF Search
  <2>3. i \in Ids
    BY <2>1, <2>2, MinInSet
  <2> HIDE DEF i
  <2>4. CASE Result(c, i, call[c].key) /\ kept' = [kept EXCEPT ![c] = {}]
    <3>1. bucket[i] \in Objects \cup {NoRow}
      BY <2>3 DEF TypeOK
    <3>2. "Find" \in Calls /\ "true" \in Outcomes
      BY DEF Calls, Outcomes
    <3>3. call' \in [Callers -> CallTypes] /\ last' \in Events
      BY <2>2, <2>3, <2>4, <3>1, <3>2, ReturnsType DEF Result
    <3> QED
      BY <1>5, <2>4, <3>3 DEF GetListed, TypeOK
  <2>5. CASE /\ call' = [call EXCEPT ![c].page = Skipped(call[c], i)]
             /\ UNCHANGED kept \/ kept' = [kept EXCEPT ![c] = @ \ {i}]
             /\ UNCHANGED last
    <3>1. [call[c] EXCEPT !.page = Skipped(call[c], i)] \in Search
      BY <2>2 DEF Search, Skipped
    <3>2. kept' \in [Callers -> SUBSET Ids]
      BY <2>5 DEF TypeOK
    <3> QED
      BY <1>5, <2>5, <3>1, <3>2 DEF GetListed, TypeOK
  <2> QED
    BY <1>5, <2>4, <2>5 DEF GetListed, i
<1>6. CASE NotFound(c)
  <2>1. call[c].key.f \in Fields /\ call[c].key.id \in Ids \cup {None}
    BY <1>6, SearchingType DEF NotFound
  <2>2. call' \in [Callers -> CallTypes] /\ last' \in Events
    BY <1>6, <2>1, ReturnsType DEF NotFound, Calls, Outcomes
  <2> QED
    BY <1>6, <2>2 DEF NotFound, TypeOK
<1>7. CASE Panics(c)
  <2>1. call[c].op \in Calls
    BY <1>7 DEF Panics, TypeOK, Writing, Search, Calls
  <2>2. call' \in [Callers -> CallTypes] /\ last' \in Events
    BY <1>7, <2>1, NoFieldsType, ReturnsType DEF Panics, Outcomes
  <2> QED
    BY <1>7, <2>2 DEF Panics, Uncrossed, TypeOK
<1> QED
  BY <1>1, <1>2, <1>3, <1>4, <1>5, <1>6, <1>7 DEF Continue

\* The check of Insert, Update and DeleteByID keeps the types.
LEMMA CheckType ==
  ASSUME TypeOK, NEW c \in Callers, NEW op \in {"Insert", "Update", "Delete"}, NEW id \in Ids,
         NEW o \in Objects, CheckExists(c, op, id, o)
  PROVE  TypeOK'
<1>1. op \in Calls /\ "false" \in Outcomes /\ o.f \in Fields
  BY DEF Calls, Outcomes, Objects
<1>2. CASE call' = [call EXCEPT ![c] = Pending(op, id, o)] /\ UNCHANGED last
  <2>1. Pending(op, id, o) \in Writing
    BY DEF Pending, Writing
  <2> QED
    BY <1>2, <2>1 DEF CheckExists, TypeOK
<1>3. CASE Returns(c, op, id, o.f, "false", NoRow)
  BY <1>1, <1>3, ReturnsType DEF CheckExists, TypeOK, CallTypes
<1>4. CASE Fails(c, op)
  BY <1>1, <1>4, FailsType DEF CheckExists, TypeOK, CallTypes
<1> QED
  BY <1>2, <1>3, <1>4 DEF CheckExists

\* So does FindByID ...
LEMMA FindByIDType ==
  ASSUME TypeOK, NEW c \in Callers, NEW id \in Ids, FindByID(c, id)
  PROVE  TypeOK'
<1>1. "Find" \in Calls /\ {"true", "false"} \subseteq Outcomes /\ bucket[id] \in Objects \cup {NoRow}
  BY DEF Calls, Outcomes, TypeOK
<1>2. Key(id, NoFields).f \in Fields
  BY NoFieldsType DEF Key
<1>3. call' \in [Callers -> CallTypes] /\ last' \in Events
  BY <1>1, <1>2, NoFieldsType, ReturnsType, FailsType DEF FindByID, Result
<1> QED
  BY <1>3 DEF FindByID, TypeOK, CallTypes

\* ... and the start of a search.
LEMMA FindByKeyType ==
  ASSUME TypeOK, NEW c \in Callers, NEW key \in SearchKeys, FindByKey(c, key)
  PROVE  TypeOK'
<1> DEFINE search == [op |-> "Find", key |-> key, page |-> {}, cursor |-> 0, more |-> TRUE]
           sought == {i \in Ids : Wanted(bucket[i], i, key)}
<1>1. search \in Search
  BY DEF Search
<1>2. call' \in [Callers -> Search \cup Writing \cup {None}]
  BY <1>1 DEF FindByKey, TypeOK
<1>3. kept' \in [Callers -> SUBSET Ids]
  <2>1. kept' = [kept EXCEPT ![c] = sought] /\ sought \in SUBSET Ids
    BY DEF FindByKey
  <2> HIDE DEF sought
  <2> QED
    BY <2>1 DEF TypeOK
<1> QED
  BY <1>2, <1>3 DEF FindByKey, TypeOK

\* And every other step.
LEMMA TypeStep ==
  ASSUME TypeOK, Next
  PROVE  TypeOK'
<1>1. ASSUME NEW c \in Callers, NEW id \in Ids, NEW o \in Writes, NEW op \in {"Insert", "Update"},
             CheckExists(c, op, id, o)
      PROVE  TypeOK'
  BY <1>1, CheckType, WritesAssumption
<1>2. ASSUME NEW c \in Callers, NEW id \in Ids,
             CheckExists(c, "Delete", id, [f |-> NoFields, named |-> FALSE])
      PROVE  TypeOK'
  <2>1. [f |-> NoFields, named |-> FALSE] \in Objects
    BY NoFieldsType DEF Objects
  <2> QED
    BY <1>2, <2>1, CheckType
<1>3. ASSUME NEW c \in Callers, NEW id \in Ids, FindByID(c, id) PROVE TypeOK'
  BY <1>3, FindByIDType
<1>4. ASSUME NEW c \in Callers, NEW key \in SearchKeys, FindByKey(c, key) PROVE TypeOK'
  BY <1>4, FindByKeyType
<1>5. ASSUME NEW c \in Callers, Continue(c) PROVE TypeOK'
  BY <1>5, ContinueType
<1>6. ASSUME NEW c \in Callers, BeginTx(c) \/ EndTx(c, "Commit") \/ EndTx(c, "Rollback")
      PROVE  TypeOK'
  <2>1. call' \in [Callers -> CallTypes] /\ last' \in Events
    BY <1>6, NoFieldsType, ReturnsType DEF BeginTx, EndTx, Calls, Outcomes
  <2> QED
    BY <1>6, <2>1 DEF BeginTx, EndTx, TypeOK, CallTypes
<1>7. ASSUME NEW c \in Callers, NEW op \in {"Insert", "Update", "Delete", "Find"}, Refuse(c, op)
      PROVE  TypeOK'
  <2>1. call' \in [Callers -> CallTypes] /\ last' \in Events
    BY <1>7, FailsType DEF Refuse, Calls
  <2> QED
    BY <1>7, <2>1 DEF Refuse, TypeOK, CallTypes
<1>8. CASE Connect \/ ResetConnection
  BY <1>8 DEF Connect, ResetConnection, TypeOK
<1> QED
  BY <1>1, <1>2, <1>3, <1>4, <1>5, <1>6, <1>7, <1>8 DEF Next

\* Every variable keeps its type, whatever requests fail and whenever the
\* connection is reset.
THEOREM TypeCorrect == Spec => []TypeOK
<1>1. Init => TypeOK
  BY DEF Init, TypeOK
<1>2. TypeOK /\ [Next]_vars => TypeOK'
  <2>1. CASE UNCHANGED vars
    BY <2>1 DEF vars, TypeOK
  <2> QED
    BY <2>1, TypeStep
<1> QED
  BY <1>1, <1>2, PTL DEF Spec

-----------------------------------------------------------------------------
(* The search over pages.                                                  *)

\* What the adapter's search relies on: objects repeat their ID in their fields.
Searchable == \A o \in Writes : o.named

\* All objects are named, what a search has kept is still wanted, and the
\* search has not passed it by.
SearchInv ==
  /\ \A i \in Ids : bucket[i] # NoRow => bucket[i].named
  /\ \A c \in Callers : call[c] # None /\ call[c].op \in {"Insert", "Update"} => call[c].obj.named
  /\ \A c \in Callers : Searching(c) => \A i \in kept[c] : Wanted(bucket[i], i, call[c].key)
  /\ KeptIsAhead

\* What SearchInv asks of c in the state that follows.
CallerKeeps(c) ==
  /\ (call[c] # None /\ call[c].op \in {"Insert", "Update"} => call[c].obj.named)'
  /\ (Searching(c) =>
        \A i \in kept[c] : /\ Wanted(bucket[i], i, call[c].key)
                           /\ i \in call[c].page \/ (call[c].more /\ i > call[c].cursor))'

\* A step of c that leaves the bucket alone concerns only c.
LEMMA QuietStep ==
  ASSUME SearchInv, NEW c \in Callers, bucket' = bucket,
         \A d \in Callers \ {c} : call'[d] = call[d] /\ kept'[d] = kept[d],
         CallerKeeps(c)
  PROVE  SearchInv'
<1>1. \A d \in Callers \ {c} : CallerKeeps(d)
  BY DEF SearchInv, KeptIsAhead, CallerKeeps, Searching
<1>2. \A d \in Callers : CallerKeeps(d)
  BY <1>1
<1>3. \A i \in Ids : bucket'[i] # NoRow => bucket'[i].named
  BY DEF SearchInv
<1> QED
  BY <1>2, <1>3 DEF SearchInv, KeptIsAhead, CallerKeeps

\* A call that returns has nothing left to keep.
LEMMA ReturnKeeps ==
  ASSUME TypeOK, NEW c \in Callers, call' = [call EXCEPT ![c] = None]
  PROVE  CallerKeeps(c) /\ \A d \in Callers \ {c} : call'[d] = call[d]
<1>1. call'[c] = None /\ \A d \in Callers \ {c} : call'[d] = call[d]
  BY DEF TypeOK
<1> QED
  BY <1>1 DEF CallerKeeps, Searching

\* A call that returns without having written.
LEMMA QuietReturn ==
  ASSUME TypeOK, SearchInv, NEW c \in Callers, bucket' = bucket,
         kept' = kept \/ kept' = [kept EXCEPT ![c] = {}], call' = [call EXCEPT ![c] = None]
  PROVE  SearchInv'
<1>1. CallerKeeps(c) /\ \A d \in Callers \ {c} : call'[d] = call[d]
  BY ReturnKeeps
<1>2. \A d \in Callers \ {c} : kept'[d] = kept[d]
  BY DEF TypeOK
<1> QED
  BY <1>1, <1>2, QuietStep

\* A call that writes takes what it overwrites from the others' searches.
LEMMA StoresKeeps ==
  ASSUME TypeOK, SearchInv, NEW c \in Callers, call[c].id \in Ids, NEW stored,
         stored # NoRow => stored.named, Stores(c, stored), call' = [call EXCEPT ![c] = None]
  PROVE  SearchInv'
<1>1. \A i \in Ids : bucket'[i] = IF i = call[c].id THEN stored ELSE bucket[i]
  BY DEF Stores, TypeOK
<1>2. \A i \in Ids : bucket'[i] # NoRow => bucket'[i].named
  BY <1>1 DEF SearchInv
<1>3. CallerKeeps(c) /\ \A d \in Callers \ {c} : call'[d] = call[d]
  BY ReturnKeeps
<1>4. ASSUME NEW d \in Callers \ {c} PROVE CallerKeeps(d)
  <2>1. call'[d] = call[d]
    BY <1>3
  <2>2. Searching(d) => kept'[d] = {i \in kept[d] : Wanted(bucket'[i], i, call[d].key)}
    BY DEF Stores, Watch
  <2>3. Searching(d) => \A i \in kept[d] : i \in call[d].page \/ (call[d].more /\ i > call[d].cursor)
    BY DEF SearchInv, KeptIsAhead
  <2>4. Searching(d)' <=> Searching(d)
    BY <2>1 DEF Searching
  <2>5. (call[d] # None /\ call[d].op \in {"Insert", "Update"} => call[d].obj.named)'
    BY <2>1 DEF SearchInv
  <2> QED
    BY <2>1, <2>2, <2>3, <2>4, <2>5 DEF CallerKeeps
<1>5. \A d \in Callers : CallerKeeps(d)
  BY <1>3, <1>4
<1> QED
  BY <1>2, <1>5 DEF SearchInv, KeptIsAhead, CallerKeeps

\* The second request of a call, which may fail.
LEMMA SendingKeeps ==
  ASSUME TypeOK, SearchInv, NEW c \in Callers, NEW op \in {"Insert", "Update", "Delete"},
         Sending(c, op), NEW stored, stored # NoRow => stored.named,
         NEW f, NEW out,
         \/ Stores(c, stored) /\ Returns(c, op, call[c].id, f, out, NoRow)
         \/ RequestFails(c, op, stored)
  PROVE  SearchInv'
<1>1. call[c].id \in Ids
  BY SendingType
<1>2. call' = [call EXCEPT ![c] = None]
  BY DEF Returns, RequestFails
<1>3. CASE Stores(c, stored)
  BY <1>1, <1>2, <1>3, StoresKeeps
<1>4. CASE UNCHANGED <<bucket, kept>>
  BY <1>2, <1>4, QuietReturn
<1> QED
  BY <1>3, <1>4 DEF RequestFails

\* The next page has the keys that were ahead, or leaves them ahead.
LEMMA NextPageKeeps ==
  ASSUME TypeOK, SearchInv, NEW c \in Callers, NextPage(c)
  PROVE  SearchInv'
<1> DEFINE rest == {i \in Ids : bucket[i] # NoRow /\ i > call[c].cursor}
           page == Lowest(rest, PageSize)
<1>1. Searching(c) /\ call[c].page = {}
  BY DEF NextPage
<1>2. call[c] \in Search /\ call[c].cursor \in Nat
  BY <1>1, SearchingType
<1>3. rest \in SUBSET Nat /\ PageSize \in Nat
  BY IdsAssumption, PageSizeAssumption
<1>4. CASE call' = [call EXCEPT ![c].page = page, ![c].more = page # rest,
                                ![c].cursor = NextCursor(call[c], page)]
  <2>1. ASSUME NEW i \in kept[c]
        PROVE  i \in page \/ (page # rest /\ i > NextCursor(call[c], page))
    <3>1. i \in Ids /\ Wanted(bucket[i], i, call[c].key) /\ i > call[c].cursor
      BY <1>1, <2>1 DEF TypeOK, SearchInv, KeptIsAhead
    <3>2. i \in rest
      BY <3>1 DEF Wanted
    <3>3. CASE page = {}
      BY <3>1, <3>2, <3>3 DEF NextCursor
    <3>4. CASE page # {} /\ i \notin page
      <4>1. Max(page) \in page
        BY <1>3, <3>4, PageHasMax
      <4>2. Max(page) < i
        BY <1>3, <3>2, <3>4, <4>1, PageComesFirst
      <4>3. Max(page) \in Nat /\ i \in Nat
        BY <1>3, <3>2, <4>1 DEF Lowest
      <4> QED
        BY <3>2, <3>4, <4>2, <4>3 DEF NextCursor
    <3> QED
      BY <3>3, <3>4
  <2> HIDE DEF page, rest
  <2>2. /\ call'[c] = [call[c] EXCEPT !.page = page, !.more = page # rest,
                                      !.cursor = NextCursor(call[c], page)]
        /\ \A d \in Callers \ {c} : call'[d] = call[d]
    BY <1>4 DEF TypeOK
  <2>3. /\ call'[c].op = "Find" /\ call'[c].key = call[c].key /\ call'[c].page = page
        /\ call'[c].more = (page # rest) /\ call'[c].cursor = NextCursor(call[c], page)
    BY <1>2, <2>2 DEF Search
  <2>4. kept'[c] \subseteq kept[c] /\ \A d \in Callers \ {c} : kept'[d] = kept[d]
    BY DEF NextPage, TypeOK
  <2>5. bucket' = bucket
    BY DEF NextPage
  <2>6. CallerKeeps(c)
    BY <1>1, <2>1, <2>3, <2>4, <2>5 DEF CallerKeeps, SearchInv
  <2> QED
    BY <2>2, <2>4, <2>5, <2>6, QuietStep
<1>5. CASE Fails(c, "Find")
  <2>1. call' = [call EXCEPT ![c] = None] /\ call'[c] = None
    BY <1>5 DEF Fails, Returns, TypeOK
  <2>2. kept' = [kept EXCEPT ![c] = {}] /\ bucket' = bucket
    BY <2>1 DEF NextPage
  <2> QED
    BY <2>1, <2>2, QuietReturn
<1> QED
  BY <1>4, <1>5 DEF NextPage

\* An object that is skipped was not wanted any more, or is not kept.
LEMMA GetListedKeeps ==
  ASSUME TypeOK, SearchInv, NEW c \in Callers, GetListed(c)
  PROVE  SearchInv'
<1> DEFINE i == Min(call[c].page)
<1>1. Searching(c)
  BY DEF GetListed, Sending, Searching
<1>2. call[c] \in Search
  BY <1>1, SearchingType
<1> HIDE DEF i
<1>3. CASE Result(c, i, call[c].key) /\ kept' = [kept EXCEPT ![c] = {}]
  BY <1>3, QuietReturn DEF GetListed, Result, Returns
<1>4. CASE /\ call' = [call EXCEPT ![c].page = Skipped(call[c], i)]
           /\ \/ ~Matches(bucket[i], i, call[c].key) /\ UNCHANGED kept
              \/ kept' = [kept EXCEPT ![c] = @ \ {i}]
  <2>1. /\ call'[c] = [call[c] EXCEPT !.page = Skipped(call[c], i)]
        /\ \A d \in Callers \ {c} : call'[d] = call[d]
    BY <1>4 DEF TypeOK
  <2>2. /\ call'[c].op = "Find" /\ call'[c].key = call[c].key
        /\ call'[c].page = call[c].page \ {i}
        /\ call'[c].more = call[c].more /\ call'[c].cursor = call[c].cursor
    BY <1>2, <2>1 DEF Search, Skipped
  <2>3. kept'[c] \subseteq kept[c] /\ \A d \in Callers \ {c} : kept'[d] = kept[d]
    BY <1>4 DEF TypeOK
  <2>4. ASSUME NEW j \in kept'[c] PROVE j # i
    <3>1. CASE kept' = [kept EXCEPT ![c] = @ \ {i}]
      BY <2>4, <3>1 DEF TypeOK
    <3>2. CASE ~Matches(bucket[i], i, call[c].key)
      <4>1. j \in Ids /\ Wanted(bucket[j], j, call[c].key)
        BY <1>1, <2>3, <2>4 DEF TypeOK, SearchInv
      <4>2. Matches(bucket[j], j, call[c].key)
        BY <4>1 DEF Wanted, Matches, SearchInv
      <4> QED
        BY <3>2, <4>2
    <3> QED
      BY <1>4, <3>1, <3>2
  <2>5. bucket' = bucket
    BY DEF GetListed
  <2>6. CallerKeeps(c)
    BY <1>1, <2>2, <2>3, <2>4, <2>5 DEF CallerKeeps, SearchInv, KeptIsAhead
  <2> QED
    BY <2>1, <2>3, <2>5, <2>6, QuietStep
<1> QED
  BY <1>3, <1>4 DEF GetListed, i

\* Every step keeps the search right.
LEMMA SearchStep ==
  ASSUME TypeOK, SearchInv, Searchable, Next
  PROVE  SearchInv'
<1>1. ASSUME NEW c \in Callers, NEW id \in Ids, NEW o,
             NEW op \in {"Insert", "Update", "Delete"}, op # "Delete" => o.named,
             CheckExists(c, op, id, o)
      PROVE  SearchInv'
  <2>1. CASE call' = [call EXCEPT ![c] = Pending(op, id, o)]
    <3>1. call'[c] = Pending(op, id, o) /\ \A d \in Callers \ {c} : call'[d] = call[d]
      BY <2>1 DEF TypeOK
    <3>2. CallerKeeps(c)
      BY <1>1, <3>1 DEF CallerKeeps, Searching, Pending
    <3> QED
      BY <1>1, <3>1, <3>2, QuietStep DEF CheckExists
  <2>2. CASE call' = [call EXCEPT ![c] = None]
    BY <1>1, <2>2, QuietReturn DEF CheckExists
  <2> QED
    BY <1>1, <2>1, <2>2 DEF CheckExists, Fails, Returns
<1>2. ASSUME NEW c \in Callers, NEW key \in SearchKeys, FindByKey(c, key) PROVE SearchInv'
  <2> DEFINE search == [op |-> "Find", key |-> key, page |-> {}, cursor |-> 0, more |-> TRUE]
             sought == {i \in Ids : Wanted(bucket[i], i, key)}
  <2>1. call'[c] = search /\ \A d \in Callers \ {c} : call'[d] = call[d]
    BY <1>2 DEF FindByKey, TypeOK
  <2>2. kept' = [kept EXCEPT ![c] = sought]
    BY <1>2 DEF FindByKey
  <2>3. kept'[c] = sought /\ \A d \in Callers \ {c} : kept'[d] = kept[d]
    BY <2>2 DEF TypeOK
  <2>4. \A i \in Ids : i > 0
    BY IdsAssumption
  <2>5. bucket' = bucket
    BY <1>2 DEF FindByKey
  <2>6. CallerKeeps(c)
    BY <2>1, <2>3, <2>4, <2>5 DEF CallerKeeps
  <2> QED
    BY <2>1, <2>3, <2>5, <2>6, QuietStep
<1>3. ASSUME NEW c \in Callers, PutInserted(c) PROVE SearchInv'
  <2>1. Sending(c, "Insert") /\ call[c].obj.named
    BY <1>3 DEF PutInserted, Sending, SearchInv
  <2> QED
    BY <1>3, <2>1, SendingKeeps DEF PutInserted
<1>4. ASSUME NEW c \in Callers, PutUpdated(c) PROVE SearchInv'
  <2>1. Sending(c, "Update") /\ call[c].obj.named
    BY <1>4 DEF PutUpdated, Sending, SearchInv
  <2> QED
    BY <1>4, <2>1, SendingKeeps DEF PutUpdated
<1>5. ASSUME NEW c \in Callers, DeleteObject(c) PROVE SearchInv'
  BY <1>5, SendingKeeps DEF DeleteObject
<1>6. ASSUME NEW c \in Callers, NextPage(c) \/ GetListed(c) PROVE SearchInv'
  BY <1>6, NextPageKeeps, GetListedKeeps
<1>7. ASSUME NEW c \in Callers, NotFound(c) \/ Panics(c) PROVE SearchInv'
  BY <1>7, QuietReturn DEF NotFound, Panics, Returns
<1>8. ASSUME NEW c \in Callers, NEW id, FindByID(c, id) PROVE SearchInv'
  BY <1>8, QuietReturn DEF FindByID, Result, Fails, Returns
<1>9. ASSUME NEW c \in Callers, NEW op,
             BeginTx(c) \/ EndTx(c, op) \/ Refuse(c, op)
      PROVE  SearchInv'
  BY <1>9, QuietReturn DEF BeginTx, EndTx, Refuse, Fails, Returns
<1>10. CASE Connect \/ ResetConnection
  BY <1>10 DEF Connect, ResetConnection, SearchInv, KeptIsAhead, Searching
<1> QED
  BY <1>1, <1>2, <1>3, <1>4, <1>5, <1>6, <1>7, <1>8, <1>9, <1>10 DEF Next, Continue, Searchable

\* The inductive invariant of the search.
LEMMA SearchInvariant ==
  ASSUME Searchable
  PROVE  Spec => [](TypeOK /\ SearchInv)
<1>1. Init => TypeOK /\ SearchInv
  BY DEF Init, TypeOK, SearchInv, KeptIsAhead, Searching
<1>2. TypeOK /\ SearchInv /\ [Next]_vars => (TypeOK /\ SearchInv)'
  <2>1. ASSUME TypeOK, SearchInv, UNCHANGED vars PROVE (TypeOK /\ SearchInv)'
    BY <2>1 DEF vars, TypeOK, SearchInv, KeptIsAhead, Searching
  <2> QED
    BY <2>1, TypeStep, SearchStep
<1> QED
  BY <1>1, <1>2, PTL DEF Spec

\* A paged search never passes by an object that was there all the time, with
\* any number of callers inserting and deleting between its pages, for objects
\* that repeat their ID, unless the GetObject of that object fails.
THEOREM SearchIsAhead ==
  ASSUME Searchable
  PROVE  Spec => []KeptIsAhead
<1>1. TypeOK /\ SearchInv => KeptIsAhead
  BY DEF SearchInv
<1> QED
  BY <1>1, SearchInvariant, PTL

\* What FindByKey does not find was not there all through its search: the
\* (nil, nil) after the last page is true.
THEOREM NotFoundTruthful ==
  ASSUME Searchable
  PROVE  Spec => NotFoundIsTrue
<1>1. TypeOK /\ SearchInv /\ [Next]_vars => [\A c \in Callers : NotFound(c) => kept[c] = {}]_vars
  <2> SUFFICES ASSUME TypeOK, SearchInv, NEW c \in Callers, NotFound(c)
               PROVE  kept[c] = {}
    BY Zenon
  <2>1. \A i \in kept[c] : FALSE
    BY DEF NotFound, SearchInv, KeptIsAhead
  <2> QED
    BY <2>1
<1> QED
  BY <1>1, SearchInvariant, PTL DEF Spec, NotFoundIsTrue

-----------------------------------------------------------------------------
(* Searches come to an end.                                                *)

\* The keys that the search s may still look at.
Ahead(s) == s.page \cup {i \in Ids : s.more /\ i > s.cursor}

\* The keys of a page come before those of the next one.
PageIsBehind ==
  \A c \in Callers : Searching(c) => \A i \in call[c].page : i <= call[c].cursor

\* A page is not empty while there are keys left for it.
LEMMA PageStarts ==
  ASSUME NEW rest \in SUBSET Nat, rest # {}, NEW n \in Nat \ {0}
  PROVE  Lowest(rest, n) # {}
<1>1. PICK m \in rest : \A j \in rest : m <= j
  BY LeastNat
<1>2. {j \in rest : j <= m} = {m}
  <2>1. \A j \in rest : j \in Nat /\ m \in Nat
    OBVIOUS
  <2>2. \A j \in rest : j <= m <=> j = m
    BY <1>1, <2>1
  <2> QED
    BY <2>2
<1>3. Cardinality({j \in rest : j <= m}) = 1
  BY <1>2, FS_Singleton
<1> QED
  BY <1>3 DEF Lowest

\* NextPage brings keys beyond those of the pages before, or says that it was the
\* last page.
LEMMA PageFetched ==
  ASSUME TypeOK, NEW c \in Callers, NextPage(c), call'[c] # None
  PROVE  /\ Searching(c)' /\ call'[c].key = call[c].key
         /\ \A i \in call'[c].page : i \in Ids /\ call[c].cursor < i /\ i <= call'[c].cursor
         /\ call'[c].page # {} => call'[c].cursor > call[c].cursor
         /\ call'[c].page = {} => ~call'[c].more /\ call'[c].cursor = call[c].cursor
         /\ call'[c].cursor \in Nat
<1> DEFINE rest == {i \in Ids : bucket[i] # NoRow /\ i > call[c].cursor}
           page == Lowest(rest, PageSize)
<1>1. Searching(c) /\ call[c] \in Search /\ call[c].cursor \in Nat
  BY SearchingType DEF NextPage
<1>2. rest \in SUBSET Nat /\ PageSize \in Nat \ {0} /\ page \subseteq rest
  BY IdsAssumption, PageSizeAssumption DEF Lowest
<1>3. page = {} => rest = {}
  BY <1>2, PageStarts
<1>4. page # {} => Max(page) \in page /\ \A j \in page : j <= Max(page)
  BY <1>2, PageHasMax
<1>5. call' = [call EXCEPT ![c].page = page, ![c].more = page # rest,
                           ![c].cursor = NextCursor(call[c], page)]
  BY DEF NextPage, Fails, Returns, TypeOK
<1>6. \A i \in page : i \in Ids /\ i > call[c].cursor /\ i \in Nat
  BY <1>2
<1> HIDE DEF page, rest
<1>7. call'[c] = [call[c] EXCEPT !.page = page, !.more = page # rest,
                                 !.cursor = NextCursor(call[c], page)]
  BY <1>5 DEF TypeOK
<1>8. /\ call'[c].op = "Find" /\ call'[c].key = call[c].key /\ call'[c].page = page
      /\ call'[c].more = (page # rest) /\ call'[c].cursor = NextCursor(call[c], page)
  BY <1>1, <1>7 DEF Search
<1>9. CASE page = {}
  BY <1>1, <1>3, <1>8, <1>9 DEF Searching, NextCursor
<1>10. CASE page # {}
  <2>1. call'[c].cursor = Max(page)
    BY <1>8, <1>10 DEF NextCursor
  <2> QED
    BY <1>1, <1>4, <1>6, <1>8, <1>10, <2>1 DEF Searching
<1> QED
  BY <1>9, <1>10

\* GetListed takes a key from the page, if it does not end the search.
LEMMA ObjectLookedAt ==
  ASSUME TypeOK, NEW c \in Callers, GetListed(c), call'[c] # None
  PROVE  /\ Searching(c)' /\ call'[c].key = call[c].key
         /\ \E i \in call[c].page : call'[c].page = call[c].page \ {i}
         /\ call'[c].more = call[c].more /\ call'[c].cursor = call[c].cursor
<1> DEFINE i == Min(call[c].page)
<1>1. Searching(c) /\ call[c] \in Search /\ call[c].page \in SUBSET Nat
  BY SearchingType, IdsAssumption DEF GetListed, Sending, Searching, Search
<1>2. i \in call[c].page
  BY <1>1, MinInSet DEF GetListed
<1>3. call' = [call EXCEPT ![c].page = Skipped(call[c], i)]
  BY DEF GetListed, Result, Returns, TypeOK
<1> HIDE DEF i
<1>4. call'[c] = [call[c] EXCEPT !.page = Skipped(call[c], i)]
  BY <1>3 DEF TypeOK
<1> QED
  BY <1>1, <1>2, <1>4 DEF Search, Searching, Skipped

\* What any step makes of a search.
LEMMA SearchGoesOn ==
  ASSUME TypeOK, Next, NEW c \in Callers, Searching(c)
  PROVE  call'[c] = call[c] \/ call'[c] = None \/ NextPage(c) \/ GetListed(c)
<1>1. ASSUME NEW d \in Callers, NEW o, NEW id, NEW op, NEW key,
             \/ CheckExists(d, op, id, o) \/ FindByID(d, id) \/ FindByKey(d, key)
             \/ BeginTx(d) \/ EndTx(d, op) \/ Refuse(d, op)
      PROVE  call'[c] = call[c]
  <2>1. call[d] = None /\ \E new : call' = [call EXCEPT ![d] = new]
    BY <1>1 DEF CheckExists, FindByID, FindByKey, BeginTx, EndTx, Refuse, Ready, Fails, Result, Returns
  <2> QED
    BY <2>1 DEF Searching, TypeOK
<1>2. ASSUME NEW d \in Callers,
             PutInserted(d) \/ PutUpdated(d) \/ DeleteObject(d) \/ NotFound(d) \/ Panics(d)
      PROVE  call'[c] = call[c] \/ call'[c] = None
  <2>1. call' = [call EXCEPT ![d] = None]
    BY <1>2 DEF PutInserted, PutUpdated, DeleteObject, NotFound, Panics, RequestFails, Returns
  <2> QED
    BY <2>1 DEF TypeOK
<1>3. ASSUME NEW d \in Callers, d # c, NextPage(d) \/ GetListed(d) PROVE call'[c] = call[c]
  BY <1>3 DEF NextPage, GetListed, Fails, Result, Returns, TypeOK
<1>4. CASE Connect \/ ResetConnection
  BY <1>4 DEF Connect, ResetConnection
<1> QED
  BY <1>1, <1>2, <1>3, <1>4 DEF Next, Continue

\* A new search begins without a page.
LEMMA SearchBegins ==
  ASSUME TypeOK, Next, NEW c \in Callers, ~Searching(c), Searching(c)'
  PROVE  call'[c].page = {}
<1>1. ASSUME NEW d \in Callers, NEW key, FindByKey(d, key) PROVE call'[c].page = {}
  BY <1>1 DEF FindByKey, Searching, TypeOK
<1>2. ASSUME NEW d \in Callers, NEW o, NEW id, NEW op \in {"Insert", "Update", "Delete"},
             CheckExists(d, op, id, o)
      PROVE  FALSE
  BY <1>2 DEF CheckExists, Pending, Fails, Returns, Searching, TypeOK
<1>3. ASSUME NEW d \in Callers, NEW op, NEW id,
             \/ FindByID(d, id) \/ BeginTx(d) \/ EndTx(d, op) \/ Refuse(d, op)
             \/ PutInserted(d) \/ PutUpdated(d) \/ DeleteObject(d) \/ NotFound(d) \/ Panics(d)
      PROVE  FALSE
  <2>1. call' = [call EXCEPT ![d] = None]
    BY <1>3 DEF FindByID, BeginTx, EndTx, Refuse, PutInserted, PutUpdated, DeleteObject,
                NotFound, Panics, RequestFails, Fails, Result, Returns
  <2> QED
    BY <2>1 DEF Searching, TypeOK
<1>4. ASSUME NEW d \in Callers, NextPage(d) \/ GetListed(d) PROVE FALSE
  <2>1. d # c
    BY <1>4 DEF NextPage, GetListed, Sending, Searching
  <2>2. call'[c] = call[c]
    BY <1>4, <2>1 DEF NextPage, GetListed, Fails, Result, Returns, TypeOK
  <2> QED
    BY <2>2 DEF Searching
<1>5. CASE Connect \/ ResetConnection
  BY <1>5 DEF Connect, ResetConnection, Searching
<1> QED
  BY <1>1, <1>2, <1>3, <1>4, <1>5 DEF Next, Continue

\* PageIsBehind is an invariant.
LEMMA PagesAreBehind == Spec => [](TypeOK /\ PageIsBehind)
<1>1. Init => PageIsBehind
  BY DEF Init, PageIsBehind, Searching
<1>2. TypeOK /\ PageIsBehind /\ [Next]_vars => PageIsBehind'
  <2>1. ASSUME TypeOK, PageIsBehind, Next, NEW c \in Callers, Searching(c)'
        PROVE  \A i \in call'[c].page : i <= call'[c].cursor
    <3>1. call'[c] # None
      BY <2>1 DEF Searching
    <3>2. CASE ~Searching(c)
      BY <2>1, <3>2, SearchBegins
    <3>3. CASE Searching(c) /\ NextPage(c)
      BY <2>1, <3>1, <3>3, PageFetched
    <3>4. CASE Searching(c) /\ GetListed(c)
      BY <2>1, <3>1, <3>4, ObjectLookedAt DEF PageIsBehind
    <3>5. CASE Searching(c) /\ call'[c] = call[c]
      BY <2>1, <3>5 DEF PageIsBehind
    <3> QED
      BY <2>1, <3>1, <3>2, <3>3, <3>4, <3>5, SearchGoesOn
  <2>2. CASE UNCHANGED vars
    BY <2>2 DEF vars, PageIsBehind, Searching
  <2> QED
    BY <2>1, <2>2 DEF PageIsBehind
<1> QED
  BY <1>1, <1>2, TypeCorrect, PTL DEF Spec

\* The search of c has got further: one key is behind it that was ahead, or it
\* has fetched a page with keys, or the last one; and none that was behind it is
\* ahead again.
Advances(c) ==
  /\ Searching(c)' /\ call'[c].key = call[c].key
  /\ Ahead(call'[c]) \subseteq Ahead(call[c])
  /\ \/ Ahead(call'[c]) # Ahead(call[c])
     \/ call[c].page = {} /\ (call'[c].page # {} \/ ~call'[c].more)

\* Whatever others store and delete, and whichever requests fail, each step of a
\* search ends it or brings it further, so that it is over when every key has
\* been looked at once.
THEOREM SearchAdvances ==
  Spec => [][\A c \in Callers : Searching(c) =>
               call'[c] = call[c] \/ call'[c] = None \/ Advances(c)]_vars
<1>1. ASSUME TypeOK, PageIsBehind, Next, NEW c \in Callers, Searching(c),
             call'[c] # call[c], call'[c] # None
      PROVE  Advances(c)
  <2>1. call[c].page \subseteq Ids /\ call[c].cursor \in Nat /\ Ids \subseteq Nat
    BY <1>1, SearchingType, IdsAssumption DEF Search
  <2>2. CASE NextPage(c)
    <3>1. /\ Searching(c)' /\ call'[c].key = call[c].key
          /\ \A i \in call'[c].page : i \in Ids /\ call[c].cursor < i /\ i <= call'[c].cursor
          /\ call'[c].page # {} => call'[c].cursor > call[c].cursor
          /\ call'[c].page = {} => ~call'[c].more /\ call'[c].cursor = call[c].cursor
          /\ call'[c].cursor \in Nat
      BY <1>1, <2>2, PageFetched
    <3>2. call[c].page = {} /\ call[c].more
      BY <2>2 DEF NextPage
    <3>3. ASSUME NEW i \in Ahead(call'[c]) PROVE i \in Ids /\ i > call[c].cursor
      <4>1. CASE i \in call'[c].page
        BY <2>1, <3>1, <4>1
      <4>2. CASE i \notin call'[c].page
        <5>1. i \in Ids /\ i \in Nat /\ i > call'[c].cursor
          BY <2>1, <3>3, <4>2 DEF Ahead
        <5> QED
          BY <2>1, <3>1, <5>1
      <4> QED
        BY <4>1, <4>2
    <3>4. Ahead(call'[c]) \subseteq Ahead(call[c])
      BY <3>2, <3>3 DEF Ahead
    <3> QED
      BY <3>1, <3>2, <3>4 DEF Advances
  <2>3. CASE GetListed(c)
    <3>1. PICK i \in call[c].page : call'[c].page = call[c].page \ {i}
      BY <1>1, <2>3, ObjectLookedAt
    <3>2. /\ Searching(c)' /\ call'[c].key = call[c].key
          /\ call'[c].more = call[c].more /\ call'[c].cursor = call[c].cursor
      BY <1>1, <2>3, ObjectLookedAt
    <3>3. i <= call[c].cursor /\ i \in Nat
      BY <1>1, <2>1 DEF PageIsBehind
    <3>4. i \in Ahead(call[c]) /\ i \notin Ahead(call'[c])
      BY <2>1, <3>1, <3>2, <3>3 DEF Ahead
    <3>5. Ahead(call'[c]) \subseteq Ahead(call[c])
      BY <3>1, <3>2 DEF Ahead
    <3> QED
      BY <3>2, <3>4, <3>5 DEF Advances
  <2> QED
    BY <1>1, <2>2, <2>3, SearchGoesOn
<1>2. TypeOK /\ PageIsBehind /\ [Next]_vars
        => [\A c \in Callers : Searching(c) =>
              call'[c] = call[c] \/ call'[c] = None \/ Advances(c)]_vars
  BY <1>1
<1> QED
  BY <1>2, PagesAreBehind, PTL DEF Spec

-----------------------------------------------------------------------------
(* What a check has seen, until another call crosses it.                   *)

\* What its check said still holds when a call goes on, whatever others write,
\* unless one of them has created or deleted the object meanwhile.
CheckStands ==
  \A c \in Callers \ crossed : call[c] # None =>
    /\ call[c].op = "Insert" => (call[c].created <=> bucket[call[c].id] = NoRow)
    /\ call[c].op \in {"Update", "Delete"} => bucket[call[c].id] # NoRow

\* A step that leaves the bucket alone, and ends the call of c or goes on with its search.
LEMMA NothingStored ==
  ASSUME TypeOK, CheckStands, NEW c \in Callers, bucket' = bucket, crossed \ {c} \subseteq crossed',
         \A d \in Callers \ {c} : call'[d] = call[d],
         call'[c] = None \/ call'[c].op = "Find"
  PROVE  CheckStands'
<1>1. ASSUME NEW d \in (Callers \ crossed)', d # c
      PROVE  d \in Callers \ crossed /\ call'[d] = call[d]
  BY <1>1
<1> QED
  BY <1>1 DEF CheckStands

\* A request that is sent ends its call, and crosses those whose object it has
\* created or deleted.
LEMMA SentStands ==
  ASSUME TypeOK, CheckStands, NEW c \in Callers, NEW op \in {"Insert", "Update", "Delete"},
         Sending(c, op), NEW stored, Stores(c, stored), call' = [call EXCEPT ![c] = None]
  PROVE  CheckStands'
<1> DEFINE id == call[c].id
<1>1. id \in Ids /\ call'[c] = None /\ \A d \in Callers \ {c} : call'[d] = call[d]
  BY SendingType DEF TypeOK
<1>2. \A i \in Ids : bucket'[i] = IF i = id THEN stored ELSE bucket[i]
  BY DEF Stores, TypeOK
<1>3. ASSUME NEW d \in Callers, d \notin crossed', call'[d] # None, call'[d].op # "Find"
      PROVE  /\ d \notin crossed /\ call'[d] = call[d]
             /\ bucket'[call[d].id] = NoRow <=> bucket[call[d].id] = NoRow
  <2>1. d # c /\ call'[d] = call[d]
    BY <1>1, <1>3
  <2>2. d \notin crossed /\ (d \in Checked(id) => (stored = NoRow) = (bucket[id] = NoRow))
    BY <1>3, <2>1 DEF Stores, Uncrossed
  <2>3. call[d] \in Writing
    BY <1>3, <2>1 DEF TypeOK, Search
  <2>4. call[d].id \in Ids
    BY <2>3 DEF Writing
  <2>5. CASE call[d].id = id
    <3>1. (stored = NoRow) = (bucket[id] = NoRow)
      BY <1>3, <2>1, <2>2, <2>5 DEF Checked
    <3> QED
      BY <1>2, <2>1, <2>2, <2>4, <2>5, <3>1
  <2>6. CASE call[d].id # id
    BY <1>2, <2>1, <2>2, <2>4, <2>6
  <2> QED
    BY <2>5, <2>6
<1> QED
  BY <1>3 DEF CheckStands

\* A check is made when the bucket is as it says.
LEMMA CheckedStands ==
  ASSUME TypeOK, CheckStands, NEW c \in Callers, NEW op \in {"Insert", "Update", "Delete"},
         NEW id, NEW o, CheckExists(c, op, id, o)
  PROVE  CheckStands'
<1>1. CASE call' = [call EXCEPT ![c] = Pending(op, id, o)] /\ (bucket[id] # NoRow \/ op = "Insert")
  <2>1. /\ call'[c] = Pending(op, id, o) /\ \A d \in Callers \ {c} : call'[d] = call[d]
        /\ UNCHANGED <<bucket, crossed>>
    BY <1>1 DEF CheckExists, TypeOK
  <2>2. /\ call'[c].op = op /\ call'[c].id = id
        /\ call'[c].created = (bucket[id] = NoRow)
    BY <2>1 DEF Pending
  <2>3. call'[c].op \in {"Update", "Delete"} => bucket'[call'[c].id] # NoRow
    BY <1>1, <2>1, <2>2
  <2>4. call'[c].created <=> bucket'[call'[c].id] = NoRow
    BY <2>1, <2>2, Zenon
  <2> QED
    BY <2>1, <2>3, <2>4 DEF CheckStands
<1>2. CASE call' = [call EXCEPT ![c] = None]
  BY <1>2, NothingStored DEF CheckExists, TypeOK
<1> QED
  BY <1>1, <1>2 DEF CheckExists, Fails, Returns

\* Every step keeps what the checks of the others have seen.
LEMMA ChecksStep ==
  ASSUME TypeOK, CheckStands, Next
  PROVE  CheckStands'
<1>1. ASSUME NEW c \in Callers, NEW op \in {"Insert", "Update", "Delete"}, NEW stored,
             Sending(c, op), call' = [call EXCEPT ![c] = None],
             Stores(c, stored) \/ (UNCHANGED <<bucket, kept>> /\ Uncrossed(c))
      PROVE  CheckStands'
  BY <1>1, SentStands, NothingStored DEF Uncrossed, TypeOK
<1>2. ASSUME NEW c \in Callers, PutInserted(c) \/ PutUpdated(c) \/ DeleteObject(c)
      PROVE  CheckStands'
  BY <1>1, <1>2 DEF PutInserted, PutUpdated, DeleteObject, RequestFails, Returns
<1>3. ASSUME NEW c \in Callers, NEW key, FindByKey(c, key) PROVE CheckStands'
  BY <1>3, NothingStored DEF FindByKey, TypeOK
<1>4. ASSUME NEW c \in Callers, NextPage(c) \/ GetListed(c) PROVE CheckStands'
  <2>1. Searching(c) /\ call[c] \in Search
    BY <1>4, SearchingType DEF NextPage, GetListed, Sending, Searching
  <2>2. /\ bucket' = bucket /\ crossed' = crossed /\ \A d \in Callers \ {c} : call'[d] = call[d]
    BY <1>4 DEF NextPage, GetListed, Fails, Result, Returns, TypeOK
  <2>3. call'[c] = None \/ call'[c].op = "Find"
    BY <1>4, <2>1, PageFetched, ObjectLookedAt DEF Searching
  <2> QED
    BY <2>2, <2>3, NothingStored
<1>5. ASSUME NEW c \in Callers, NEW id, NEW op,
             NotFound(c) \/ Panics(c) \/ FindByID(c, id) \/ BeginTx(c) \/ EndTx(c, op) \/ Refuse(c, op)
      PROVE  CheckStands'
  <2>1. bucket' = bucket /\ crossed \ {c} \subseteq crossed' /\ call' = [call EXCEPT ![c] = None]
    BY <1>5 DEF NotFound, Panics, Uncrossed, FindByID, Result, BeginTx, EndTx, Refuse, Fails, Returns
  <2> QED
    BY <2>1, NothingStored DEF TypeOK
<1>6. CASE Connect \/ ResetConnection
  BY <1>6 DEF Connect, ResetConnection, CheckStands
<1> QED
  BY <1>2, <1>3, <1>4, <1>5, <1>6, CheckedStands DEF Next, Continue

\* The invariant of the checks.
LEMMA ChecksStand == Spec => [](TypeOK /\ CheckStands)
<1>1. Init => CheckStands
  BY DEF Init, CheckStands
<1>2. TypeOK /\ CheckStands /\ [Next]_vars => CheckStands'
  BY ChecksStep DEF vars, CheckStands
<1> QED
  BY <1>1, <1>2, TypeCorrect, PTL DEF Spec

\* What PutInserted returns is what its check said.
LEMMA CreatedAsChecked ==
  ASSUME CheckStands, NEW c \in Callers \ crossed, PutInserted(c), last'.out \in {"true", "existed"}
  PROVE  last'.out = "true" <=> bucket[last'.id] = NoRow
<1>1. Returns(c, "Insert", call[c].id, call[c].obj.f,
              IF call[c].created THEN "true" ELSE "existed", NoRow)
  BY DEF PutInserted, RequestFails, Returns
<1>2. last'.id = call[c].id /\ last'.out = IF call[c].created THEN "true" ELSE "existed"
  BY <1>1 DEF Returns
<1>3. call[c].created <=> bucket[call[c].id] = NoRow
  BY DEF PutInserted, Sending, CheckStands
<1> QED
  BY <1>2, <1>3

\* However many callers share the storage, the "created" that Insert returns is
\* true, unless another call created or deleted its object since the check.
THEOREM CreatedTruthful == Spec => CreatedIsTruthful
<1>1. TypeOK /\ CheckStands /\ [Next]_vars =>
        [\A c \in Callers \ crossed : PutInserted(c) /\ last'.out \in {"true", "existed"} =>
           (last'.out = "true" <=> bucket[last'.id] = NoRow)]_vars
  BY CreatedAsChecked, Zenon
<1> QED
  BY <1>1, ChecksStand, PTL DEF Spec, CreatedIsTruthful

-----------------------------------------------------------------------------
(* A single caller: between its requests nothing changes.                  *)

\* There is at most one caller.
Alone == \A c, d \in Callers : c = d

\* Nobody has crossed a call, and a search has kept every object it looks for,
\* where no GetObject fails.
Undisturbed ==
  /\ crossed = {}
  /\ \A c \in Callers : Searching(c) /\ "get" \notin Faults =>
       kept[c] = {i \in Ids : Wanted(bucket[i], i, call[c].key)}

\* The only caller does not cross itself.
LEMMA CrossesNobody ==
  ASSUME Alone, NEW c \in Callers, crossed = {}, NEW stored, Stores(c, stored) \/ Uncrossed(c)
  PROVE  crossed' = {}
<1>1. Callers = {c}
  BY DEF Alone
<1> QED
  BY <1>1 DEF Stores, Uncrossed, Checked

\* The steps of the only caller, between which nobody else writes.
LEMMA AloneStep ==
  ASSUME Alone, TypeOK, Undisturbed, Next
  PROVE  Undisturbed'
<1>1. ASSUME NEW c \in Callers, call'[c] = None \/ call'[c].op # "Find", crossed' = {}
      PROVE  Undisturbed'
  <2>1. \A d \in Callers : d = c
    BY DEF Alone
  <2> QED
    BY <1>1, <2>1 DEF Undisturbed, Searching
<1>2. ASSUME NEW c \in Callers, NEW id, NEW o, NEW op \in {"Insert", "Update", "Delete"},
             CheckExists(c, op, id, o)
      PROVE  Undisturbed'
  <2>1. call'[c] = None \/ call'[c].op = op
    BY <1>2 DEF CheckExists, Pending, Fails, Returns, TypeOK
  <2> QED
    BY <1>1, <1>2, <2>1 DEF CheckExists, Undisturbed
<1>3. ASSUME NEW c \in Callers, PutInserted(c) \/ PutUpdated(c) \/ DeleteObject(c)
      PROVE  Undisturbed'
  <2>1. call'[c] = None
    BY <1>3 DEF PutInserted, PutUpdated, DeleteObject, RequestFails, Returns, TypeOK
  <2>2. \E stored : Stores(c, stored) \/ Uncrossed(c)
    BY <1>3 DEF PutInserted, PutUpdated, DeleteObject, RequestFails
  <2>3. crossed' = {}
    BY <2>2, CrossesNobody DEF Undisturbed
  <2> QED
    BY <1>1, <2>1, <2>3
<1>4. ASSUME NEW c \in Callers, NEW key \in SearchKeys, FindByKey(c, key) PROVE Undisturbed'
  <2> DEFINE sought == {i \in Ids : Wanted(bucket[i], i, key)}
  <2>1. call'[c].op = "Find" /\ call'[c].key = key
    BY <1>4 DEF FindByKey, TypeOK
  <2>2. kept' = [kept EXCEPT ![c] = sought] /\ bucket' = bucket /\ crossed' = crossed
    BY <1>4 DEF FindByKey
  <2>3. kept'[c] = sought
    BY <2>2 DEF TypeOK
  <2>4. \A d \in Callers : d = c
    BY DEF Alone
  <2> QED
    BY <2>1, <2>2, <2>3, <2>4 DEF Undisturbed
<1>5. ASSUME NEW c \in Callers, NextPage(c) \/ GetListed(c) PROVE Undisturbed'
  <2>1. Searching(c) /\ bucket' = bucket /\ crossed' = {}
    BY <1>5 DEF NextPage, GetListed, Sending, Searching, Undisturbed
  <2>2. CASE call'[c] = None
    BY <1>1, <2>1, <2>2
  <2>3. CASE call'[c] # None
    <3>1. call'[c].key = call[c].key
      BY <1>5, <2>3, PageFetched, ObjectLookedAt
    <3>2. "get" \notin Faults => kept'[c] = kept[c]
      BY <1>5, <2>3 DEF NextPage, GetListed, Result, Returns, TypeOK
    <3>3. \A d \in Callers : d = c
      BY DEF Alone
    <3> QED
      BY <2>1, <3>1, <3>2, <3>3 DEF Undisturbed
  <2> QED
    BY <2>2, <2>3
<1>6. ASSUME NEW c \in Callers, NEW id, NEW op,
             NotFound(c) \/ Panics(c) \/ FindByID(c, id) \/ BeginTx(c) \/ EndTx(c, op) \/ Refuse(c, op)
      PROVE  Undisturbed'
  <2>1. call'[c] = None /\ crossed' = {}
    BY <1>6 DEF NotFound, Panics, Uncrossed, FindByID, Result, BeginTx, EndTx, Refuse, Fails, Returns,
                TypeOK, Undisturbed
  <2> QED
    BY <1>1, <2>1
<1>7. CASE Connect \/ ResetConnection
  BY <1>7 DEF Connect, ResetConnection, Undisturbed, Searching
<1> QED
  BY <1>2, <1>3, <1>4, <1>5, <1>6, <1>7 DEF Next, Continue

\* Between its requests nothing happens to the objects of the only caller.
LEMMA AloneInvariant ==
  ASSUME Alone
  PROVE  Spec => [](TypeOK /\ CheckStands /\ Undisturbed)
<1>1. Init => Undisturbed
  BY DEF Init, Undisturbed, Searching
<1>2. TypeOK /\ Undisturbed /\ [Next]_vars => Undisturbed'
  BY AloneStep DEF vars, Undisturbed, Searching
<1> QED
  BY <1>1, <1>2, ChecksStand, PTL DEF Spec

\* The "created" that Insert returns to a single caller is true, without exception.
THEOREM CreatedTruthfulAlone ==
  ASSUME Alone
  PROVE  Spec => [][\A c \in Callers : PutInserted(c) /\ last'.out \in {"true", "existed"} =>
                      (last'.out = "true" <=> bucket[last'.id] = NoRow)]_vars
<1>1. TypeOK /\ CheckStands /\ Undisturbed /\ [Next]_vars =>
        [\A c \in Callers : PutInserted(c) /\ last'.out \in {"true", "existed"} =>
           (last'.out = "true" <=> bucket[last'.id] = NoRow)]_vars
  <2>1. Undisturbed => crossed = {}
    BY DEF Undisturbed
  <2> QED
    BY <2>1, CreatedAsChecked, Zenon
<1> QED
  BY <1>1, AloneInvariant, PTL DEF Spec

-----------------------------------------------------------------------------
(* The contract, with any number of callers.                               *)

\* What the contract calls rows, and last.
Table == [i \in Ids |-> AsRow(bucket[i])]
Shown == IF last = None THEN None ELSE AsEvent(last)

\* An object stands for a row, and its absence for none.
LEMMA AsRowType ==
  ASSUME NEW o \in Objects \cup {NoRow}
  PROVE  /\ AsRow(o) \in Rows \cup {NoRow}
         /\ AsRow(o) = NoRow <=> o = NoRow
<1>1. ASSUME o \in Objects PROVE AsRow(o) \in Rows
  <2>1. o.f \in Fields /\ o # NoRow
    BY <1>1, ObjectAssumption DEF Objects
  <2>2. DOMAIN o.f \subseteq Cols /\ \A x \in DOMAIN o.f : o.f[x] \in Values
    BY <2>1 DEF Fields
  <2>3. Overlay(Blank, o.f) \in Rows
    BY <2>2 DEF Overlay, Blank, Rows, Values
  <2> QED
    BY <2>1, <2>3 DEF AsRow
<1>2. NoRow \notin Rows
  BY NoRowAssumption DEF Rows, Values
<1> QED
  BY <1>1, <1>2, ObjectAssumption DEF AsRow

\* The row of an object has its fields, and NULL in the other columns.
LEMMA RowValue ==
  ASSUME NEW o \in Objects, NEW x \in Cols
  PROVE  AsRow(o)[x] = IF x \in DOMAIN o.f THEN o.f[x] ELSE Null
  BY ObjectAssumption DEF AsRow, Overlay, Blank

\* Putting a whole object over another does what merging its fields would, as
\* long as it drops none that has a value.
LEMMA PutMerges ==
  ASSUME NEW o \in Objects, NEW old \in Objects \cup {NoRow}, NEW t, NEW id, t[id] = AsRow(old),
         old # NoRow => \A x \in DOMAIN old.f \ DOMAIN o.f : old.f[x] = Null
  PROVE  Contract!Merged(t, id, o.f) = AsRow(o)
<1> DEFINE base == IF t[id] = NoRow THEN Blank ELSE t[id]
<1>1. ASSUME NEW x \in Cols, x \notin DOMAIN o.f PROVE base[x] = Null
  <2>1. CASE old = NoRow
    BY <2>1 DEF AsRow, Blank
  <2>2. CASE old # NoRow
    <3>1. t[id] = AsRow(old) /\ t[id] # NoRow
      BY <2>2, AsRowType
    <3>2. AsRow(old)[x] = IF x \in DOMAIN old.f THEN old.f[x] ELSE Null
      BY <2>2, RowValue
    <3> QED
      BY <1>1, <2>2, <3>1, <3>2
  <2> QED
    BY <2>1, <2>2
<1> HIDE DEF base
<1>2. Overlay(base, o.f) = Overlay(Blank, o.f)
  BY <1>1 DEF Overlay, Blank
<1>3. Contract!Merged(t, id, o.f) = Overlay(base, o.f)
  BY DEF Contract!Merged, Contract!Overlay, Contract!Blank, Overlay, Blank, base
<1>4. AsRow(o) = Overlay(Blank, o.f)
  BY ObjectAssumption DEF AsRow
<1> QED
  BY <1>2, <1>3, <1>4

\* The events of the adapter are events of the contract.
LEMMA AsEventType ==
  ASSUME NEW e \in Events
  PROVE  AsEvent(e) \in Contract!Events
<1>1. e.got \in Objects \cup {NoRow}
  BY DEF Events
<1>2. AsRow(e.got) \in Rows \cup {NoRow}
  BY <1>1, AsRowType
<1>3. AsEvent(e).out \in {"true", "false", "error"}
  BY DEF Events, Outcomes, AsEvent
<1>4. AsEvent(e).call \in Contract!Calls
  BY DEF Events, Calls, Contract!Calls, AsEvent
<1>5. Contract!Fields = Fields /\ Contract!Rows = Rows
  BY DEF Contract!Fields, Fields, Contract!Rows, Rows, Contract!Values, Values
<1> QED
  BY <1>2, <1>3, <1>4, <1>5 DEF Events, AsEvent, Contract!Events

\* The return of an event that the contract allows is a step of the contract.
LEMMA StepOf ==
  ASSUME last' \in Events, Contract!Step(AsEvent(last'))
  PROVE  Contract!Next
<1>1. Shown' = AsEvent(last')
  BY NoneAssumption DEF Shown
<1>2. AsEvent(last') \in Contract!Events
  BY AsEventType
<1> QED
  BY <1>1, <1>2 DEF Shown, Contract!Next

\* Outside transactions every call sees the table.
LEMMA SeesTable ==
  ASSUME NEW e, e.inTx = FALSE
  PROVE  Contract!Sees(e) = Table /\ Contract!InOpenTx(e)
  BY DEF Contract!Sees, Contract!Base, Contract!InOpenTx, Table

\* The row a call sees is that of its object, and there is one when the object is.
LEMMA SeesRow ==
  ASSUME TypeOK, NEW e, e.inTx = FALSE, NEW id \in Ids, e.id = id
  PROVE  /\ Contract!Sees(e)[e.id] = AsRow(bucket[id])
         /\ bucket[id] # NoRow => Contract!Sees(e)[e.id] # NoRow
<1>1. Contract!Sees(e)[e.id] = Table[id]
  BY SeesTable
<1>2. Table[id] = AsRow(bucket[id])
  BY DEF Table
<1>3. bucket[id] \in Objects \cup {NoRow}
  BY DEF TypeOK
<1>4. bucket[id] # NoRow => AsRow(bucket[id]) # NoRow
  BY <1>3, AsRowType
<1> QED
  BY <1>1, <1>2, <1>4

\* An error that left the bucket alone.
LEMMA ErrorStep ==
  ASSUME last' \in Events, bucket' = bucket, AsEvent(last').out = "error"
  PROVE  Contract!Next
  BY StepOf DEF Contract!Step, Contract!NoEffect

\* A request that stored an object, or removed one.
LEMMA WritingStep ==
  ASSUME TypeOK, NEW id \in Ids, NEW stored, bucket' = [bucket EXCEPT ![id] = stored],
         NEW e, e.inTx = FALSE, e.id = id
  PROVE  Contract!Writing(e, AsRow(stored))
<1>1. \A i \in Ids : bucket'[i] = IF i = id THEN stored ELSE bucket[i]
  BY DEF TypeOK
<1>2. \A i \in Ids : AsRow(bucket[i])' = IF i = id THEN AsRow(stored) ELSE AsRow(bucket[i])
  BY <1>1 DEF AsRow
<1>3. Table' = [Table EXCEPT ![id] = AsRow(stored)]
  BY <1>2 DEF Table
<1> QED
  BY <1>3, SeesTable DEF Contract!Writing, Contract!Put, Table

\* A call that did not write.
LEMMA ReadingStep ==
  ASSUME bucket' = bucket, NEW e, e.inTx = FALSE
  PROVE  Contract!Reading(e)
  BY SeesTable DEF Contract!Reading

\* Neither the bucket nor what was returned last changes.
LEMMA Stutter ==
  ASSUME bucket' = bucket, last' = last
  PROVE  UNCHANGED Contract!vars
  BY DEF Contract!vars

\* A put of Insert or Update, acknowledged or not, is an upsert or an update
\* of a row that is there still, if it drops no value.
LEMMA PutStep ==
  ASSUME TypeOK, NEW c \in Callers, NEW op \in {"Insert", "Update"},
         Sending(c, op), Stores(c, call[c].obj),
         op = "Update" => bucket[call[c].id] # NoRow,
         bucket[call[c].id] # NoRow =>
           \A x \in DOMAIN bucket[call[c].id].f \ DOMAIN call[c].obj.f : bucket[call[c].id].f[x] = Null,
         NEW out \in {"true", "existed", "error"}, op = "Update" => out # "existed",
         Returns(c, op, call[c].id, call[c].obj.f, out, NoRow)
  PROVE  Contract!Next
<1> DEFINE e == AsEvent(last')
           id == call[c].id
           o == call[c].obj
<1>1. call[c] \in Writing /\ id \in Ids /\ o.f \in Fields
  BY SendingType
<1>2. o \in Objects /\ bucket[id] \in Objects \cup {NoRow}
  BY <1>1 DEF Writing, TypeOK
<1>3. last' \in Events
  BY <1>1, ReturnsType DEF Calls, Outcomes
<1> HIDE DEF e
<1>4. /\ e.inTx = FALSE /\ e.id = id /\ e.f = o.f
      /\ e.call = IF op = "Insert" THEN "Upsert" ELSE "Update"
      /\ e.out \in {"true", "error"}
  BY DEF e, Returns, AsEvent
<1>5. Contract!Outcome(e, "true")
  BY <1>4 DEF Contract!Outcome
<1>6. bucket' = [bucket EXCEPT ![id] = o]
  BY DEF Stores
<1>7. bucket[id] # NoRow => \A x \in DOMAIN bucket[id].f \ DOMAIN o.f : bucket[id].f[x] = Null
  OBVIOUS
<1> HIDE DEF id, o
<1>8. Contract!Writing(e, AsRow(o)) /\ Contract!Merged(Contract!Sees(e), e.id, e.f) = AsRow(o)
  <2>1. Contract!Sees(e)[id] = AsRow(bucket[id])
    BY <1>1, <1>4, SeesRow
  <2>2. Contract!Merged(Contract!Sees(e), id, o.f) = AsRow(o)
    BY <1>2, <1>7, <2>1, PutMerges
  <2> QED
    BY <1>1, <1>4, <1>6, <2>2, WritingStep
<1>9. CASE op = "Insert"
  <2>1. Contract!Upsert(e)
    BY <1>1, <1>4, <1>5, <1>8, <1>9 DEF Contract!Upsert
  <2> QED
    BY <1>3, <2>1, StepOf DEF Contract!Step, e
<1>10. CASE op = "Update"
  <2>1. bucket[id] # NoRow
    BY <1>10 DEF id
  <2>2. Contract!Sees(e)[e.id] # NoRow
    BY <1>1, <1>4, <2>1, SeesRow
  <2>3. Contract!Update(e)
    BY <1>1, <1>4, <1>5, <1>8, <1>10, <2>2 DEF Contract!Update
  <2> QED
    BY <1>3, <2>3, StepOf DEF Contract!Step, e
<1> QED
  BY <1>9, <1>10

\* A DeleteObject, acknowledged or not, removes a row that is there still.
LEMMA DeleteStep ==
  ASSUME TypeOK, NEW c \in Callers, Sending(c, "Delete"), Stores(c, NoRow),
         bucket[call[c].id] # NoRow,
         NEW out \in {"true", "error"}, NEW f \in Fields,
         Returns(c, "Delete", call[c].id, f, out, NoRow)
  PROVE  Contract!Next
<1> DEFINE e == AsEvent(last')
           id == call[c].id
<1>1. id \in Ids
  BY SendingType
<1>2. last' \in Events
  BY <1>1, ReturnsType DEF Calls, Outcomes
<1> HIDE DEF e
<1>3. e.inTx = FALSE /\ e.id = id /\ e.call = "Delete" /\ e.out \in {"true", "error"}
  BY DEF e, Returns, AsEvent
<1>4. bucket' = [bucket EXCEPT ![id] = NoRow] /\ bucket[id] # NoRow
  BY DEF Stores
<1> HIDE DEF id
<1>5. Contract!Writing(e, AsRow(NoRow)) /\ AsRow(NoRow) = NoRow
  BY <1>1, <1>3, <1>4, WritingStep DEF AsRow
<1>6. Contract!Sees(e)[e.id] # NoRow
  BY <1>1, <1>3, <1>4, SeesRow
<1>7. Contract!Delete(e)
  BY <1>1, <1>3, <1>5, <1>6 DEF Contract!Delete, Contract!Outcome
<1> QED
  BY <1>2, <1>7, StepOf DEF Contract!Step, e

\* A call that fails, panics, or is one of the transactions that are none.
LEMMA FailingStep ==
  ASSUME TypeOK, NEW c \in Callers, NEW op \in Calls, NEW id \in Ids \cup {None}, NEW f \in Fields,
         NEW out \in Outcomes, out \in {"error", "panic"} \/ op \in {"Begin", "Commit", "Rollback"},
         Returns(c, op, id, f, out, NoRow), bucket' = bucket
  PROVE  Contract!Next
<1>1. last' \in Events
  BY ReturnsType
<1>2. AsEvent(last').out = "error"
  BY DEF Calls, Returns, AsEvent
<1> QED
  BY <1>1, <1>2, ErrorStep

\* An object that is found is a row with the values that were sought.
LEMMA FoundStep ==
  ASSUME TypeOK, NEW c \in Callers, NEW id \in Ids, NEW key,
         key.f \in Fields, bucket[id] # NoRow,
         \A x \in DOMAIN key.f : x \in DOMAIN bucket[id].f /\ bucket[id].f[x] = key.f[x],
         Result(c, id, key), bucket' = bucket
  PROVE  Contract!Next
<1> DEFINE e == AsEvent(last')
           o == bucket[id]
<1>1. o \in Objects
  BY DEF TypeOK
<1>2. Returns(c, "Find", id, key.f, "true", o)
  BY DEF Result
<1>3. last' \in Events
  BY <1>1, <1>2, ReturnsType DEF Calls, Outcomes
<1> HIDE DEF e
<1>4. /\ e.inTx = FALSE /\ e.id = id /\ e.call = "Find" /\ e.out = "true" /\ e.f = key.f
      /\ e.got = AsRow(o)
  BY <1>2 DEF e, Returns, AsEvent
<1>5. e.got # NoRow /\ e.got = Contract!Sees(e)[e.id]
  BY <1>4, SeesRow
<1>6. ASSUME NEW x \in DOMAIN e.f PROVE e.got[x] = e.f[x]
  <2>1. x \in Cols
    BY <1>4, <1>6 DEF Fields
  <2> QED
    BY <1>1, <1>4, <1>6, <2>1, RowValue
<1>7. Contract!Reading(e)
  BY <1>4, ReadingStep
<1>8. Contract!Found(e)
  BY <1>4, <1>5, <1>6, <1>7 DEF Contract!Found
<1> QED
  BY <1>3, <1>8, StepOf DEF Contract!Step, e

\* (nil, nil) means that the table has no row of this key.
LEMMA MissingStep ==
  ASSUME TypeOK, NEW c \in Callers, NEW id \in Ids \cup {None}, NEW f \in Fields,
         \A x \in DOMAIN f : f[x] # Null,
         \A i \in IF id = None THEN Ids ELSE {id} :
           /\ i \in Ids
           /\ bucket[i] # NoRow =>
                \E x \in DOMAIN f : x \notin DOMAIN bucket[i].f \/ bucket[i].f[x] # f[x],
         Returns(c, "Find", id, f, "false", NoRow), bucket' = bucket
  PROVE  Contract!Next
<1> DEFINE e == AsEvent(last')
<1>1. last' \in Events
  BY ReturnsType DEF Calls, Outcomes
<1> HIDE DEF e
<1>2. /\ e.inTx = FALSE /\ e.id = id /\ e.call = "Find" /\ e.out = "false" /\ e.f = f
      /\ e.got = NoRow
  BY DEF e, Returns, AsEvent, AsRow
<1>3. ASSUME NEW i \in IF e.id = None THEN Ids ELSE {e.id}
      PROVE  Contract!Sees(e)[i] = NoRow \/ \E x \in DOMAIN e.f : Contract!Sees(e)[i][x] # e.f[x]
  <2>1. i \in Ids /\ Contract!Sees(e)[i] = AsRow(bucket[i])
    BY <1>2, <1>3, SeesTable DEF Table
  <2>2. CASE bucket[i] = NoRow
    BY <2>1, <2>2 DEF AsRow
  <2>3. CASE bucket[i] # NoRow
    <3>1. PICK x \in DOMAIN f : x \notin DOMAIN bucket[i].f \/ bucket[i].f[x] # f[x]
      BY <1>2, <1>3, <2>3
    <3>2. x \in Cols
      BY DEF Fields
    <3>3. bucket[i] \in Objects
      BY <2>1, <2>3 DEF TypeOK
    <3>4. AsRow(bucket[i])[x] # e.f[x]
      BY <1>2, <3>1, <3>2, <3>3, RowValue
    <3> QED
      BY <1>2, <2>1, <3>4
  <2> QED
    BY <2>2, <2>3
<1>4. Contract!NotFound(e)
  BY <1>2, <1>3, ReadingStep DEF Contract!NotFound
<1> QED
  BY <1>1, <1>4, StepOf DEF Contract!Step, e

\* An Update or DeleteByID whose check found no object.
LEMMA MissStep ==
  ASSUME TypeOK, NEW c \in Callers, NEW op \in {"Update", "Delete"}, NEW id \in Ids, NEW f \in Fields,
         bucket[id] = NoRow, Returns(c, op, id, f, "false", NoRow), bucket' = bucket
  PROVE  Contract!Next
<1> DEFINE e == AsEvent(last')
<1>1. last' \in Events
  BY ReturnsType DEF Calls, Outcomes
<1> HIDE DEF e
<1>2. e.inTx = FALSE /\ e.id = id /\ e.call = op /\ e.out = "false"
  BY DEF e, Returns, AsEvent
<1>3. Contract!Sees(e)[e.id] = NoRow
  BY <1>2, SeesTable DEF Table, AsRow
<1>4. Contract!Miss(e)
  BY <1>2, <1>3, ReadingStep DEF Contract!Miss, Contract!Outcome
<1> QED
  BY <1>1, <1>4, StepOf DEF Contract!Step, e

\* What the requests of c may do that is no step of the contract.
DepartsIn(c) == DropsFields(c) \/ PutsBack(c) \/ DeletesNothing(c) \/ Overlooks(c)

\* Removing an object that is gone changes nothing.
LEMMA RemovesNothing ==
  ASSUME TypeOK, NEW c \in Callers, Sending(c, "Delete"), Stores(c, NoRow),
         bucket[call[c].id] = NoRow
  PROVE  bucket' = bucket
<1>1. call[c].id \in Ids
  BY SendingType
<1> QED
  BY <1>1 DEF Stores, TypeOK

\* A put that takes effect drops values or is a step of the contract, unless it
\* updates what is gone.
LEMMA PutOrDrop ==
  ASSUME TypeOK, NEW c \in Callers, NEW op \in {"Insert", "Update"},
         op = "Insert" => PutInserted(c), op = "Update" => PutUpdated(c) /\ bucket[call[c].id] # NoRow,
         Sending(c, op), Stores(c, call[c].obj)
  PROVE  Contract!Next \/ DropsFields(c)
<1>1. call[c].id \in Ids
  BY SendingType
<1>2. bucket'[call[c].id] = call[c].obj
  BY <1>1 DEF Stores, TypeOK
<1>3. CASE bucket[call[c].id] # NoRow /\ \E x \in DOMAIN bucket[call[c].id].f \ DOMAIN call[c].obj.f :
                                           bucket[call[c].id].f[x] # Null
  BY <1>2, <1>3 DEF DropsFields
<1>4. CASE bucket[call[c].id] # NoRow => \A x \in DOMAIN bucket[call[c].id].f \ DOMAIN call[c].obj.f :
                                           bucket[call[c].id].f[x] = Null
  <2>1. \E out \in {"true", "existed", "error"} :
          /\ op = "Update" => out # "existed"
          /\ Returns(c, op, call[c].id, call[c].obj.f, out, NoRow)
    BY DEF PutInserted, PutUpdated, RequestFails
  <2> QED
    BY <1>4, <2>1, PutStep
<1> QED
  BY <1>3, <1>4

\* What is sought in a column is not NULL.
LEMMA KeyValues ==
  ASSUME NEW key \in SearchKeys
  PROVE  \A x \in DOMAIN key.f : key.f[x] # Null
<1>1. ASSUME NEW f \in ColumnKeys, NEW x \in DOMAIN f PROVE f[x] # Null
  <2>1. PICK y \in Cols : f \in [{y} -> Cells]
    BY <1>1 DEF ColumnKeys
  <2> QED
    BY <2>1, NullAssumption
<1> QED
  BY <1>1 DEF SearchKeys, Key, NoFields

\* Every request of a call is a step of the contract, a stutter, or one of the
\* four departures.
LEMMA ContinueStep ==
  ASSUME TypeOK, SearchInv, CheckStands, NEW c \in Callers, Continue(c)
  PROVE  Contract!Next \/ UNCHANGED Contract!vars \/ DepartsIn(c)
<1>1. ASSUME NEW op \in {"Insert", "Update", "Delete"}, NEW stored, Sending(c, op),
             RequestFails(c, op, stored), bucket' = bucket
      PROVE  Contract!Next
  <2>1. call[c].id \in Ids /\ call[c].obj.f \in Fields
    BY <1>1, SendingType
  <2> QED
    BY <1>1, <2>1, FailingStep DEF RequestFails, Calls, Outcomes
<1>2. CASE PutInserted(c)
  <2>1. CASE Stores(c, call[c].obj)
    BY <1>2, <2>1, PutOrDrop DEF PutInserted, DepartsIn
  <2> QED
    BY <1>1, <1>2, <2>1 DEF PutInserted, RequestFails
<1>3. CASE PutUpdated(c)
  <2>1. CASE Stores(c, call[c].obj) /\ bucket[call[c].id] # NoRow
    BY <1>3, <2>1, PutOrDrop DEF PutUpdated, DepartsIn
  <2>2. CASE Stores(c, call[c].obj) /\ bucket[call[c].id] = NoRow
    <3>1. call[c].id \in Ids
      BY <1>3, SendingType DEF PutUpdated
    <3>2. bucket'[call[c].id] = call[c].obj
      BY <2>2, <3>1 DEF Stores, TypeOK
    <3>3. c \in crossed
      BY <1>3, <2>2 DEF PutUpdated, Sending, CheckStands
    <3> QED
      BY <1>3, <2>2, <3>2, <3>3 DEF DepartsIn, PutsBack
  <2>3. CASE ~Stores(c, call[c].obj)
    BY <1>1, <1>3, <2>3 DEF PutUpdated, RequestFails
  <2> QED
    BY <2>1, <2>2, <2>3
<1>4. CASE DeleteObject(c)
  <2>1. Sending(c, "Delete") /\ call[c].obj.f \in Fields
    BY <1>4, SendingType DEF DeleteObject
  <2>2. CASE Stores(c, NoRow) /\ bucket[call[c].id] # NoRow
    BY <1>4, <2>1, <2>2, NoFieldsType, DeleteStep DEF DeleteObject, RequestFails
  <2>3. CASE RequestFails(c, "Delete", NoRow) /\ bucket[call[c].id] = NoRow
    BY <1>1, <2>1, <2>3, RemovesNothing DEF RequestFails
  <2>4. CASE RequestFails(c, "Delete", NoRow) /\ ~Stores(c, NoRow)
    BY <1>1, <2>1, <2>4 DEF RequestFails
  <2>5. CASE Returns(c, "Delete", call[c].id, NoFields, "true", NoRow) /\ bucket[call[c].id] = NoRow
    <3>1. c \in crossed
      BY <2>1, <2>5 DEF Sending, CheckStands
    <3> QED
      BY <1>4, <2>5, <3>1 DEF Returns, DepartsIn, DeletesNothing
  <2> QED
    BY <1>4, <2>2, <2>3, <2>4, <2>5 DEF DeleteObject
<1>5. CASE NextPage(c)
  <2>1. CASE Fails(c, "Find")
    BY <1>5, <2>1, NoFieldsType, FailingStep DEF NextPage, Fails, Calls, Outcomes
  <2> QED
    BY <1>5, <2>1, Stutter DEF NextPage
<1>6. CASE GetListed(c)
  <2> DEFINE i == Min(call[c].page)
  <2>1. Searching(c) /\ call[c].page # {}
    BY <1>6 DEF GetListed, Sending, Searching
  <2>2. call[c].key.f \in Fields /\ call[c].page \in SUBSET Nat /\ call[c].page \subseteq Ids
    BY <2>1, SearchingType DEF Search
  <2>3. i \in Ids
    BY <2>1, <2>2, MinInSet
  <2> HIDE DEF i
  <2>4. CASE Matches(bucket[i], i, call[c].key) /\ Result(c, i, call[c].key)
    BY <1>6, <2>2, <2>3, <2>4, FoundStep DEF GetListed, Matches
  <2>5. CASE UNCHANGED last
    BY <1>6, <2>5, Stutter DEF GetListed
  <2> QED
    BY <1>6, <2>4, <2>5 DEF GetListed, i
<1>7. CASE NotFound(c)
  <2> DEFINE key == call[c].key
  <2>1. Searching(c) /\ key.f \in Fields /\ key.id \in Ids \cup {None}
    BY <1>7, SearchingType DEF NotFound
  <2>2. kept[c] = {}
    BY <1>7 DEF NotFound, SearchInv, KeptIsAhead
  <2>3. CASE \E i \in Ids : Wanted(bucket[i], i, key)
    BY <1>7, <2>2, <2>3 DEF DepartsIn, Overlooks
  <2>4. CASE \A i \in Ids : ~Wanted(bucket[i], i, key)
    <3>1. ASSUME NEW i \in IF key.id = None THEN Ids ELSE {key.id}, bucket[i] # NoRow
          PROVE  \E x \in DOMAIN key.f : x \notin DOMAIN bucket[i].f \/ bucket[i].f[x] # key.f[x]
      <4>1. i \in Ids
        BY <2>1, <3>1
      <4> QED
        BY <2>4, <3>1, <4>1 DEF Wanted
    <3>2. \A i \in IF key.id = None THEN Ids ELSE {key.id} :
            /\ i \in Ids
            /\ bucket[i] # NoRow =>
                 \E x \in DOMAIN key.f : x \notin DOMAIN bucket[i].f \/ bucket[i].f[x] # key.f[x]
      BY <2>1, <3>1
    <3>3. Returns(c, "Find", key.id, key.f, "false", NoRow) /\ bucket' = bucket
      BY <1>7 DEF NotFound
    <3>4. \A x \in DOMAIN key.f : key.f[x] # Null
      BY <2>1, SearchingType, KeyValues DEF Search
    <3> HIDE DEF key
    <3> QED
      BY <2>1, <3>2, <3>3, <3>4, MissingStep
  <2> QED
    BY <2>3, <2>4
<1>8. CASE Panics(c)
  <2>1. call[c].op \in Calls
    BY <1>8 DEF Panics, TypeOK, Writing, Search, Calls
  <2> QED
    BY <1>8, <2>1, NoFieldsType, FailingStep DEF Panics, Outcomes
<1> QED
  BY <1>2, <1>3, <1>4, <1>5, <1>6, <1>7, <1>8 DEF Continue

\* So is every other step, and none of them departs.
LEMMA ContractStep ==
  ASSUME TypeOK, SearchInv, CheckStands, Next
  PROVE  Contract!Next \/ UNCHANGED Contract!vars \/ Departs
<1>1. ASSUME NEW c \in Callers, NEW id \in Ids, NEW o, o.f \in Fields,
             NEW op \in {"Insert", "Update", "Delete"}, CheckExists(c, op, id, o)
      PROVE  Contract!Next \/ UNCHANGED Contract!vars
  <2>1. CASE UNCHANGED last
    BY <1>1, <2>1, Stutter DEF CheckExists
  <2>2. CASE bucket[id] = NoRow /\ op # "Insert" /\ Returns(c, op, id, o.f, "false", NoRow)
    BY <1>1, <2>2, MissStep DEF CheckExists
  <2>3. CASE Fails(c, op)
    BY <1>1, <2>3, NoFieldsType, FailingStep DEF CheckExists, Fails, Calls, Outcomes
  <2> QED
    BY <1>1, <2>1, <2>2, <2>3 DEF CheckExists
<1>2. \A o \in Writes : o.f \in Fields
  BY WritesAssumption DEF Objects
<1>3. ASSUME NEW c \in Callers, NEW id \in Ids, FindByID(c, id)
      PROVE  Contract!Next \/ UNCHANGED Contract!vars
  <2> DEFINE key == Key(id, NoFields)
  <2>1. key.f = NoFields /\ DOMAIN NoFields = {}
    BY DEF Key, NoFields
  <2> HIDE DEF key
  <2>2. CASE bucket[id] # NoRow /\ Result(c, id, key)
    BY <1>3, <2>1, <2>2, NoFieldsType, FoundStep DEF FindByID
  <2>3. CASE bucket[id] = NoRow /\ Returns(c, "Find", id, NoFields, "false", NoRow)
    <3>1. \A i \in IF id = None THEN Ids ELSE {id} : i \in Ids /\ bucket[i] = NoRow
      BY <2>3, NoneAssumption
    <3>2. DOMAIN NoFields = {}
      BY DEF NoFields
    <3> QED
      BY <1>3, <2>3, <3>1, <3>2, NoFieldsType, MissingStep DEF FindByID
  <2>4. CASE Fails(c, "Find")
    BY <1>3, <2>4, NoFieldsType, FailingStep DEF FindByID, Fails, Calls, Outcomes
  <2> QED
    BY <1>3, <2>2, <2>3, <2>4 DEF FindByID, key
<1>4. ASSUME NEW c \in Callers, NEW key, FindByKey(c, key) PROVE UNCHANGED Contract!vars
  BY <1>4, Stutter DEF FindByKey
<1>5. ASSUME NEW c \in Callers, BeginTx(c) \/ EndTx(c, "Commit") \/ EndTx(c, "Rollback")
      PROVE  Contract!Next
  BY <1>5, NoFieldsType, FailingStep DEF BeginTx, EndTx, Calls, Outcomes
<1>6. ASSUME NEW c \in Callers, NEW op \in {"Insert", "Update", "Delete", "Find"}, Refuse(c, op)
      PROVE  Contract!Next
  BY <1>6, NoFieldsType, FailingStep DEF Refuse, Fails, Calls, Outcomes
<1>7. CASE Connect \/ ResetConnection
  BY <1>7, Stutter DEF Connect, ResetConnection
<1>8. NoFields \in Fields
  BY NoFieldsType
<1>9. ASSUME NEW c \in Callers, Continue(c)
      PROVE  Contract!Next \/ UNCHANGED Contract!vars \/ Departs
  BY <1>9, ContinueStep DEF DepartsIn, Departs
<1> QED
  BY <1>1, <1>2, <1>3, <1>4, <1>5, <1>6, <1>7, <1>8, <1>9 DEF Next

\* However many callers share the storage, each of their calls is atomic and
\* tells what happened, but for a put over an object with values that it does not
\* give, an update that puts back an object deleted after its check, a delete of
\* an object that was deleted after its check, and a search that overlooks an
\* object that was stored while it looked, or that it could not get.
THEOREM DepartsOnlyAsKnown ==
  ASSUME Searchable
  PROVE  Spec => DepartsAsKnown
<1>1. TypeOK /\ SearchInv /\ CheckStands /\ [Next]_vars
        => [Contract!Next \/ UNCHANGED Contract!vars \/ Departs]_vars
  BY ContractStep
<1> QED
  BY <1>1, ChecksStand, SearchInvariant, PTL DEF Spec, DepartsAsKnown

-----------------------------------------------------------------------------
(* The contract, with a single caller.                                     *)

\* Nobody has crossed the call: its caller races with nobody.
LEMMA NoRaceAlone ==
  ASSUME Undisturbed, "get" \notin Faults, Departs
  PROVE  \E c \in Callers : DropsFields(c)
<1>1. ASSUME NEW c \in Callers PROVE ~Overlooks(c)
  BY DEF Overlooks, NotFound, Undisturbed
<1> QED
  BY <1>1 DEF Departs, PutsBack, DeletesNothing, Undisturbed

\* Initially the table of the contract is empty too.
LEMMA StartsEmpty == Init => Contract!Init
  BY DEF Init, Contract!Init, Contract!Clean, AsRow

\* The steps of a single caller.
LEMMA StepsAlone ==
  ASSUME Alone, "get" \notin Faults, TypeOK, CheckStands, Undisturbed, SearchInv, [Next]_vars
  PROVE  Contract!Next \/ UNCHANGED Contract!vars \/ \E c \in Callers : DropsFields(c)
<1>1. ASSUME UNCHANGED vars PROVE UNCHANGED Contract!vars
  BY <1>1, Stutter DEF vars
<1> QED
  BY <1>1, ContractStep, NoRaceAlone

\* For a single caller that stores objects which repeat their ID, where every
\* GetObject gets an answer and apart from transactions, the S3 adapter departs
\* from the contract only where a put drops fields: although each call is several
\* requests that may fail with or without effect, what the caller is told is what
\* happened, in one step.
THEOREM AloneDropsOnlyFields ==
  ASSUME Alone, Searchable, "get" \notin Faults
  PROVE  Spec => DropsOnlyFields
<1>1. TypeOK /\ CheckStands /\ Undisturbed /\ SearchInv /\ [Next]_vars
        => [Contract!Next \/ UNCHANGED Contract!vars \/ \E c \in Callers : DropsFields(c)]_vars
  BY StepsAlone
<1> QED
  BY <1>1, StartsEmpty, AloneInvariant, SearchInvariant, PTL DEF Spec, DropsOnlyFields

\* Objects that are stored whole have nothing to drop.
Complete == \A o \in Writes : DOMAIN o.f = Cols

WholeObjects ==
  /\ \A i \in Ids : bucket[i] # NoRow => DOMAIN bucket[i].f = Cols
  /\ \A c \in Callers :
       call[c] # None /\ call[c].op \in {"Insert", "Update"} => DOMAIN call[c].obj.f = Cols

\* Objects in the bucket and on their way to it stay whole.
LEMMA WholeStep ==
  ASSUME Complete, TypeOK, WholeObjects, Next
  PROVE  WholeObjects'
<1> DEFINE Whole(c) == (call[c] # None /\ call[c].op \in {"Insert", "Update"}
                          => DOMAIN call[c].obj.f = Cols)'
<1>1. ASSUME NEW c \in Callers, call' = [call EXCEPT ![c] = None] PROVE \A d \in Callers : Whole(d)
  BY <1>1 DEF TypeOK, WholeObjects
<1>2. ASSUME bucket' = bucket PROVE \A i \in Ids : bucket'[i] # NoRow => DOMAIN bucket'[i].f = Cols
  BY <1>2 DEF WholeObjects
<1>3. ASSUME NEW c \in Callers, NEW id, NEW o, NEW op, op \in {"Insert", "Update"} => DOMAIN o.f = Cols,
             CheckExists(c, op, id, o)
      PROVE  WholeObjects'
  <2>1. CASE call' = [call EXCEPT ![c] = Pending(op, id, o)]
    <3>1. \A d \in Callers : call'[d] = IF d = c THEN Pending(op, id, o) ELSE call[d]
      BY <2>1 DEF TypeOK
    <3>2. \A d \in Callers : Whole(d)
      BY <1>3, <3>1 DEF WholeObjects, Pending
    <3> QED
      BY <1>2, <1>3, <3>2 DEF WholeObjects, CheckExists
  <2>2. CASE call' = [call EXCEPT ![c] = None]
    BY <1>1, <1>2, <1>3, <2>2 DEF WholeObjects, CheckExists
  <2> QED
    BY <1>3, <2>1, <2>2 DEF CheckExists, Fails, Returns
<1>4. ASSUME NEW c \in Callers, NEW key, FindByKey(c, key) PROVE WholeObjects'
  <2>1. call'[c].op = "Find" /\ \A d \in Callers \ {c} : call'[d] = call[d]
    BY <1>4 DEF FindByKey, TypeOK
  <2>2. \A d \in Callers : Whole(d)
    BY <2>1 DEF WholeObjects
  <2> QED
    BY <1>2, <1>4, <2>2 DEF WholeObjects, FindByKey
<1>5. ASSUME NEW c \in Callers, NEW stored, stored # NoRow => DOMAIN stored.f = Cols,
             call[c].id \in Ids, call' = [call EXCEPT ![c] = None],
             Stores(c, stored) \/ bucket' = bucket
      PROVE  WholeObjects'
  <2>1. \A i \in Ids : bucket'[i] # NoRow => DOMAIN bucket'[i].f = Cols
    BY <1>5 DEF Stores, TypeOK, WholeObjects
  <2> QED
    BY <1>1, <1>5, <2>1 DEF WholeObjects
<1>6. ASSUME NEW c \in Callers, PutInserted(c) PROVE WholeObjects'
  <2>1. call[c].id \in Ids /\ DOMAIN call[c].obj.f = Cols
    BY <1>6, SendingType DEF PutInserted, Sending, WholeObjects
  <2> QED
    BY <1>5, <1>6, <2>1 DEF PutInserted, RequestFails, Returns
<1>7. ASSUME NEW c \in Callers, PutUpdated(c) PROVE WholeObjects'
  <2>1. call[c].id \in Ids /\ DOMAIN call[c].obj.f = Cols
    BY <1>7, SendingType DEF PutUpdated, Sending, WholeObjects
  <2> QED
    BY <1>5, <1>7, <2>1 DEF PutUpdated, RequestFails, Returns
<1>8. ASSUME NEW c \in Callers, DeleteObject(c) PROVE WholeObjects'
  <2>1. call[c].id \in Ids
    BY <1>8, SendingType DEF DeleteObject
  <2> QED
    BY <1>5, <1>8, <2>1 DEF DeleteObject, RequestFails, Returns
<1>9. ASSUME NEW c \in Callers, NextPage(c) \/ GetListed(c) PROVE WholeObjects'
  <2>1. call[c] \in Search
    BY <1>9, SearchingType DEF NextPage, GetListed, Sending, Searching
  <2>2. CASE call' = [call EXCEPT ![c] = None]
    BY <1>1, <1>2, <1>9, <2>2 DEF WholeObjects, NextPage, GetListed
  <2>3. ASSUME call'[c].op = "Find", \A d \in Callers \ {c} : call'[d] = call[d]
        PROVE  WholeObjects'
    <3>1. \A d \in Callers : Whole(d)
      BY <2>3 DEF WholeObjects
    <3> QED
      BY <1>2, <1>9, <3>1 DEF WholeObjects, NextPage, GetListed
  <2>4. CASE NextPage(c) /\ ~Fails(c, "Find")
    <3>1. \E page, more, cursor :
            call' = [call EXCEPT ![c].page = page, ![c].more = more, ![c].cursor = cursor]
      BY <2>4 DEF NextPage
    <3> QED
      BY <2>1, <2>3, <3>1 DEF TypeOK, Search
  <2>5. CASE GetListed(c) /\ call' # [call EXCEPT ![c] = None]
    <3>1. \E page : call' = [call EXCEPT ![c].page = page]
      BY <2>5 DEF GetListed, Result, Returns
    <3> QED
      BY <2>1, <2>3, <3>1 DEF TypeOK, Search
  <2> QED
    BY <1>9, <2>2, <2>4, <2>5 DEF Fails, Returns
<1>10. ASSUME NEW c \in Callers, NEW id, NEW op,
              NotFound(c) \/ Panics(c) \/ FindByID(c, id) \/ BeginTx(c) \/ EndTx(c, op) \/ Refuse(c, op)
       PROVE  WholeObjects'
  BY <1>1, <1>2, <1>10
     DEF WholeObjects, NotFound, Panics, FindByID, Result, BeginTx, EndTx, Refuse, Fails, Returns
<1>11. CASE Connect \/ ResetConnection
  BY <1>11 DEF Connect, ResetConnection, WholeObjects
<1>12. \A o \in Writes : DOMAIN o.f = Cols
  BY DEF Complete
<1> QED
  BY <1>3, <1>4, <1>6, <1>7, <1>8, <1>9, <1>10, <1>11, <1>12 DEF Next, Continue

\* The objects in the bucket are whole, and those on their way to it.
LEMMA StaysWhole ==
  ASSUME Complete
  PROVE  Spec => []WholeObjects
<1>1. Init => WholeObjects
  BY DEF Init, WholeObjects
<1>2. TypeOK /\ WholeObjects /\ [Next]_vars => WholeObjects'
  BY WholeStep DEF vars, WholeObjects
<1> QED
  BY <1>1, <1>2, TypeCorrect, PTL DEF Spec

\* Whole objects are put over whole objects: nothing is dropped.
LEMMA DropsNothing ==
  ASSUME TypeOK, WholeObjects, NEW c \in Callers
  PROVE  ~DropsFields(c)
<1>1. SUFFICES ASSUME DropsFields(c) PROVE FALSE
  OBVIOUS
<1>2. PICK op \in {"Insert", "Update"} : Sending(c, op)
  BY <1>1 DEF DropsFields, PutInserted, PutUpdated
<1>3. call[c].id \in Ids /\ DOMAIN call[c].obj.f = Cols
  BY <1>2, SendingType DEF Sending, WholeObjects
<1> QED
  BY <1>1, <1>3 DEF DropsFields, WholeObjects

\* A single caller whose objects all have a value in every column sees the
\* contract kept.
THEOREM AloneImplementsContract ==
  ASSUME Alone, Searchable, Complete, "get" \notin Faults
  PROVE  Spec => ImplementsContract
<1>1. TypeOK /\ CheckStands /\ Undisturbed /\ SearchInv /\ WholeObjects /\ [Next]_vars
        => [Contract!Next]_(Contract!vars)
  BY StepsAlone, DropsNothing
<1> QED
  BY <1>1, StartsEmpty, AloneInvariant, SearchInvariant, StaysWhole, PTL
  DEF Spec, ImplementsContract, Contract!Spec
=============================================================================
