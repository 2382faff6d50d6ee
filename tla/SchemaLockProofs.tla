---------------------------- MODULE SchemaLockProofs ----------------------------
(***************************************************************************)
(* The lock of schema.Schema keeps readers and writers of the table map    *)
(* apart, for any number of goroutines and with the nested locking of the  *)
(* ScyllaDB adapter, as long as nobody is in CreateTables.                 *)
(*                                                                         *)
(* TypeOK and IInv are inductive together: AddTable stores the name it was *)
(* called with, which Engaged says is a table's.                           *)
(*                                                                         *)
(* That lock is also where every call of the ScyllaDB adapter ends: the    *)
(* second part proves that it never returns, and what it takes along; the  *)
(* third, that there is no other deadlock.                                 *)
(***************************************************************************)
EXTENDS SchemaLock, TLAPS

Inductive == TypeOK /\ IInv

\* Initially no one is in a call.
LEMMA InitInductive == Init => Inductive
  BY DEF Init, Inductive, TypeOK, IInv, Exclusion, Engaged, AllOps

\* Every action keeps the types of the variables.
LEMMA TypeStep == Inductive /\ [Next]_vars => TypeOK'
<1> SUFFICES ASSUME TypeOK, Engaged, [Next]_vars PROVE TypeOK'
  BY DEF Inductive, IInv
<1>1. ASSUME NEW g \in Goroutines, NEW o \in Ops, NEW n \in Names \cup {None}, Call(g, o, n)
      PROVE  TypeOK'
  <2>1. o \in AllOps /\ Entry(o) \in {"ranging", "rlock", "lock"}
    BY OpsAssumption DEF Entry
  <2> QED
    BY <1>1, <2>1 DEF TypeOK, Call
<1>2. ASSUME NEW g \in Goroutines, Announce(g) PROVE TypeOK'
  BY <1>2 DEF TypeOK, Announce
<1>3. ASSUME NEW g \in Goroutines, RLock(g) PROVE TypeOK'
  BY <1>3 DEF TypeOK, RLock
<1>4. ASSUME NEW g \in Goroutines, Lock(g) PROVE TypeOK'
  BY <1>4 DEF TypeOK, Lock
<1>5. ASSUME NEW g \in Goroutines, AddTable(g) PROVE TypeOK'
  <2>1. name[g] \in Names
    BY <1>5 DEF TypeOK, Engaged, AddTable
  <2> QED
    BY <1>5, <2>1 DEF TypeOK, AddTable, Unlocking, Waiting
<1>6. ASSUME NEW g \in Goroutines, ScyllaGetTable(g) PROVE TypeOK'
  BY <1>6 DEF TypeOK, ScyllaGetTable
<1>7. ASSUME NEW g \in Goroutines, GetTable(g) PROVE TypeOK'
  BY <1>7 DEF TypeOK, GetTable, Found, Unlocking, Waiting
<1>8. ASSUME NEW g \in Goroutines, CreateTables(g) PROVE TypeOK'
  BY <1>8 DEF TypeOK, CreateTables
<1>9. CASE UNCHANGED vars
  BY <1>9 DEF TypeOK, vars
<1> QED
  BY <1>1, <1>2, <1>3, <1>4, <1>5, <1>6, <1>7, <1>8, <1>9 DEF Next, Continue

\* Every action keeps writers alone: a reader enters only when there is no
\* writer, a writer only when there is no reader, and only one is announced.
LEMMA ExclusionStep == Inductive /\ [Next]_vars => Exclusion'
<1> SUFFICES ASSUME TypeOK, Exclusion, [Next]_vars PROVE Exclusion'
  BY DEF Inductive, IInv
<1> USE NoneAssumption
<1>1. ASSUME NEW g \in Goroutines, NEW o \in Ops, NEW n \in Names \cup {None}, Call(g, o, n)
      PROVE  Exclusion'
  <2>1. Entry(o) \in {"ranging", "rlock", "lock"}
    BY OpsAssumption DEF Entry
  <2> QED
    BY <1>1, <2>1 DEF TypeOK, Exclusion, Call
<1>2. ASSUME NEW g \in Goroutines, Announce(g) PROVE Exclusion'
  BY <1>2 DEF TypeOK, Exclusion, Announce
<1>3. ASSUME NEW g \in Goroutines, RLock(g) PROVE Exclusion'
  BY <1>3 DEF TypeOK, Exclusion, RLock
<1>4. ASSUME NEW g \in Goroutines, Lock(g) PROVE Exclusion'
  BY <1>4 DEF TypeOK, Exclusion, Lock
<1>5. ASSUME NEW g \in Goroutines, AddTable(g) PROVE Exclusion'
  BY <1>5 DEF TypeOK, Exclusion, AddTable, Unlocking, Waiting
<1>6. ASSUME NEW g \in Goroutines, ScyllaGetTable(g) PROVE Exclusion'
  BY <1>6 DEF TypeOK, Exclusion, ScyllaGetTable
<1>7. ASSUME NEW g \in Goroutines, GetTable(g) PROVE Exclusion'
  <2>1. CASE writer = g
    BY <1>7, <2>1 DEF TypeOK, Exclusion, GetTable, Unlocking, Waiting
  <2>2. CASE writer # g
    BY <1>7, <2>2 DEF TypeOK, Exclusion, GetTable
  <2> QED
    BY <2>1, <2>2
<1>8. ASSUME NEW g \in Goroutines, CreateTables(g) PROVE Exclusion'
  BY <1>8 DEF TypeOK, Exclusion, CreateTables
<1>9. CASE UNCHANGED vars
  BY <1>9 DEF Exclusion, vars
<1> QED
  BY <1>1, <1>2, <1>3, <1>4, <1>5, <1>6, <1>7, <1>8, <1>9 DEF Next, Continue

\* A goroutine keeps its operation and its table until the call returns.
LEMMA EngagedStep == Inductive /\ [Next]_vars => Engaged'
<1> SUFFICES ASSUME TypeOK, Engaged, [Next]_vars PROVE Engaged'
  BY DEF Inductive, IInv
<1>1. ASSUME NEW g \in Goroutines, NEW o \in Ops, NEW n \in Names \cup {None}, Call(g, o, n)
      PROVE  Engaged'
  <2>1. Entry(o) = "ranging" => o = "CreateTables"
    BY OpsAssumption DEF Entry
  <2> QED
    BY <1>1, <2>1 DEF TypeOK, Engaged, Call, Accepts
<1>2. ASSUME NEW g \in Goroutines, Announce(g) PROVE Engaged'
  BY <1>2 DEF TypeOK, Engaged, Announce
<1>3. ASSUME NEW g \in Goroutines, RLock(g) PROVE Engaged'
  BY <1>3 DEF TypeOK, Engaged, RLock
<1>4. ASSUME NEW g \in Goroutines, Lock(g) PROVE Engaged'
  BY <1>4 DEF TypeOK, Engaged, Lock
<1>5. ASSUME NEW g \in Goroutines, AddTable(g) PROVE Engaged'
  BY <1>5 DEF TypeOK, Engaged, AddTable, Unlocking, Waiting
<1>6. ASSUME NEW g \in Goroutines, ScyllaGetTable(g) PROVE Engaged'
  BY <1>6 DEF TypeOK, Engaged, ScyllaGetTable
<1>7. ASSUME NEW g \in Goroutines, GetTable(g) PROVE Engaged'
  BY <1>7 DEF TypeOK, Engaged, GetTable, Unlocking, Waiting
<1>8. ASSUME NEW g \in Goroutines, CreateTables(g) PROVE Engaged'
  BY <1>8 DEF TypeOK, Engaged, CreateTables
<1>9. CASE UNCHANGED vars
  BY <1>9 DEF Engaged, vars
<1> QED
  BY <1>1, <1>2, <1>3, <1>4, <1>5, <1>6, <1>7, <1>8, <1>9 DEF Next, Continue

\* The inductive invariant, for any goroutines, tables and operations.
THEOREM LockInvariant == Spec => [](TypeOK /\ IInv)
<1>1. Inductive /\ [Next]_vars => Inductive'
  BY TypeStep, ExclusionStep, EngagedStep DEF Inductive, IInv
<1>2. Spec => []Inductive
  BY InitInductive, <1>1, PTL DEF Spec
<1> QED
  BY <1>2, PTL DEF Inductive

\* The variables of the lock and of its callers have their types.
THEOREM TypeCorrect == Spec => []TypeOK
  BY LockInvariant, PTL

\* GetTable, AddTable and the ScyllaDB adapter's calls never race on the map of
\* tables, for any number of goroutines.
THEOREM TablesGuarded == Spec => []NoRace
<1>1. TypeOK /\ IInv => NoRace
  BY DEF IInv, Exclusion, NoRace, TypeOK
<1> QED
  BY <1>1, LockInvariant, PTL

-----------------------------------------------------------------------------
(* The nested locking of the ScyllaDB adapter.                             *)

\* A call of the ScyllaDB adapter gets as far as its own GetTable, and the lock
\* it then holds keeps everyone out: it never reads and never comes back.
SelfLocking ==
  /\ \A g \in Goroutines : op[g] = "Scylla" =>
       /\ pc[g] \in {"lock", "drain", "locked", "rlock", "rwait"}
       /\ pc[g] \in {"rlock", "rwait"} => writer = g /\ readers = {}
  /\ \A g \in Goroutines : writer = g => pc[g] \in {"drain", "locked"} \/ op[g] = "Scylla"

\* A waiting call of the ScyllaDB adapter is the only one that holds the lock.
LEMMA NobodyUnlocks ==
  ASSUME TypeOK, IInv, SelfLocking,
         NEW g \in Goroutines, AddTable(g) \/ GetTable(g),
         NEW h \in Goroutines, op[h] = "Scylla"
  PROVE  /\ h # g
         /\ pc[h] \notin {"rlock", "rwait"}
         /\ GetTable(g) => writer # g
<1> USE NoneAssumption DEF TypeOK, IInv, Exclusion, SelfLocking
<1>1. CASE AddTable(g)
  <2>1. pc[g] = "locked" /\ op[g] = "AddTable" /\ writer = g
    BY <1>1 DEF AddTable
  <2> QED
    BY <2>1 DEF GetTable
<1>2. CASE GetTable(g)
  <2>1. pc[g] = "reading" /\ g \in readers
    BY <1>2 DEF GetTable
  <2>2. op[g] # "Scylla"
    BY <2>1
  <2> QED
    BY <2>1, <2>2
<1> QED
  BY <1>1, <1>2

\* Every action keeps it that way.
LEMMA SelfLockingStep == TypeOK /\ IInv /\ SelfLocking /\ [Next]_vars => SelfLocking'
<1> SUFFICES ASSUME TypeOK, IInv, SelfLocking, [Next]_vars PROVE SelfLocking'
  OBVIOUS
<1> USE NoneAssumption DEF TypeOK
<1>1. ASSUME NEW g \in Goroutines, NEW o \in Ops, NEW n \in Names \cup {None}, Call(g, o, n)
      PROVE  SelfLocking'
  <2>1. Entry(o) \in {"ranging", "rlock", "lock"} /\ (o = "Scylla" => Entry(o) = "lock")
    BY DEF Entry
  <2>2. writer # g /\ op[g] # "Scylla"
    BY <1>1 DEF SelfLocking, Call
  <2> QED
    BY <1>1, <2>1, <2>2 DEF SelfLocking, Call
<1>2. ASSUME NEW g \in Goroutines, Announce(g) PROVE SelfLocking'
  BY <1>2 DEF SelfLocking, Announce
<1>3. ASSUME NEW g \in Goroutines, RLock(g) PROVE SelfLocking'
  BY <1>3 DEF SelfLocking, RLock
<1>4. ASSUME NEW g \in Goroutines, Lock(g) PROVE SelfLocking'
  BY <1>4 DEF SelfLocking, Lock
<1>5. ASSUME NEW g \in Goroutines, AddTable(g) PROVE SelfLocking'
  <2>1. ASSUME NEW h \in Goroutines, op[h] = "Scylla"
        PROVE  pc'[h] = pc[h] /\ pc[h] \notin {"rlock", "rwait"}
    BY <1>5, <2>1, NobodyUnlocks DEF AddTable, Unlocking, Waiting
  <2> QED
    BY <1>5, <2>1 DEF SelfLocking, AddTable, Unlocking
<1>6. ASSUME NEW g \in Goroutines, ScyllaGetTable(g) PROVE SelfLocking'
  BY <1>6 DEF SelfLocking, ScyllaGetTable, IInv, Exclusion
<1>7. ASSUME NEW g \in Goroutines, GetTable(g) PROVE SelfLocking'
  <2>1. writer # g
    <3>1. pc[g] = "reading"
      BY <1>7 DEF GetTable
    <3> QED
      BY <3>1 DEF SelfLocking
  <2>2. ASSUME NEW h \in Goroutines, op[h] = "Scylla"
        PROVE  h # g /\ pc[h] \notin {"rlock", "rwait"}
    BY <1>7, <2>2, NobodyUnlocks
  <2> QED
    BY <1>7, <2>1, <2>2 DEF SelfLocking, GetTable
<1>8. ASSUME NEW g \in Goroutines, CreateTables(g) PROVE SelfLocking'
  BY <1>8 DEF SelfLocking, CreateTables
<1>9. CASE UNCHANGED vars
  BY <1>9 DEF SelfLocking, vars
<1> QED
  BY <1>1, <1>2, <1>3, <1>4, <1>5, <1>6, <1>7, <1>8, <1>9 DEF Next, Continue

\* It holds throughout.
LEMMA SelfLockingAlways == Spec => [](TypeOK /\ IInv /\ SelfLocking)
<1>1. Init => SelfLocking
  BY NoneAssumption DEF Init, SelfLocking
<1> QED
  BY <1>1, SelfLockingStep, LockInvariant, PTL DEF Spec

\* No Insert, Update or FindByKey of the ScyllaDB adapter ever returns, whatever
\* the others do: a goroutine whose last call is one of them is still in it.
THEOREM ScyllaNeverReturns ==
  Spec => [](\A g \in Goroutines : op[g] = "Scylla" => pc[g] # "idle")
<1>1. SelfLocking => \A g \in Goroutines : op[g] = "Scylla" => pc[g] # "idle"
  BY DEF SelfLocking
<1> QED
  BY <1>1, SelfLockingAlways, PTL

\* Once such a call waits for its own lock it does so for good, no table is added
\* any more, and no call returns but that of a CreateTables, which takes no lock.
THEOREM SelfLockIsFinal ==
  Spec => [][SelfLocked =>
               /\ SelfLocked'
               /\ tables' = tables
               /\ \A g \in Goroutines :
                    pc[g] # "idle" /\ pc'[g] = "idle" => op[g] = "CreateTables"]_vars
<1> DEFINE Stays == /\ SelfLocked'
                    /\ tables' = tables
                    /\ \A g \in Goroutines :
                         pc[g] # "idle" /\ pc'[g] = "idle" => op[g] = "CreateTables"
<1>1. TypeOK /\ IInv /\ SelfLocking /\ [Next]_vars => (SelfLocked => Stays)
  <2> SUFFICES ASSUME TypeOK, IInv, SelfLocking, [Next]_vars, SelfLocked
               PROVE  Stays
    OBVIOUS
  <2> USE NoneAssumption DEF TypeOK
  <2>1. PICK h \in Goroutines : op[h] = "Scylla" /\ writer = h /\ pc[h] = "rwait"
    BY DEF SelfLocked
  <2>2. ASSUME NEW g \in Goroutines, NEW o \in Ops, NEW n \in Names \cup {None}, Call(g, o, n)
        PROVE  Stays
    BY <2>1, <2>2 DEF Call, Entry, SelfLocked
  <2>3. ASSUME NEW g \in Goroutines, Announce(g) PROVE FALSE
    BY <2>1, <2>3 DEF Announce
  <2>4. ASSUME NEW g \in Goroutines, RLock(g) \/ Lock(g) \/ ScyllaGetTable(g) PROVE Stays
    BY <2>1, <2>4 DEF RLock, Lock, ScyllaGetTable, SelfLocked
  <2>5. ASSUME NEW g \in Goroutines, AddTable(g) \/ GetTable(g) PROVE FALSE
    BY <2>1, <2>5, NobodyUnlocks
  <2>6. ASSUME NEW g \in Goroutines, CreateTables(g) PROVE Stays
    BY <2>1, <2>6 DEF CreateTables, SelfLocked, IInv, Engaged
  <2>7. CASE UNCHANGED vars
    BY <2>1, <2>7 DEF vars, SelfLocked
  <2> QED
    BY <2>2, <2>3, <2>4, <2>5, <2>6, <2>7 DEF Next, Continue
<1> QED
  BY <1>1, SelfLockingAlways, PTL DEF Spec

-----------------------------------------------------------------------------
(* Nothing but that can stop everyone.                                     *)

\* What g waits for has come: g can go on, or become the next writer.
CanGoOn(g) ==
  \/ pc[g] \in {"ranging", "rlock", "reading", "locked"}
  \/ pc[g] = "lock" /\ writer = None
  \/ pc[g] = "drain" /\ readers = {}

\* A reader waits for a writer, a writer for readers that read or for another one.
WaitsForSomeone ==
  /\ \A g \in readers : pc[g] = "reading"
  /\ \A g \in Goroutines : pc[g] = "lock" => writer # g
  /\ \A g \in Goroutines : pc[g] = "rwait" => writer # None

\* It holds initially, and every action keeps it: the end of a writer lets the
\* waiting readers in.
LEMMA WaitsForSomeoneAlways == Spec => [](TypeOK /\ IInv /\ SelfLocking /\ WaitsForSomeone)
<1>1. Init => WaitsForSomeone
  BY DEF Init, WaitsForSomeone
<1>2. TypeOK /\ IInv /\ SelfLocking /\ WaitsForSomeone /\ [Next]_vars => WaitsForSomeone'
  <2> SUFFICES ASSUME TypeOK, IInv, SelfLocking, WaitsForSomeone, [Next]_vars
               PROVE  WaitsForSomeone'
    OBVIOUS
  <2> USE NoneAssumption DEF TypeOK, WaitsForSomeone
  <2>1. ASSUME NEW g \in Goroutines, NEW o \in Ops, NEW n \in Names \cup {None}, Call(g, o, n)
        PROVE  WaitsForSomeone'
    <3>1. Entry(o) # "rwait"
      BY DEF Entry
    <3>2. writer # g
      BY <2>1 DEF Call, SelfLocking
    <3> QED
      BY <2>1, <3>1, <3>2 DEF Call
  <2>2. ASSUME NEW g \in Goroutines, Announce(g) PROVE WaitsForSomeone'
    BY <2>2 DEF Announce
  <2>3. ASSUME NEW g \in Goroutines, RLock(g) PROVE WaitsForSomeone'
    BY <2>3 DEF RLock
  <2>4. ASSUME NEW g \in Goroutines, Lock(g) \/ ScyllaGetTable(g) \/ CreateTables(g)
        PROVE  WaitsForSomeone'
    BY <2>4 DEF Lock, ScyllaGetTable, CreateTables
  <2>5. ASSUME NEW g \in Goroutines, AddTable(g) PROVE WaitsForSomeone'
    BY <2>5 DEF AddTable, Unlocking, Waiting
  <2>6. ASSUME NEW g \in Goroutines, GetTable(g) PROVE WaitsForSomeone'
    BY <2>6 DEF GetTable, Unlocking, Waiting
  <2>7. CASE UNCHANGED vars
    BY <2>7 DEF vars
  <2> QED
    BY <2>1, <2>2, <2>3, <2>4, <2>5, <2>6, <2>7 DEF Next, Continue
<1> QED
  BY <1>1, <1>2, SelfLockingAlways, PTL DEF Spec

\* As long as some call has not returned, somebody can go on, unless a call of
\* the ScyllaDB adapter waits for its own lock: readers and writers never wait
\* for each other in a circle, however many there are.
THEOREM NobodyStuck ==
  Spec => []((\E g \in Goroutines : pc[g] # "idle")
               => SelfLocked \/ \E g \in Goroutines : CanGoOn(g))
<1> DEFINE Free == (\E g \in Goroutines : pc[g] # "idle")
                     => SelfLocked \/ \E g \in Goroutines : CanGoOn(g)
<1>1. TypeOK /\ IInv /\ SelfLocking /\ WaitsForSomeone => Free
  <2> SUFFICES ASSUME TypeOK, SelfLocking, WaitsForSomeone,
                      NEW g \in Goroutines, pc[g] # "idle"
               PROVE  SelfLocked \/ \E h \in Goroutines : CanGoOn(h)
    BY DEF Free
  <2> USE DEF TypeOK
  <2>1. CASE readers # {}
    <3>1. PICK h \in readers : pc[h] = "reading"
      BY <2>1 DEF WaitsForSomeone
    <3> QED
      BY <3>1 DEF CanGoOn
  <2>2. ASSUME readers = {}, NEW w \in Goroutines, writer = w
        PROVE  SelfLocked \/ CanGoOn(w)
    <3>1. CASE pc[w] \in {"drain", "locked"}
      BY <2>2, <3>1 DEF CanGoOn
    <3>2. CASE op[w] = "Scylla" /\ pc[w] \in {"lock", "rlock", "rwait"}
      <4>1. pc[w] # "lock"
        BY <2>2 DEF WaitsForSomeone
      <4> QED
        BY <2>2, <3>2, <4>1 DEF CanGoOn, SelfLocked
    <3> QED
      BY <2>2, <3>1, <3>2 DEF SelfLocking
  <2>3. CASE readers = {} /\ writer = None
    BY <2>3 DEF CanGoOn, WaitsForSomeone
  <2> QED
    BY <2>1, <2>2, <2>3
<1> QED
  BY <1>1, WaitsForSomeoneAlways, PTL
=============================================================================
