--------------------------- MODULE StorageLifeProofs ---------------------------
(***************************************************************************)
(* How a SQL storage comes to work, in two parts with nothing in common    *)
(* but the adapter.                                                        *)
(*                                                                         *)
(* CreateTables, for any programs, tables, adapters and faults: a storage  *)
(* has a schema only when the database has its tables, and where UNIQUE is *)
(* part of CREATE TABLE no unique column ever repeats a value. Each step    *)
(* of a program's call that is not a fault brings it nearer to its schema. *)
(*                                                                         *)
(* The connection, for any callers and handles: no call uses a nil handle, *)
(* and a reset that waits never waits for more than it did.                *)
(***************************************************************************)
EXTENDS TableCreation, Connection, TLAPS

-----------------------------------------------------------------------------
(* CreateTables.                                                           *)

Inv == TypeOK /\ IInv

\* The invariant holds at the start: no tables, and nobody is ready.
LEMMA InitInv == Init => Inv
  BY AdaptersAssumption, FaultsAssumption
  DEF Init, Inv, TypeOK, IInv, ReadyMeansCreated, LoopIsAhead, BornUnique

\* CREATE TABLE keeps the tables that are there, and their constraints.
LEMMA CreatedInv ==
  ASSUME Inv, NEW t \in Tables, Created(t)
  PROVE  /\ exists' = exists \cup {t}
         /\ exists' \subseteq Tables
         /\ constrained' \subseteq Tables
         /\ adapter \in Inline => exists' \cap UniqueTables \subseteq constrained'
  BY DEF Inv, TypeOK, IInv, BornUnique, Created, UniqueTables

\* Every action keeps the types.
LEMMA TypeStep == TypeOK /\ IInv /\ [Next]_vars => TypeOK'
<1> SUFFICES ASSUME TypeOK, IInv, [Next]_vars
             PROVE  TypeOK'
  OBVIOUS
<1> USE DEF TypeOK
<1>1. ASSUME NEW p \in Programs, CreateTables(p)
      PROVE  TypeOK'
  BY <1>1 DEF CreateTables
<1>2. ASSUME NEW p \in Programs, NEW t \in Tables, CreateTable(p, t)
      PROVE  TypeOK'
  BY <1>2, CreatedInv DEF CreateTable, Inv
<1>3. ASSUME NEW p \in Programs, NEW t \in Tables, CheckTable(p, t)
      PROVE  TypeOK'
  BY <1>3 DEF CheckTable
<1>4. ASSUME NEW p \in Programs, CreateChecked(p)
      PROVE  TypeOK'
  <2>1. table[p] \in Tables
    BY <1>4 DEF CreateChecked, IInv, LoopIsAhead
  <2>2. exists' \subseteq Tables /\ constrained' \subseteq Tables
    BY <1>4, <2>1, CreatedInv DEF CreateChecked, Inv
  <2> QED
    BY <1>4, <2>1, <2>2 DEF CreateChecked
<1>5. ASSUME NEW p \in Programs, AddConstraint(p)
      PROVE  TypeOK'
  <2>1. table[p] \in Tables
    BY <1>5 DEF AddConstraint, IInv, LoopIsAhead
  <2> QED
    BY <1>5, <2>1, FaultsAssumption DEF AddConstraint
<1>6. ASSUME NEW p \in Programs, SetSchema(p)
      PROVE  TypeOK'
  BY <1>6 DEF SetSchema
<1>7. ASSUME NEW p \in Programs, Refused(p)
      PROVE  TypeOK'
  BY <1>7 DEF Refused, Stops
<1>8. ASSUME NEW p \in Programs, Fails(p)
      PROVE  TypeOK'
  <2>1. exists' \subseteq Tables /\ constrained' \subseteq Tables
    <3>1. CASE Untouched
      BY <3>1 DEF Untouched
    <3>2. ASSUME NEW t \in todo[p], Created(t)
          PROVE  exists' \subseteq Tables /\ constrained' \subseteq Tables
      BY <3>2, CreatedInv DEF Inv
    <3>3. CASE at[p] = "create" /\ Created(table[p])
      BY <3>3, CreatedInv DEF Inv, IInv, LoopIsAhead
    <3> QED
      BY <1>8, <3>1, <3>2, <3>3 DEF Fails
  <2> QED
    BY <1>8, <2>1, FaultsAssumption DEF Fails, Stops
<1>9. ASSUME NEW p \in Programs, Crash(p)
      PROVE  TypeOK'
  BY <1>9, FaultsAssumption DEF Crash, Stops
<1>10. ASSUME NEW p \in Programs, NEW t \in Tables, InsertTwice(p, t)
       PROVE  TypeOK'
  BY <1>10 DEF InsertTwice
<1>11. CASE UNCHANGED vars
  BY <1>11 DEF vars
<1> QED
  BY <1>1, <1>2, <1>3, <1>4, <1>5, <1>6, <1>7, <1>8, <1>9, <1>10, <1>11
  DEF Next, Proceeds

\* Tables are never dropped and no other program's place changes: what p does
\* keeps IInv when it keeps it for p.
LEMMA OthersKeep ==
  ASSUME Inv, NEW p \in Programs,
         exists \subseteq exists', exists' \subseteq Tables,
         adapter' = adapter,
         \A q \in Programs \ {p} :
           ready'[q] = ready[q] /\ at'[q] = at[q] /\ table'[q] = table[q] /\ todo'[q] = todo[q],
         ready'[p] => exists' = Tables,
         at'[p] = "loop" => Tables \ todo'[p] \subseteq exists',
         at'[p] \in {"create", "constrain"} =>
           table'[p] \in Tables /\ Tables \ todo'[p] \subseteq exists',
         at'[p] = "constrain" => table'[p] \in exists',
         adapter \in Inline => exists' \cap UniqueTables \subseteq constrained'
  PROVE  IInv'
<1>1. ReadyMeansCreated'
  BY DEF Inv, IInv, ReadyMeansCreated
<1>2. LoopIsAhead'
  BY DEF Inv, IInv, LoopIsAhead
<1>3. BornUnique'
  BY DEF BornUnique, Inline, UniqueTables
<1> QED
  BY <1>1, <1>2, <1>3 DEF IInv

\* A call that ends early leaves what is there as it is.
LEMMA StoppedInv ==
  ASSUME Inv, NEW p \in Programs, Stops(p), UNCHANGED <<adapter, exists, constrained>>,
         ready' = ready \/ ready' = [ready EXCEPT ![p] = FALSE]
  PROVE  IInv'
<1>1. /\ at'[p] = "idle" /\ (ready'[p] => ready[p])
      /\ \A q \in Programs \ {p} :
           ready'[q] = ready[q] /\ at'[q] = at[q] /\ table'[q] = table[q] /\ todo'[q] = todo[q]
  BY DEF Stops, Inv, TypeOK
<1> QED
  BY <1>1, OthersKeep DEF Inv, TypeOK, IInv, ReadyMeansCreated, BornUnique

\* Every action keeps the invariant.
LEMMA InvStep == TypeOK /\ IInv /\ [Next]_vars => IInv'
<1> SUFFICES ASSUME TypeOK, IInv, [Next]_vars
             PROVE  IInv'
  OBVIOUS
<1> Inv
  BY DEF Inv
<1> USE DEF TypeOK
<1>1. ASSUME NEW p \in Programs, CreateTables(p)
      PROVE  IInv'
  BY <1>1, OthersKeep DEF CreateTables, IInv, ReadyMeansCreated, BornUnique
<1>2. ASSUME NEW p \in Programs, NEW t \in Tables, CreateTable(p, t)
      PROVE  IInv'
  <2>1. /\ exists' = exists \cup {t}
        /\ adapter \in Inline => exists' \cap UniqueTables \subseteq constrained'
    BY <1>2, CreatedInv DEF CreateTable
  <2>2. at'[p] = "loop" /\ Tables \ todo'[p] \subseteq exists'
    BY <1>2, <2>1 DEF CreateTable, IInv, LoopIsAhead
  <2> QED
    BY <1>2, <2>1, <2>2, OthersKeep DEF CreateTable, IInv, ReadyMeansCreated
<1>3. ASSUME NEW p \in Programs, NEW t \in Tables, CheckTable(p, t)
      PROVE  IInv'
  <2>1. CASE t \in exists
    <3>1. at'[p] = "loop" /\ Tables \ todo'[p] \subseteq exists'
      BY <1>3, <2>1 DEF CheckTable, IInv, LoopIsAhead
    <3> QED
      BY <1>3, <2>1, <3>1, OthersKeep DEF CheckTable, IInv, ReadyMeansCreated, BornUnique
  <2>2. CASE t \notin exists
    <3>1. at'[p] = "create" /\ table'[p] = t /\ Tables \ todo'[p] \subseteq exists'
      BY <1>3, <2>2 DEF CheckTable, IInv, LoopIsAhead
    <3> QED
      BY <1>3, <2>2, <3>1, OthersKeep DEF CheckTable, IInv, ReadyMeansCreated, BornUnique
  <2> QED
    BY <2>1, <2>2
<1>4. ASSUME NEW p \in Programs, CreateChecked(p)
      PROVE  IInv'
  <2>1. table[p] \in Tables /\ Tables \ todo[p] \subseteq exists
    BY <1>4 DEF CreateChecked, IInv, LoopIsAhead
  <2>2. /\ exists' = exists \cup {table[p]}
        /\ adapter \in Inline => exists' \cap UniqueTables \subseteq constrained'
    BY <1>4, <2>1, CreatedInv DEF CreateChecked
  <2>3. /\ Tables \ todo'[p] \subseteq exists'
        /\ \/ at'[p] = "loop"
           \/ at'[p] = "constrain" /\ table'[p] = table[p]
    BY <1>4, <2>1, <2>2 DEF CreateChecked
  <2> QED
    BY <1>4, <2>1, <2>2, <2>3, OthersKeep DEF CreateChecked, IInv, ReadyMeansCreated
<1>5. ASSUME NEW p \in Programs, AddConstraint(p)
      PROVE  IInv'
  <2>1. table[p] \in exists /\ Tables \ todo[p] \subseteq exists
    BY <1>5 DEF AddConstraint, IInv, LoopIsAhead
  <2>2. at'[p] = "loop" /\ Tables \ todo'[p] \subseteq exists'
    BY <1>5, <2>1 DEF AddConstraint
  <2>3. constrained \subseteq constrained'
    BY <1>5 DEF AddConstraint
  <2> QED
    BY <1>5, <2>2, <2>3, OthersKeep DEF AddConstraint, IInv, ReadyMeansCreated, BornUnique
<1>6. ASSUME NEW p \in Programs, SetSchema(p)
      PROVE  IInv'
  <2>1. exists = Tables /\ at'[p] = "idle"
    BY <1>6 DEF SetSchema, IInv, LoopIsAhead
  <2> QED
    BY <1>6, <2>1, OthersKeep DEF SetSchema, IInv, BornUnique
<1>7. ASSUME NEW p \in Programs, Refused(p)
      PROVE  IInv'
  BY <1>7, StoppedInv DEF Refused
<1>8. ASSUME NEW p \in Programs, Fails(p)
      PROVE  IInv'
  <2>1. CASE Untouched
    BY <1>8, <2>1, StoppedInv DEF Untouched, Fails
  <2>2. ASSUME NEW t \in Tables, Created(t)
        PROVE  IInv'
    <3>1. /\ exists' = exists \cup {t}
          /\ adapter \in Inline => exists' \cap UniqueTables \subseteq constrained'
      BY <2>2, CreatedInv
    <3>2. /\ at'[p] = "idle"
          /\ \A q \in Programs \ {p} :
               ready'[q] = ready[q] /\ at'[q] = at[q] /\ table'[q] = table[q] /\ todo'[q] = todo[q]
      BY <1>8 DEF Fails, Stops
    <3> QED
      BY <1>8, <3>1, <3>2, OthersKeep DEF Fails, IInv, ReadyMeansCreated
  <2>3. at[p] = "create" => table[p] \in Tables
    BY DEF IInv, LoopIsAhead
  <2> QED
    BY <1>8, <2>1, <2>2, <2>3 DEF Fails
<1>9. ASSUME NEW p \in Programs, Crash(p)
      PROVE  IInv'
  BY <1>9, StoppedInv DEF Crash
<1>10. ASSUME NEW p \in Programs, NEW t \in Tables, InsertTwice(p, t)
       PROVE  IInv'
  BY <1>10 DEF InsertTwice, IInv, ReadyMeansCreated, LoopIsAhead, BornUnique, UniqueTables, Inline
<1>11. CASE UNCHANGED vars
  BY <1>11 DEF vars, IInv, ReadyMeansCreated, LoopIsAhead, BornUnique, UniqueTables, Inline
<1> QED
  BY <1>1, <1>2, <1>3, <1>4, <1>5, <1>6, <1>7, <1>8, <1>9, <1>10, <1>11
  DEF Next, Proceeds

\* The types and the inductive invariant hold.
THEOREM CreationInvariant == Spec => [](TypeOK /\ IInv)
<1>1. Init => TypeOK /\ IInv
  BY InitInv DEF Inv
<1>2. TypeOK /\ IInv /\ [Next]_vars => (TypeOK /\ IInv)'
  BY TypeStep, InvStep
<1> QED
  BY <1>1, <1>2, PTL DEF Spec

\* The variables of the programs and their database have their types.
THEOREM TypeCorrect == Spec => []TypeOK
  BY CreationInvariant, PTL

\* A storage has a schema only when the database has all of its tables.
THEOREM SchemaIsBacked == Spec => []ReadyMeansCreated
<1>1. TypeOK /\ IInv => ReadyMeansCreated
  BY DEF IInv
<1> QED
  BY <1>1, CreationInvariant, PTL

\* With the adapters that say UNIQUE in CREATE TABLE, a unique column never
\* repeats a value, whatever the database can index.
THEOREM UniqueEnforced == Spec => []UniqueWhereDeclared
<1> DEFINE Holds == adapter \in Inline => dups = {}
<1>1. Init => Holds
  BY DEF Init
<1>2. TypeOK /\ IInv /\ Holds /\ [Next]_vars => Holds'
  <2> SUFFICES ASSUME TypeOK, IInv, Holds, [Next]_vars
               PROVE  Holds'
    OBVIOUS
  <2>1. ASSUME NEW p \in Programs, NEW t \in Tables, InsertTwice(p, t)
        PROVE  Holds'
    <3>1. adapter \notin Inline
      BY <2>1 DEF InsertTwice, IInv, BornUnique, TypeOK
    <3> QED
      BY <2>1, <3>1 DEF InsertTwice
  <2>2. ASSUME NEW p \in Programs, Proceeds(p) \/ Fails(p) \/ Crash(p)
        PROVE  UNCHANGED <<adapter, dups>>
    BY <2>2 DEF Proceeds, CreateTables, CreateTable, CheckTable, CreateChecked,
                AddConstraint, SetSchema, Refused, Fails, Crash
  <2>3. CASE UNCHANGED vars
    BY <2>3 DEF vars
  <2> QED
    BY <2>1, <2>2, <2>3 DEF Next
<1>3. TypeOK /\ Holds => UniqueWhereDeclared
  BY AdaptersAssumption DEF TypeOK, UniqueWhereDeclared, NoDuplicates, Inline, Altering
<1> QED
  BY <1>1, <1>2, <1>3, CreationInvariant, PTL DEF Spec

\* What a lone program that nothing interrupts makes of Oracle's tables: one
\* without its constraint is the one that is about to get it.
AloneInv ==
  adapter = "oracle" =>
    /\ dups = {}
    /\ \A p \in Programs : ready[p] => at[p] = "idle"
    /\ \A t \in exists \cap UniqueTables :
         t \in constrained \/ \E p \in Programs : at[p] = "constrain" /\ table[p] = t

\* Oracle, which adds UNIQUE in a statement of its own, keeps unique columns free
\* of duplicates where one program creates the tables without a fault and each
\* unique column can be indexed: each of the three has to be assumed.
THEOREM UniqueAlone ==
  ASSUME \A p, q \in Programs : p = q,
         MaxFaults = 0,
         \A t \in UniqueTables : UniqueType[t] \in OracleIndexable
  PROVE  Spec => [](adapter = "oracle" => NoDuplicates)
<1>1. Init => AloneInv
  BY DEF Init, AloneInv
<1>2. TypeOK /\ IInv /\ AloneInv /\ [Next]_vars => AloneInv'
  <2> SUFFICES ASSUME TypeOK, IInv, AloneInv, [Next]_vars, adapter' = "oracle"
               PROVE  AloneInv'
    BY DEF AloneInv
  <2>0. adapter = "oracle" /\ ~(faults < MaxFaults)
    BY DEF TypeOK, Next, Proceeds, CreateTables, CreateTable, CheckTable, CreateChecked,
           AddConstraint, SetSchema, Refused, Fails, Crash, InsertTwice, vars
  <2> USE <2>0 DEF AloneInv, TypeOK
  <2>1. ASSUME NEW p \in Programs, CreateTables(p)
        PROVE  AloneInv'
    BY <2>1 DEF CreateTables, UniqueTables
  <2>2. ASSUME NEW p \in Programs, NEW t \in Tables, CreateTable(p, t)
        PROVE  AloneInv'
    BY <2>2 DEF CreateTable, Altering
  <2>3. ASSUME NEW p \in Programs, NEW t \in Tables, CheckTable(p, t)
        PROVE  AloneInv'
    BY <2>3 DEF CheckTable, UniqueTables
  <2>4. ASSUME NEW p \in Programs, CreateChecked(p)
        PROVE  AloneInv'
    BY <2>4 DEF CreateChecked, Created, Inline, Altering, UniqueTables
  <2>5. ASSUME NEW p \in Programs, AddConstraint(p)
        PROVE  AloneInv'
    <3>1. table[p] \in Tables /\ table[p] \in exists
      BY <2>5 DEF AddConstraint, IInv, LoopIsAhead
    <3>2. table[p] \in UniqueTables => Indexable(table[p])
      BY DEF Indexable
    <3>3. table[p] \in UniqueTables => constrained' = constrained \cup {table[p]}
      BY <2>5, <3>2 DEF AddConstraint
    <3>4. constrained \subseteq constrained'
      BY <2>5 DEF AddConstraint
    <3> QED
      BY <2>5, <3>1, <3>3, <3>4 DEF AddConstraint, UniqueTables
  <2>6. ASSUME NEW p \in Programs, SetSchema(p)
        PROVE  AloneInv'
    BY <2>6 DEF SetSchema, UniqueTables
  <2>7. ASSUME NEW p \in Programs, Refused(p)
        PROVE  AloneInv'
    BY <2>7 DEF Refused, Stops, UniqueTables
  <2>8. ASSUME NEW p \in Programs, Fails(p) \/ Crash(p)
        PROVE  FALSE
    BY <2>8 DEF Fails, Crash
  <2>9. ASSUME NEW p \in Programs, NEW t \in Tables, InsertTwice(p, t)
        PROVE  FALSE
    BY <2>9 DEF InsertTwice
  <2>10. CASE UNCHANGED vars
    BY <2>10 DEF vars, UniqueTables
  <2> QED
    BY <2>1, <2>2, <2>3, <2>4, <2>5, <2>6, <2>7, <2>8, <2>9, <2>10 DEF Next, Proceeds
<1>3. AloneInv => (adapter = "oracle" => NoDuplicates)
  BY DEF AloneInv, NoDuplicates
<1> QED
  BY <1>1, <1>2, <1>3, CreationInvariant, PTL DEF Spec

-----------------------------------------------------------------------------
(* CreateTables gets through: the step by step half of EventuallyReady.    *)

\* Between the statements of Oracle's CreateTables, the table at hand is one the
\* loop has not finished.
AtHand == \A p \in Programs : at[p] \in {"create", "constrain"} => table[p] \in todo[p]

\* AtHand holds of every behaviour: the loop passes to a table of todo, and takes
\* it off when it leaves it.
LEMMA TableAtHand == Spec => []AtHand
<1>1. Init => AtHand
  BY DEF Init, AtHand
<1>2. TypeOK /\ AtHand /\ [Next]_vars => AtHand'
  <2> SUFFICES ASSUME TypeOK, AtHand, [Next]_vars
               PROVE  AtHand'
    OBVIOUS
  <2> USE DEF TypeOK, AtHand
  <2>1. ASSUME NEW p \in Programs, CreateTables(p)
        PROVE  AtHand'
    BY <2>1 DEF CreateTables
  <2>2. ASSUME NEW p \in Programs, NEW t \in Tables, CreateTable(p, t)
        PROVE  AtHand'
    BY <2>2 DEF CreateTable
  <2>3. ASSUME NEW p \in Programs, NEW t \in Tables, CheckTable(p, t)
        PROVE  AtHand'
    BY <2>3 DEF CheckTable
  <2>4. ASSUME NEW p \in Programs, CreateChecked(p) \/ AddConstraint(p)
        PROVE  AtHand'
    BY <2>4 DEF CreateChecked, AddConstraint
  <2>5. ASSUME NEW p \in Programs, SetSchema(p)
        PROVE  AtHand'
    BY <2>5 DEF SetSchema
  <2>6. ASSUME NEW p \in Programs, Refused(p) \/ Fails(p) \/ Crash(p)
        PROVE  AtHand'
    BY <2>6 DEF Refused, Fails, Crash, Stops
  <2>7. ASSUME NEW p \in Programs, NEW t \in Tables, InsertTwice(p, t)
        PROVE  AtHand'
    BY <2>7 DEF InsertTwice
  <2>8. CASE UNCHANGED vars
    BY <2>8 DEF vars
  <2> QED
    BY <2>1, <2>2, <2>3, <2>4, <2>5, <2>6, <2>7, <2>8 DEF Next, Proceeds
<1> QED
  BY <1>1, <1>2, TypeCorrect, PTL DEF Spec

\* Oracle: another program has created the table since p looked for it, so that
\* p's CREATE TABLE will be refused.
Overtaken(p) == at[p] = "create" /\ table[p] \in exists

\* p's call has got further: a table less to finish, or the next statement for
\* the table at hand, for which it is not yet too late.
Nearer(p) ==
  \/ todo'[p] \subseteq todo[p] /\ todo'[p] # todo[p]
  \/ /\ todo'[p] = todo[p]
     /\ \/ at[p] = "loop" /\ at'[p] = "create" /\ ~Overtaken(p)'
        \/ at[p] = "create" /\ at'[p] = "constrain"

\* What p itself does without a fault brings its call further, ends it with a
\* schema, or finds that it was overtaken.
LEMMA OwnStep ==
  ASSUME TypeOK, IInv, AtHand, NEW p \in Programs, Proceeds(p), ~ready[p], ~Unindexable
  PROVE  \/ at[p] = "idle" /\ at'[p] = "loop"
         \/ Nearer(p)
         \/ ready'[p]
         \/ Overtaken(p) /\ at'[p] = "idle"
<1> USE DEF TypeOK
<1>1. CASE CreateTables(p)
  BY <1>1 DEF CreateTables
<1>2. ASSUME NEW t \in Tables, CreateTable(p, t)
      PROVE  Nearer(p)
  BY <1>2 DEF CreateTable, Nearer
<1>3. ASSUME NEW t \in Tables, CheckTable(p, t)
      PROVE  Nearer(p)
  BY <1>3 DEF CheckTable, Nearer, Overtaken
<1>4. CASE CreateChecked(p)
  <2>1. table[p] \in todo[p]
    BY <1>4 DEF CreateChecked, AtHand
  <2> QED
    BY <1>4, <2>1 DEF CreateChecked, Nearer
<1>5. CASE AddConstraint(p)
  <2>1. table[p] \in todo[p]
    BY <1>5 DEF AddConstraint, AtHand
  <2> QED
    BY <1>5, <2>1 DEF AddConstraint, Nearer
<1>6. CASE SetSchema(p)
  BY <1>6 DEF SetSchema
<1>7. CASE Refused(p)
  <2>1. ASSUME adapter \notin Altering, NEW t \in todo[p], ~Creatable(t)
        PROVE  FALSE
    BY <2>1 DEF Creatable, Unindexable, UniqueTables
  <2> QED
    BY <1>7, <2>1 DEF Refused, Stops, Overtaken
<1> QED
  BY <1>1, <1>2, <1>3, <1>4, <1>5, <1>6, <1>7 DEF Proceeds

\* Tables are never dropped, and the steps of one program leave the calls of the
\* others where they are.
LEMMA NeighbourStep ==
  ASSUME TypeOK, NEW q \in Programs, Next
  PROVE  /\ exists \subseteq exists'
         /\ \/ /\ at'[q] = at[q] /\ table'[q] = table[q] /\ todo'[q] = todo[q]
               /\ ready'[q] = ready[q]
            \/ Proceeds(q)
            \/ faults' # faults
<1> USE DEF TypeOK
<1>1. PICK p \in Programs :
        Proceeds(p) \/ Fails(p) \/ Crash(p) \/ \E t \in Tables : InsertTwice(p, t)
  BY DEF Next
<1>2. exists \subseteq exists'
  BY <1>1 DEF Proceeds, CreateTables, CreateTable, CheckTable, CreateChecked, AddConstraint,
              SetSchema, Refused, Fails, Crash, InsertTwice, Created, Untouched
<1>3. CASE p = q /\ Proceeds(p)
  BY <1>2, <1>3
<1>4. CASE Fails(p) \/ Crash(p)
  BY <1>2, <1>4, FaultsAssumption DEF Fails, Crash
<1>5. ASSUME NEW t \in Tables, InsertTwice(p, t)
      PROVE  /\ at'[q] = at[q] /\ table'[q] = table[q] /\ todo'[q] = todo[q]
             /\ ready'[q] = ready[q]
  BY <1>5 DEF InsertTwice
<1>6. CASE p # q /\ Proceeds(p)
  <2>1. /\ at'[q] = at[q] /\ table'[q] = table[q] /\ todo'[q] = todo[q]
        /\ ready'[q] = ready[q]
    BY <1>6 DEF Proceeds, CreateTables, CreateTable, CheckTable, CreateChecked,
                AddConstraint, SetSchema, Refused, Stops
  <2> QED
    BY <1>2, <2>1
<1> QED
  BY <1>1, <1>2, <1>3, <1>4, <1>5, <1>6

\* Nobody takes p's call back: tables stay, and p is overtaken only by the step
\* that creates its table. Unless the step is another program's, it begins p's
\* call, brings it further or ends it, with a schema or because it was overtaken.
Advances(p) ==
  /\ exists \subseteq exists'
  /\ Overtaken(p)' => Overtaken(p) \/ exists' # exists
  /\ \/ at'[p] = at[p] /\ table'[p] = table[p] /\ todo'[p] = todo[p]
     \/ at[p] = "idle" /\ at'[p] = "loop"
     \/ Nearer(p)
     \/ ready'[p]
     \/ Overtaken(p) /\ at'[p] = "idle"

\* The safety half of EventuallyReady. What is left of the call of a program that
\* is not ready gets less with each of its steps, if no fault ends the call and
\* every unique column has an index. Only a program that was overtaken begins
\* again; and since tables are never dropped, and a program is overtaken only by a
\* step that creates a table, this happens no more often than there are tables.
THEOREM CreationAdvances ==
  Spec => [][\A p \in Programs :
               ~ready[p] /\ faults' = faults /\ ~Unindexable => Advances(p)]_vars
<1>1. ASSUME TypeOK, IInv, AtHand, Next,
             NEW p \in Programs, ~ready[p], faults' = faults, ~Unindexable
      PROVE  Advances(p)
  <2>1. CASE at'[p] = at[p] /\ table'[p] = table[p] /\ todo'[p] = todo[p]
    BY <1>1, <2>1, NeighbourStep DEF Overtaken, Advances
  <2>2. CASE Proceeds(p)
    <3>1. Overtaken(p)' => Overtaken(p) \/ exists' # exists
      BY <1>1, <2>2 DEF TypeOK, Overtaken, Proceeds, CreateTables, CreateTable, CheckTable,
                        CreateChecked, AddConstraint, SetSchema, Refused, Stops
    <3> QED
      BY <1>1, <2>2, <3>1, NeighbourStep, OwnStep DEF Advances
  <2> QED
    BY <1>1, <2>1, <2>2, NeighbourStep
<1>2. TypeOK /\ IInv /\ AtHand /\ [Next]_vars
        => [\A p \in Programs :
              ~ready[p] /\ faults' = faults /\ ~Unindexable => Advances(p)]_vars
  BY <1>1
<1> QED
  BY <1>2, CreationInvariant, TableAtHand, PTL DEF Spec

-----------------------------------------------------------------------------
(* The connection.                                                         *)

\* A handle that is used is nil, closed or open.
LEMMA HandleOutcomeRange ==
  HandleOutcome \in Outcomes /\ (db # NoHandle => HandleOutcome # "nil handle")
  BY DEF HandleOutcome, Outcomes

\* With a schema there is a handle, and without one the schema stops the call.
LEMMA OutcomeRange ==
  ASSUME sch => db # NoHandle,
         NEW call \in Calls
  PROVE  Outcome(call) \in Outcomes /\ Outcome(call) # "nil handle"
<1>1. SchemaOutcome(call) \in Outcomes /\ SchemaOutcome(call) # "nil handle"
  BY DEF SchemaOutcome, Outcomes
<1>2. SchemaOutcome(call) = "ok" => sch \/ ~ReadsSchema(call)
  BY DEF SchemaOutcome
<1>3. ~ReadsSchema(call) => ChecksConnection(call)
  BY DEF ReadsSchema, ChecksConnection
<1> QED
  BY <1>1, <1>2, <1>3, HandleOutcomeRange DEF Outcome, Outcomes

\* The number of handles stays within its bound.
LEMMA NextHandle ==
  ASSUME NEW n \in 0 .. MaxConnects, n < MaxConnects
  PROVE  n + 1 \in 0 .. MaxConnects /\ n + 1 \in Handles /\ n + 1 # NoHandle
  BY ConnectsAssumption DEF Handles, NoHandle

\* The invariant holds at the start: there is neither a handle nor a schema.
LEMMA ConnectionInit == ConnInit => ConnInv
<1> SUFFICES ASSUME ConnInit PROVE ConnInv
  OBVIOUS
<1>1. opened \in 0 .. MaxConnects
  BY ConnectsAssumption DEF ConnInit
<1>2. tx \in [Callers -> Handles \cup {NoHandle}]
  BY DEF ConnInit
<1> QED
  BY <1>1, <1>2 DEF ConnInit, ConnInv, ConnTypeOK, NoNilHandle, Outcomes

\* Every call keeps the invariant: only CreateTables sets the schema, over a handle.
LEMMA ConnectionStep == ConnInv /\ [ConnNext]_connVars => ConnInv'
<1> SUFFICES ASSUME ConnInv, [ConnNext]_connVars
             PROVE  ConnInv'
  OBVIOUS
<1> USE DEF ConnInv, ConnTypeOK, NoNilHandle
<1>1. CASE Connect \/ ConnectFails
  <2>1. opened' \in 0 .. MaxConnects /\ opened' \in Handles /\ opened' # NoHandle
    BY <1>1, NextHandle DEF Connect, ConnectFails
  <2>2. CASE Connect
    BY <2>1, <2>2 DEF Connect, Outcomes
  <2>3. CASE ConnectFails
    BY <2>1, <2>3 DEF ConnectFails, Outcomes
  <2> QED
    BY <1>1, <2>2, <2>3
<1>2. CASE CallCreateTables
  <2>1. CASE db = NoHandle
    BY <1>2, <2>1 DEF CallCreateTables, Outcomes
  <2>2. CASE db # NoHandle
    BY <1>2, <2>2, HandleOutcomeRange DEF CallCreateTables
  <2> QED
    BY <2>1, <2>2
<1>3. CASE ResetConnection
  BY <1>3 DEF ResetConnection, Close, Outcomes, NoHandle
<1>4. CASE PoolClosed
  BY <1>4 DEF PoolClosed, Close, Outcomes
<1>5. ASSUME NEW c \in Callers, NEW call \in Calls, Use(c, call)
      PROVE  ConnInv'
  BY <1>5, OutcomeRange DEF Use
<1>6. ASSUME NEW c \in Callers, NEW call \in TxCalls, UseTx(c, call)
      PROVE  ConnInv'
  BY <1>6 DEF UseTx, SchemaOutcome, Outcomes
<1>7. ASSUME NEW c \in Callers, BeginTx(c)
      PROVE  ConnInv'
  <2>1. CASE db = NoHandle
    BY <1>7, <2>1 DEF BeginTx, Outcomes
  <2>2. CASE db # NoHandle
    BY <1>7, <2>2, HandleOutcomeRange DEF BeginTx
  <2> QED
    BY <2>1, <2>2
<1>8. ASSUME NEW c \in Callers, EndTx(c)
      PROVE  ConnInv'
  BY <1>8 DEF EndTx, Outcomes
<1>9. CASE UNCHANGED connVars
  BY <1>9 DEF connVars
<1> QED
  BY <1>1, <1>2, <1>3, <1>4, <1>5, <1>6, <1>7, <1>8, <1>9 DEF ConnNext

\* The inductive invariant of the connection, which includes the types.
THEOREM ConnectionInvariant == ConnSpec => []ConnInv
  BY ConnectionInit, ConnectionStep, PTL DEF ConnSpec

\* No call uses a nil handle.
THEOREM HandleIsThere == ConnSpec => []NoNilHandle
<1>1. ConnInv => NoNilHandle
  BY DEF ConnInv
<1> QED
  BY <1>1, ConnectionInvariant, PTL

\* Main waits in ResetConnection only in CockroachDB, while its handle is closing;
\* the transactions it waits for are those of others.
WaitsForOthers ==
  /\ resets => storage = "cockroach" /\ db \in closing
  /\ tx[Main] = NoHandle

\* WaitsForOthers holds of every behaviour: while Main waits it does not connect.
LEMMA ResetIsClosing == ConnSpec => []WaitsForOthers
<1>1. ConnInit => WaitsForOthers
  BY MainAssumption DEF ConnInit, WaitsForOthers
<1>2. ConnInv /\ WaitsForOthers /\ [ConnNext]_connVars => WaitsForOthers'
  <2> SUFFICES ASSUME ConnInv, WaitsForOthers, [ConnNext]_connVars
               PROVE  WaitsForOthers'
    OBVIOUS
  <2> USE MainAssumption DEF ConnInv, ConnTypeOK, WaitsForOthers
  <2>1. CASE Connect \/ ConnectFails
    <3>1. ~resets /\ resets' = resets /\ tx' = tx
      BY <2>1 DEF Connect, ConnectFails, Free
    <3> QED
      BY <3>1
  <2>2. CASE CallCreateTables
    BY <2>2 DEF CallCreateTables
  <2>3. CASE ResetConnection
    BY <2>3 DEF ResetConnection, Close, Free
  <2>4. CASE PoolClosed
    BY <2>4 DEF PoolClosed, Close
  <2>5. ASSUME NEW c \in Callers, NEW call \in Calls \cup TxCalls, Use(c, call) \/ UseTx(c, call)
        PROVE  WaitsForOthers'
    BY <2>5 DEF Use, UseTx
  <2>6. ASSUME NEW c \in Callers, BeginTx(c)
        PROVE  WaitsForOthers'
    BY <2>6 DEF BeginTx
  <2>7. ASSUME NEW c \in Callers, EndTx(c)
        PROVE  WaitsForOthers'
    BY <2>7 DEF EndTx
  <2>8. CASE UNCHANGED connVars
    BY <2>8 DEF connVars
  <2> QED
    BY <2>1, <2>2, <2>3, <2>4, <2>5, <2>6, <2>7, <2>8 DEF ConnNext
<1> QED
  BY <1>1, <1>2, ConnectionInvariant, PTL DEF ConnSpec

\* The callers whose transactions the pool waits for.
Holders == {c \in Callers : tx[c] = db}

\* A step that leaves Main to wait for no more than before, and not for itself, or
\* is the return of pool.Close.
WaitsLess ==
  /\ PoolClosed \/ (resets' /\ db' = db /\ Holders' \subseteq Holders)
  /\ \A c \in Holders : c # Main /\ (EndTx(c) => Holders' = Holders \ {c})

\* The safety half of ResetReturns. A handle that is closing serves no new
\* transaction, so that while Main waits in ResetConnection the transactions it
\* waits for only get fewer: each commit or rollback takes one away, and with the
\* last of them gone pool.Close returns. None is Main's own, for which it would
\* wait in vain.
THEOREM ResetOnlyWaits == ConnSpec => [][resets => WaitsLess]_connVars
<1>1. ASSUME ConnInv, WaitsForOthers, ConnNext, resets
      PROVE  WaitsLess
  <2> USE <1>1 DEF ConnInv, ConnTypeOK, Holders
  <2>1. db \in closing /\ db # NoHandle
    BY DEF WaitsForOthers, Handles, NoHandle
  <2>2. ASSUME NEW c \in Holders
        PROVE  c # Main /\ (EndTx(c) => Holders' = Holders \ {c})
    BY <2>1, MainAssumption DEF WaitsForOthers, EndTx
  <2>3. CASE Connect \/ ConnectFails \/ CallCreateTables \/ ResetConnection
    BY <2>3 DEF Connect, ConnectFails, CallCreateTables, ResetConnection, Free
  <2>4. ASSUME NEW c \in Callers, NEW call \in Calls \cup TxCalls, Use(c, call) \/ UseTx(c, call)
        PROVE  resets' /\ db' = db /\ Holders' \subseteq Holders
    BY <2>4 DEF Use, UseTx
  <2>5. ASSUME NEW c \in Callers, BeginTx(c)
        PROVE  resets' /\ db' = db /\ Holders' \subseteq Holders
    BY <2>1, <2>5 DEF BeginTx, HandleOutcome
  <2>6. ASSUME NEW c \in Callers, EndTx(c)
        PROVE  resets' /\ db' = db /\ Holders' \subseteq Holders
    BY <2>1, <2>6 DEF EndTx
  <2> QED
    BY <2>2, <2>3, <2>4, <2>5, <2>6 DEF ConnNext, WaitsLess
<1>2. ConnInv /\ WaitsForOthers /\ [ConnNext]_connVars
        => [resets => WaitsLess]_connVars
  BY <1>1
<1> QED
  BY <1>2, ConnectionInvariant, ResetIsClosing, PTL DEF ConnSpec
=============================================================================
