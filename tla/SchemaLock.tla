------------------------------ MODULE SchemaLock ------------------------------
(***************************************************************************)
(* schema.Schema shared by goroutines: its map of tables, the RWMutex that *)
(* guards it, and how the storage adapters take that lock.  The SQL        *)
(* adapters call GetTable; the ScyllaDB adapter calls GetTable while it    *)
(* holds the lock already; CreateTables ranges over the map without it.    *)
(*                                                                         *)
(* The lock is Go's sync.RWMutex: a writer that has announced itself waits *)
(* for the readers inside and keeps new ones out, and lets in all readers  *)
(* that wait when it leaves; it is not reentrant.                          *)
(***************************************************************************)
CONSTANTS
  Goroutines,
  Names,    \* table names
  Ops,      \* the operations that are called, a subset of AllOps
  None      \* no goroutine, no table

AllOps == {"GetTable", "AddTable", "CreateTables", "Scylla"}

ASSUME OpsAssumption  == Ops \subseteq AllOps
ASSUME NoneAssumption == None \notin Goroutines \cup Names

VARIABLES
  tables,   \* the keys of Schema.Tables
  writer,   \* who holds the writers' half of the RWMutex, or None
  readers,  \* the goroutines inside RLock ... RUnlock
  pc,       \* pc[g]: where g is in its call
  op,       \* op[g]: which operation g is in, or was last
  name,     \* name[g]: the table it is called with
  result    \* result[g]: what g's last call returned

vars == <<tables, writer, readers, pc, op, name, result>>

\* A call without a lock, one that begins with RLock, one that begins with Lock.
Entry(o) == IF o = "CreateTables" THEN "ranging"
            ELSE IF o = "GetTable" THEN "rlock" ELSE "lock"

\* AddTable(nil) returns at once; the other operations are given a name.
Accepts(o, n) == n # None

Call(g, o, n) ==
  /\ pc[g] = "idle"
  /\ Accepts(o, n)
  /\ pc'     = [pc EXCEPT ![g] = Entry(o)]
  /\ op'     = [op EXCEPT ![g] = o]
  /\ name'   = [name EXCEPT ![g] = n]
  /\ result' = [result EXCEPT ![g] = "none"]
  /\ UNCHANGED <<tables, writer, readers>>

-----------------------------------------------------------------------------
(* The lock.                                                               *)

\* Mutant of RLock: GetTable reads the map without the lock.
MutRLock(g) ==
  /\ pc[g] = "rlock"
  /\ pc'      = [pc EXCEPT ![g] = "reading"]
  /\ readers' = readers
  /\ UNCHANGED <<tables, writer, op, name, result>>

\* RLock: in, unless a writer is inside or waiting to get in.
RLock(g) ==
  /\ pc[g] = "rlock"
  /\ pc'      = [pc EXCEPT ![g] = IF writer = None THEN "reading" ELSE "rwait"]
  /\ readers' = IF writer = None THEN readers \cup {g} ELSE readers
  /\ UNCHANGED <<tables, writer, op, name, result>>

\* Lock, first half: g is the next writer, and is announced to the readers.
Announce(g) ==
  /\ pc[g] = "lock" /\ writer = None
  /\ pc'     = [pc EXCEPT ![g] = "drain"]
  /\ writer' = g
  /\ UNCHANGED <<tables, readers, op, name, result>>

\* Lock, second half: the last reader has left.
Lock(g) ==
  /\ pc[g] = "drain" /\ readers = {}
  /\ pc' = [pc EXCEPT ![g] = "locked"]
  /\ UNCHANGED <<tables, writer, readers, op, name, result>>

Waiting == {h \in Goroutines : pc[h] = "rwait"}

\* Unlock: the waiting readers are let in, before any other writer.
Unlocking(g, rs) ==
  /\ writer'  = None
  /\ readers' = rs \cup (Waiting \ {g})
  /\ pc'      = [h \in Goroutines |-> IF h = g THEN "idle"
                                      ELSE IF h \in Waiting THEN "reading" ELSE pc[h]]

-----------------------------------------------------------------------------
(* What is done inside.                                                    *)

\* AddTable stores the table, and its deferred Unlock runs.
AddTable(g) ==
  /\ pc[g] = "locked" /\ op[g] = "AddTable"
  /\ tables' = tables \cup {name[g]}
  /\ Unlocking(g, readers)
  /\ result' = [result EXCEPT ![g] = "ok"]
  /\ UNCHANGED <<op, name>>

\* Insert, Update and FindByKey of the ScyllaDB adapter: with the lock held,
\* they call GetTable.
ScyllaGetTable(g) ==
  /\ pc[g] = "locked" /\ op[g] = "Scylla"
  /\ pc' = [pc EXCEPT ![g] = "rlock"]
  /\ UNCHANGED <<tables, writer, readers, op, name, result>>

\* GetTable dereferences the entry before it looks whether there was one.
Found(g) == IF name[g] \in tables THEN "ok" ELSE "panic"

\* Mutant of GetTable: RUnlock is not deferred, so that a panic skips it.
MutGetTable(g) ==
  /\ pc[g] = "reading"
  /\ result' = [result EXCEPT ![g] = Found(g)]
  /\ IF writer = g
     THEN Unlocking(g, readers \ {g})
     ELSE /\ readers' = IF name[g] \in tables THEN readers \ {g} ELSE readers
          /\ pc' = [pc EXCEPT ![g] = "idle"]
          /\ UNCHANGED writer
  /\ UNCHANGED <<tables, op, name>>

\* GetTable reads the map and returns or panics; the deferred RUnlock runs, and
\* in the ScyllaDB adapter the deferred Unlock, after the query or the panic.
GetTable(g) ==
  /\ pc[g] = "reading"
  /\ result' = [result EXCEPT ![g] = Found(g)]
  /\ IF writer = g
     THEN Unlocking(g, readers \ {g})
     ELSE /\ readers' = readers \ {g}
          /\ pc' = [pc EXCEPT ![g] = "idle"]
          /\ UNCHANGED writer
  /\ UNCHANGED <<tables, op, name>>

\* CreateTables has come to the end of the map.
CreateTables(g) ==
  /\ pc[g] = "ranging"
  /\ pc'     = [pc EXCEPT ![g] = "idle"]
  /\ result' = [result EXCEPT ![g] = "ok"]
  /\ UNCHANGED <<tables, writer, readers, op, name>>

Init ==
  /\ tables  = {}
  /\ writer  = None
  /\ readers = {}
  /\ pc      = [g \in Goroutines |-> "idle"]
  /\ op      = [g \in Goroutines |-> "GetTable"]
  /\ name    = [g \in Goroutines |-> None]
  /\ result  = [g \in Goroutines |-> "none"]

\* g goes on with the call it is in, other than by becoming the next writer.
Continue(g) ==
  \/ RLock(g) \/ Lock(g)
  \/ AddTable(g) \/ ScyllaGetTable(g) \/ GetTable(g) \/ CreateTables(g)

Next ==
  \E g \in Goroutines :
    \/ \E o \in Ops, n \in Names \cup {None} : Call(g, o, n)
    \/ Announce(g)
    \/ Continue(g)

Spec == Init /\ [][Next]_vars

\* A goroutine that can run does, and sync.Mutex, which orders the writers,
\* hands over to the longest waiting one once it starves.
FairSpec ==
  /\ Spec
  /\ \A g \in Goroutines : WF_vars(Continue(g)) /\ SF_vars(Announce(g))
-----------------------------------------------------------------------------
(* Properties.                                                             *)

\* The types of the variables.
TypeOK ==
  /\ tables \subseteq Names
  /\ writer \in Goroutines \cup {None}
  /\ readers \subseteq Goroutines
  /\ pc \in [Goroutines -> {"idle", "ranging", "rlock", "rwait", "reading",
                            "lock", "drain", "locked"}]
  /\ op \in [Goroutines -> AllOps]
  /\ name \in [Goroutines -> Names \cup {None}]
  /\ result \in [Goroutines -> {"none", "ok", "panic"}]

\* No goroutine stores into the map of tables while another one reads it or
\* stores into it (schema.go: "mutex for thread-safe access"): Go ends a program
\* that does.
NoRace ==
  \A g, h \in Goroutines :
    g # h /\ pc[g] = "locked" => pc[h] \notin {"locked", "reading"}

\* How the lock achieves it: readers are counted, the writer and the next one
\* are known, and a writer inside is alone.
Exclusion ==
  /\ \A g \in Goroutines : pc[g] = "reading" => g \in readers
  /\ \A g \in Goroutines : pc[g] \in {"drain", "locked"} => writer = g
  /\ \A g \in Goroutines : pc[g] = "locked" => readers = {}

\* A goroutine in a call is in one of Ops, and works on a table.
Engaged ==
  \A g \in Goroutines : pc[g] # "idle" =>
    /\ op[g] \in Ops
    /\ name[g] # None
    /\ pc[g] = "ranging" => op[g] = "CreateTables"

\* The inductive strengthening of NoRace.
IInv == Exclusion /\ Engaged

\* Every call returns (README: ScyllaDB has "Full Support").
EveryCallReturns == \A g \in Goroutines : pc[g] # "idle" ~> pc[g] = "idle"

\* A call of the ScyllaDB adapter waits for its own lock.
SelfLocked == \E h \in Goroutines : op[h] = "Scylla" /\ writer = h /\ pc[h] = "rwait"

\* Nothing else keeps a call from returning: readers do not starve writers nor
\* writers readers, and a GetTable that panics gives its lock back.
OnlyScyllaBlocks ==
  \A g \in Goroutines : pc[g] # "idle" ~> pc[g] = "idle" \/ SelfLocked
=============================================================================
