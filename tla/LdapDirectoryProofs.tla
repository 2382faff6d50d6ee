------------------------- MODULE LdapDirectoryProofs -------------------------
(***************************************************************************)
(* What LdapDirectory keeps, for any clients, DNs and passwords and any    *)
(* number of crashes and failing storage calls.                            *)
(***************************************************************************)
EXTENDS LdapDirectory, TLAPS

-----------------------------------------------------------------------------
(* The invariant.                                                          *)

\* Nothing is under way in a server that does not run.
Quiet == boot # "up" => \A c \in Clients : req[c] = None

\* setupInitialData writes one entry after the other, the base entry first; a
\* server that runs has that one, unless a client deleted it.
Progress ==
  /\ boot \in {"admin user", "admin", "users", "groups"} => entries[baseDN] # None
  /\ boot \in {"users", "groups"} => entries[bindDN] # None
  /\ boot = "groups" => entries[usersOU] # None
  /\ boot = "up" => entries[baseDN] # None \/ baseDN \in removed

\* Until the base entry is written nothing is.
Pristine == \A d \in DNs : entries[d] = None /\ users[d] = None
BaseIsFirst == entries[baseDN] = None /\ baseDN \notin removed => Pristine

\* What a start that was not cut off, and found nothing, has not written yet.
Unwritten(ds) == \A d \in DNs \ ds : entries[d] = None
OwnWrites ==
  ~redo => /\ boot = "base" => Pristine
           /\ boot = "admin user" => Unwritten({baseDN}) /\ \A d \in DNs : users[d] = None
           /\ boot = "admin" => Unwritten({baseDN})
           /\ boot = "users" => Unwritten({baseDN, bindDN})
           /\ boot = "groups" => Unwritten({baseDN, bindDN, usersOU})

\* No start was cut off: with the base entry there are the others.
Complete == \A d \in Initial \ removed : entries[d] # None
AllOrNothing ==
  ~cut => /\ boot = "up" => Complete
          /\ boot \in {"down", "check", "base"} /\ entries[baseDN] # None => Complete

\* c is in an ADD or DELETE of d, behind its first step.
Works(c, d) == (Doing(c, "add") \/ Doing(c, "delete")) /\ req[c].dn = d

\* An ADD or DELETE that met no other is alone, and knows what the DN is left.
Owns(c) ==
  \A d \in DNs : Works(c, d) /\ c \notin met =>
    /\ given[d] = IF Doing(c, "add") THEN req[c].password ELSE None
    /\ \A k \in Clients \ {c} : ~Works(k, d)

\* What a BIND has read is what is there, if it can still write it.
BindIsFresh(c) ==
  Doing(c, "bind") /\ req[c].dn \notin disturbed /\ users[req[c].dn] # None =>
    users[req[c].dn] = req[c].password

\* The two tables agree on every DN that nobody is adding or deleting.
Agrees(d) == d \notin disturbed /\ (\A c \in Clients : ~Works(c, d)) => users[d] = given[d]

\* An account without an entry is the administrator's, from a start that was cut
\* off between the two: nobody is at it, and the next ADD or DELETE settles it.
Orphan(d) == given[d] # None /\ entries[d] = None
GivenHasEntry(d) == Orphan(d) => d \in disturbed /\ \A c \in Clients : ~Works(c, d)

\* So they do when the administrator's account has been written.
AdminAgrees == boot = "admin" => users[bindDN] = given[bindDN]

IInv ==
  /\ TypeOK
  /\ Quiet /\ Progress /\ BaseIsFirst /\ OwnWrites /\ AllOrNothing
  /\ \A c \in Clients : Owns(c) /\ BindIsFresh(c)
  /\ \A d \in DNs : Agrees(d) /\ GivenHasEntry(d)
  /\ AdminAgrees

\* Which operation a request is says what it carries.
LEMMA RequestShape ==
  ASSUME NEW r \in Requests
  PROVE  /\ r.op \in {"add", "bind", "delete", "modify"} /\ r.dn \in DNs
         /\ r.op \in {"add", "bind"} => r.password \in Passwords
         /\ r.op = "modify" => r.entry \in Entries
  BY DEF Requests

\* What is written to a table is a row.
LEMMA EntryRow ==
  ASSUME NEW class \in Classes \cup {"organization", "person", "organizationalUnit"}, NEW attrs \in Attrs
  PROVE  Entry(class, attrs) \in Entries /\ Entry(class, attrs) # None
  BY RecordAssumption DEF Entry, Entries

\* So is what setupInitialData writes.
LEMMA InitialRow ==
  ASSUME NEW d
  PROVE  LET row == Entry(InitialClass(d), CHOOSE a \in Attrs : TRUE)
         IN  row \in Entries /\ row # None
<1>1. (CHOOSE a \in Attrs : TRUE) \in Attrs
  BY AttrsAssumption
<1> QED
  BY <1>1, EntryRow DEF InitialClass

\* The requests of each operation.
LEMMA NewRequest ==
  ASSUME NEW d \in DNs
  PROVE  /\ \A p \in Passwords :
              /\ [op |-> "add", dn |-> d, password |-> p] \in Requests
              /\ [op |-> "bind", dn |-> d, password |-> p] \in Requests
         /\ [op |-> "delete", dn |-> d] \in Requests
         /\ \A e \in Entries : [op |-> "modify", dn |-> d, entry |-> e] \in Requests
  BY DEF Requests

\* A request that is not None is one of them.
LEMMA Pending ==
  ASSUME TypeOK, NEW c \in Clients, req[c] # None
  PROVE  req[c] \in Requests
  BY DEF TypeOK

\* The DNs of requests are DNs.
LEMMA PendingDNs ==
  ASSUME TypeOK, NEW K \in SUBSET {k \in Clients : req[k] # None}
  PROVE  {req[k].dn : k \in K} \subseteq DNs
  BY Pending, RequestShape

\* A fault is counted.
LEMMA FaultCounted ==
  ASSUME TypeOK, faults < MaxFaults, faults' = faults + 1
  PROVE  faults' \in 0 .. MaxFaults
  BY FaultsAssumption DEF TypeOK

\* A client that meets another is recorded.
LEMMA Meeting ==
  ASSUME TypeOK, NEW c \in Clients, NEW d \in DNs, Meets(c, d)
  PROVE  /\ disturbed' \subseteq DNs /\ met' \subseteq Clients
         /\ disturbed \subseteq disturbed' /\ met \subseteq met'
         /\ \A k \in Clients \ {c} : Works(k, d) => k \in met' /\ c \in met'
  BY DEF Meets, Others, TypeOK, Works, Doing

\* A MODIFY writes an entry where there is one.
LEMMA ModifiesWhatIsThere ==
  ASSUME TypeOK, NEW c \in Clients, UpdateEntry(c)
  PROVE  /\ entries' \in [DNs -> Entries \cup {None}]
         /\ \A d \in DNs : entries'[d] = None <=> entries[d] = None
<1>1. req[c] # None /\ req[c].op = "modify"
  BY DEF UpdateEntry, Doing
<1>2. req[c].dn \in DNs /\ req[c].entry \in Entries /\ req[c].entry # None
  BY <1>1, Pending, RequestShape, RecordAssumption
<1>3. entries' = IF entries[req[c].dn] = None THEN entries
                 ELSE [entries EXCEPT ![req[c].dn] = req[c].entry]
  BY DEF UpdateEntry
<1> QED
  BY <1>2, <1>3 DEF TypeOK

-----------------------------------------------------------------------------
(* Every action preserves every part.                                      *)

\* Every step preserves the types.
LEMMA TypeStep ==
  ASSUME TypeOK, [Next]_vars
  PROVE  TypeOK'
<1> USE DEF TypeOK, Setup,
        vars, tables, ghosts, Goes, Answers, Idle, Doing
<1>1. ASSUME NEW c \in Clients, NEW d \in Served, NEW class \in Classes,
            NEW attrs \in Attrs, NEW password \in Passwords \cup {None},
            Add(c, d, class, attrs, password)
      PROVE  TypeOK'
  <2>1. d \in DNs /\ Entry(class, attrs) \in Entries
    BY InitialAssumption, EntryRow
  <2>2. CASE class \in AccountClasses /\ password # None
    <3>1. password \in Passwords /\ [op |-> "add", dn |-> d, password |-> password] \in Requests
      BY <2>1, <2>2, NewRequest
    <3>2. disturbed' \subseteq DNs /\ met' \subseteq Clients
      BY <1>1, <2>1, <2>2, Meeting DEF Add
    <3> QED
      BY <1>1, <2>1, <2>2, <3>1, <3>2 DEF Add
  <2>3. CASE ~(class \in AccountClasses /\ password # None)
    BY <1>1, <2>1, <2>3 DEF Add
  <2> QED
    BY <2>2, <2>3
<1>2. ASSUME NEW c \in Clients, NEW d \in Served,
            Delete(c, d)
      PROVE  TypeOK'
  BY <1>2, InitialAssumption, NewRequest, Meeting DEF Delete
<1>3. ASSUME NEW c \in Clients, NEW d \in Served, NEW attrs \in Attrs,
            FindEntry(c, d, attrs)
      PROVE  TypeOK'
  BY <1>3, InitialAssumption, EntryRow, NewRequest DEF FindEntry, Initial, Entries
<1>4. ASSUME NEW c \in Clients, NEW d \in Served, NEW password \in Passwords,
            FindUser(c, d, password)
      PROVE  TypeOK'
  BY <1>4, InitialAssumption, NewRequest DEF FindUser, Initial
<1>5. ASSUME NEW c \in Clients,
            CreateUser(c)
      PROVE  TypeOK'
  BY <1>5, RequestShape DEF CreateUser, Settles
<1>6. ASSUME NEW c \in Clients,
            DeleteUser(c)
      PROVE  TypeOK'
  BY <1>6, RequestShape DEF DeleteUser, Settles
<1>7. ASSUME NEW c \in Clients,
            UpdateEntry(c)
      PROVE  TypeOK'
  BY <1>7, ModifiesWhatIsThere DEF UpdateEntry
<1>8. ASSUME NEW c \in Clients,
            WriteLogin(c)
      PROVE  TypeOK'
  BY <1>8, RequestShape DEF WriteLogin
<1>9. ASSUME NEW c \in Clients,
            Fails(c)
      PROVE  TypeOK'
  <2>1. req[c].dn \in DNs /\ faults' \in 0 .. MaxFaults
    BY <1>9, Pending, RequestShape, FaultCounted DEF Fails
  <2> QED
    BY <1>9, <2>1 DEF Fails
<1>10. CASE Start
  BY <1>10 DEF Start
<1>11. CASE CheckBase
  BY <1>11 DEF CheckBase
<1>12. CASE WriteBase
  BY <1>12, InitialAssumption, InitialRow DEF WriteBase, Writes, Initial
<1>13. CASE WriteAdminUser
  BY <1>13, InitialAssumption, PasswordAssumption DEF WriteAdminUser, Initial
<1>14. CASE WriteAdmin
  BY <1>14, InitialAssumption, InitialRow DEF WriteAdmin, Writes, Initial
<1>15. CASE WriteUsersOU
  BY <1>15, InitialAssumption, InitialRow DEF WriteUsersOU, Writes, Initial
<1>16. CASE WriteGroupsOU
  BY <1>16, InitialAssumption, InitialRow DEF WriteGroupsOU, Writes, Initial
<1>17. CASE CheckFails
  BY <1>17, FaultsAssumption DEF CheckFails
<1>18. CASE Crash
  <2>1. disturbed' \subseteq DNs /\ faults' \in 0 .. MaxFaults
    BY <1>18, PendingDNs, FaultCounted DEF Crash
  <2> QED
    BY <1>18, <2>1 DEF Crash
<1>19. CASE UNCHANGED vars
  BY <1>19
<1> QED
  BY <1>1, <1>2, <1>3, <1>4, <1>5, <1>6, <1>7, <1>8, <1>9,
     <1>10, <1>11, <1>12, <1>13, <1>14, <1>15, <1>16, <1>17, <1>18, <1>19 DEF Next, Operations, Boots

\* Clients work on a server that runs.
LEMMA QuietStep ==
  ASSUME TypeOK, Quiet, [Next]_vars
  PROVE  Quiet'
<1> USE DEF TypeOK, Quiet,
        vars, tables, ghosts, Goes, Answers, Idle, Doing
<1>1. ASSUME NEW c \in Clients, NEW d \in Served, NEW class \in Classes,
            NEW attrs \in Attrs, NEW password \in Passwords \cup {None},
            Add(c, d, class, attrs, password)
      PROVE  Quiet'
  BY <1>1 DEF Add
<1>2. ASSUME NEW c \in Clients, NEW d \in Served,
            Delete(c, d)
      PROVE  Quiet'
  BY <1>2 DEF Delete
<1>3. ASSUME NEW c \in Clients, NEW d \in Served, NEW attrs \in Attrs,
            FindEntry(c, d, attrs)
      PROVE  Quiet'
  BY <1>3 DEF FindEntry
<1>4. ASSUME NEW c \in Clients, NEW d \in Served, NEW password \in Passwords,
            FindUser(c, d, password)
      PROVE  Quiet'
  BY <1>4 DEF FindUser
<1>5. ASSUME NEW c \in Clients,
            CreateUser(c)
      PROVE  Quiet'
  BY <1>5 DEF CreateUser
<1>6. ASSUME NEW c \in Clients,
            DeleteUser(c)
      PROVE  Quiet'
  BY <1>6 DEF DeleteUser
<1>7. ASSUME NEW c \in Clients,
            UpdateEntry(c)
      PROVE  Quiet'
  BY <1>7 DEF UpdateEntry
<1>8. ASSUME NEW c \in Clients,
            WriteLogin(c)
      PROVE  Quiet'
  BY <1>8 DEF WriteLogin
<1>9. ASSUME NEW c \in Clients,
            Fails(c)
      PROVE  Quiet'
  BY <1>9 DEF Fails
<1>10. CASE Start
  BY <1>10 DEF Start
<1>11. CASE CheckBase
  BY <1>11 DEF CheckBase
<1>12. CASE WriteBase
  BY <1>12 DEF WriteBase, Writes
<1>13. CASE WriteAdminUser
  BY <1>13 DEF WriteAdminUser
<1>14. CASE WriteAdmin
  BY <1>14 DEF WriteAdmin, Writes
<1>15. CASE WriteUsersOU
  BY <1>15 DEF WriteUsersOU, Writes
<1>16. CASE WriteGroupsOU
  BY <1>16 DEF WriteGroupsOU, Writes
<1>17. CASE CheckFails
  BY <1>17 DEF CheckFails
<1>18. CASE Crash
  BY <1>18 DEF Crash
<1>19. CASE UNCHANGED vars
  BY <1>19
<1> QED
  BY <1>1, <1>2, <1>3, <1>4, <1>5, <1>6, <1>7, <1>8, <1>9,
     <1>10, <1>11, <1>12, <1>13, <1>14, <1>15, <1>16, <1>17, <1>18, <1>19 DEF Next, Operations, Boots

\* setupInitialData goes on from entry to entry.
LEMMA ProgressStep ==
  ASSUME TypeOK, Quiet, Progress, [Next]_vars
  PROVE  Progress'
<1> USE DEF TypeOK, Quiet, Progress, Initial,
        vars, tables, ghosts, Goes, Answers, Idle, Doing
<1>1. ASSUME NEW c \in Clients, NEW d \in Served, NEW class \in Classes,
            NEW attrs \in Attrs, NEW password \in Passwords \cup {None},
            Add(c, d, class, attrs, password)
      PROVE  Progress'
  BY <1>1, EntryRow, InitialAssumption DEF Add
<1>2. ASSUME NEW c \in Clients, NEW d \in Served,
            Delete(c, d)
      PROVE  Progress'
  BY <1>2, InitialAssumption DEF Delete
<1>3. ASSUME NEW c \in Clients, NEW d \in Served, NEW attrs \in Attrs,
            FindEntry(c, d, attrs)
      PROVE  Progress'
  BY <1>3 DEF FindEntry
<1>4. ASSUME NEW c \in Clients, NEW d \in Served, NEW password \in Passwords,
            FindUser(c, d, password)
      PROVE  Progress'
  BY <1>4 DEF FindUser
<1>5. ASSUME NEW c \in Clients,
            CreateUser(c)
      PROVE  Progress'
  BY <1>5 DEF CreateUser
<1>6. ASSUME NEW c \in Clients,
            DeleteUser(c)
      PROVE  Progress'
  BY <1>6 DEF DeleteUser
<1>7. ASSUME NEW c \in Clients,
            UpdateEntry(c)
      PROVE  Progress'
  BY <1>7, ModifiesWhatIsThere, InitialAssumption DEF UpdateEntry
<1>8. ASSUME NEW c \in Clients,
            WriteLogin(c)
      PROVE  Progress'
  BY <1>8 DEF WriteLogin
<1>9. ASSUME NEW c \in Clients,
            Fails(c)
      PROVE  Progress'
  BY <1>9 DEF Fails
<1>10. CASE Start
  BY <1>10 DEF Start
<1>11. CASE CheckBase
  BY <1>11 DEF CheckBase
<1>12. CASE WriteBase
  BY <1>12, InitialRow, InitialAssumption DEF WriteBase, Writes
<1>13. CASE WriteAdminUser
  BY <1>13 DEF WriteAdminUser
<1>14. CASE WriteAdmin
  BY <1>14, InitialRow, InitialAssumption DEF WriteAdmin, Writes
<1>15. CASE WriteUsersOU
  BY <1>15, InitialRow, InitialAssumption DEF WriteUsersOU, Writes
<1>16. CASE WriteGroupsOU
  BY <1>16, InitialRow, InitialAssumption DEF WriteGroupsOU, Writes
<1>17. CASE CheckFails
  BY <1>17 DEF CheckFails
<1>18. CASE Crash
  BY <1>18 DEF Crash
<1>19. CASE UNCHANGED vars
  BY <1>19
<1> QED
  BY <1>1, <1>2, <1>3, <1>4, <1>5, <1>6, <1>7, <1>8, <1>9,
     <1>10, <1>11, <1>12, <1>13, <1>14, <1>15, <1>16, <1>17, <1>18, <1>19 DEF Next, Operations, Boots

\* The base entry is written first.
LEMMA BaseIsFirstStep ==
  ASSUME TypeOK, Quiet, Progress, BaseIsFirst, [Next]_vars
  PROVE  BaseIsFirst'
<1> USE DEF TypeOK, Quiet, Progress, BaseIsFirst, Pristine, Initial,
        vars, tables, ghosts, Goes, Answers, Idle, Doing
<1>1. ASSUME NEW c \in Clients, NEW d \in Served, NEW class \in Classes,
            NEW attrs \in Attrs, NEW password \in Passwords \cup {None},
            Add(c, d, class, attrs, password)
      PROVE  BaseIsFirst'
  BY <1>1, EntryRow, InitialAssumption DEF Add
<1>2. ASSUME NEW c \in Clients, NEW d \in Served,
            Delete(c, d)
      PROVE  BaseIsFirst'
  BY <1>2, InitialAssumption DEF Delete
<1>3. ASSUME NEW c \in Clients, NEW d \in Served, NEW attrs \in Attrs,
            FindEntry(c, d, attrs)
      PROVE  BaseIsFirst'
  BY <1>3 DEF FindEntry
<1>4. ASSUME NEW c \in Clients, NEW d \in Served, NEW password \in Passwords,
            FindUser(c, d, password)
      PROVE  BaseIsFirst'
  BY <1>4 DEF FindUser
<1>5. ASSUME NEW c \in Clients,
            CreateUser(c)
      PROVE  BaseIsFirst'
  BY <1>5 DEF CreateUser
<1>6. ASSUME NEW c \in Clients,
            DeleteUser(c)
      PROVE  BaseIsFirst'
  BY <1>6 DEF DeleteUser
<1>7. ASSUME NEW c \in Clients,
            UpdateEntry(c)
      PROVE  BaseIsFirst'
  BY <1>7, ModifiesWhatIsThere, InitialAssumption DEF UpdateEntry
<1>8. ASSUME NEW c \in Clients,
            WriteLogin(c)
      PROVE  BaseIsFirst'
  BY <1>8 DEF WriteLogin
<1>9. ASSUME NEW c \in Clients,
            Fails(c)
      PROVE  BaseIsFirst'
  BY <1>9 DEF Fails
<1>10. CASE Start
  BY <1>10 DEF Start
<1>11. CASE CheckBase
  BY <1>11 DEF CheckBase
<1>12. CASE WriteBase
  BY <1>12, InitialRow, InitialAssumption DEF WriteBase, Writes
<1>13. CASE WriteAdminUser
  BY <1>13, InitialAssumption DEF WriteAdminUser
<1>14. CASE WriteAdmin
  BY <1>14, InitialRow, InitialAssumption DEF WriteAdmin, Writes
<1>15. CASE WriteUsersOU
  BY <1>15, InitialRow, InitialAssumption DEF WriteUsersOU, Writes
<1>16. CASE WriteGroupsOU
  BY <1>16, InitialRow, InitialAssumption DEF WriteGroupsOU, Writes
<1>17. CASE CheckFails
  BY <1>17 DEF CheckFails
<1>18. CASE Crash
  BY <1>18 DEF Crash
<1>19. CASE UNCHANGED vars
  BY <1>19
<1> QED
  BY <1>1, <1>2, <1>3, <1>4, <1>5, <1>6, <1>7, <1>8, <1>9,
     <1>10, <1>11, <1>12, <1>13, <1>14, <1>15, <1>16, <1>17, <1>18, <1>19 DEF Next, Operations, Boots

\* A start that found nothing finds nothing later.
LEMMA OwnWritesStep ==
  ASSUME TypeOK, Quiet, BaseIsFirst, OwnWrites, [Next]_vars
  PROVE  OwnWrites'
<1> USE DEF TypeOK, Quiet, BaseIsFirst, OwnWrites, Pristine, Unwritten, Initial,
        vars, tables, ghosts, Goes, Answers, Idle, Doing
<1>1. ASSUME NEW c \in Clients, NEW d \in Served, NEW class \in Classes,
            NEW attrs \in Attrs, NEW password \in Passwords \cup {None},
            Add(c, d, class, attrs, password)
      PROVE  OwnWrites'
  BY <1>1, EntryRow, InitialAssumption DEF Add
<1>2. ASSUME NEW c \in Clients, NEW d \in Served,
            Delete(c, d)
      PROVE  OwnWrites'
  BY <1>2, InitialAssumption DEF Delete
<1>3. ASSUME NEW c \in Clients, NEW d \in Served, NEW attrs \in Attrs,
            FindEntry(c, d, attrs)
      PROVE  OwnWrites'
  BY <1>3 DEF FindEntry
<1>4. ASSUME NEW c \in Clients, NEW d \in Served, NEW password \in Passwords,
            FindUser(c, d, password)
      PROVE  OwnWrites'
  BY <1>4 DEF FindUser
<1>5. ASSUME NEW c \in Clients,
            CreateUser(c)
      PROVE  OwnWrites'
  BY <1>5 DEF CreateUser
<1>6. ASSUME NEW c \in Clients,
            DeleteUser(c)
      PROVE  OwnWrites'
  BY <1>6 DEF DeleteUser
<1>7. ASSUME NEW c \in Clients,
            UpdateEntry(c)
      PROVE  OwnWrites'
  BY <1>7, ModifiesWhatIsThere, InitialAssumption DEF UpdateEntry
<1>8. ASSUME NEW c \in Clients,
            WriteLogin(c)
      PROVE  OwnWrites'
  BY <1>8 DEF WriteLogin
<1>9. ASSUME NEW c \in Clients,
            Fails(c)
      PROVE  OwnWrites'
  BY <1>9 DEF Fails
<1>10. CASE Start
  BY <1>10 DEF Start
<1>11. CASE CheckBase
  BY <1>11 DEF CheckBase
<1>12. CASE WriteBase
  BY <1>12, InitialRow, InitialAssumption DEF WriteBase, Writes
<1>13. CASE WriteAdminUser
  BY <1>13 DEF WriteAdminUser
<1>14. CASE WriteAdmin
  BY <1>14, InitialRow, InitialAssumption DEF WriteAdmin, Writes
<1>15. CASE WriteUsersOU
  BY <1>15, InitialRow, InitialAssumption DEF WriteUsersOU, Writes
<1>16. CASE WriteGroupsOU
  BY <1>16, InitialRow, InitialAssumption DEF WriteGroupsOU, Writes
<1>17. CASE CheckFails
  BY <1>17 DEF CheckFails
<1>18. CASE Crash
  BY <1>18 DEF Crash
<1>19. CASE UNCHANGED vars
  BY <1>19
<1> QED
  BY <1>1, <1>2, <1>3, <1>4, <1>5, <1>6, <1>7, <1>8, <1>9,
     <1>10, <1>11, <1>12, <1>13, <1>14, <1>15, <1>16, <1>17, <1>18, <1>19 DEF Next, Operations, Boots

\* The initial entries are all there, or a start was cut off.
LEMMA AllOrNothingStep ==
  ASSUME TypeOK, Quiet, Progress, AllOrNothing, [Next]_vars
  PROVE  AllOrNothing'
<1> USE DEF TypeOK, Quiet, Progress, AllOrNothing, Complete, Initial, Setup,
        vars, tables, ghosts, Goes, Answers, Idle, Doing
<1>1. ASSUME NEW c \in Clients, NEW d \in Served, NEW class \in Classes,
            NEW attrs \in Attrs, NEW password \in Passwords \cup {None},
            Add(c, d, class, attrs, password)
      PROVE  AllOrNothing'
  BY <1>1, EntryRow, InitialAssumption DEF Add
<1>2. ASSUME NEW c \in Clients, NEW d \in Served,
            Delete(c, d)
      PROVE  AllOrNothing'
  BY <1>2, InitialAssumption DEF Delete
<1>3. ASSUME NEW c \in Clients, NEW d \in Served, NEW attrs \in Attrs,
            FindEntry(c, d, attrs)
      PROVE  AllOrNothing'
  BY <1>3 DEF FindEntry
<1>4. ASSUME NEW c \in Clients, NEW d \in Served, NEW password \in Passwords,
            FindUser(c, d, password)
      PROVE  AllOrNothing'
  BY <1>4 DEF FindUser
<1>5. ASSUME NEW c \in Clients,
            CreateUser(c)
      PROVE  AllOrNothing'
  BY <1>5 DEF CreateUser
<1>6. ASSUME NEW c \in Clients,
            DeleteUser(c)
      PROVE  AllOrNothing'
  BY <1>6 DEF DeleteUser
<1>7. ASSUME NEW c \in Clients,
            UpdateEntry(c)
      PROVE  AllOrNothing'
  BY <1>7, ModifiesWhatIsThere, InitialAssumption DEF UpdateEntry
<1>8. ASSUME NEW c \in Clients,
            WriteLogin(c)
      PROVE  AllOrNothing'
  BY <1>8 DEF WriteLogin
<1>9. ASSUME NEW c \in Clients,
            Fails(c)
      PROVE  AllOrNothing'
  BY <1>9 DEF Fails
<1>10. CASE Start
  BY <1>10 DEF Start
<1>11. CASE CheckBase
  BY <1>11 DEF CheckBase
<1>12. CASE WriteBase
  BY <1>12, InitialRow, InitialAssumption DEF WriteBase, Writes
<1>13. CASE WriteAdminUser
  BY <1>13 DEF WriteAdminUser
<1>14. CASE WriteAdmin
  BY <1>14, InitialRow, InitialAssumption DEF WriteAdmin, Writes
<1>15. CASE WriteUsersOU
  BY <1>15, InitialRow, InitialAssumption DEF WriteUsersOU, Writes
<1>16. CASE WriteGroupsOU
  BY <1>16, InitialRow, InitialAssumption DEF WriteGroupsOU, Writes
<1>17. CASE CheckFails
  BY <1>17 DEF CheckFails
<1>18. CASE Crash
  BY <1>18 DEF Crash
<1>19. CASE UNCHANGED vars
  BY <1>19
<1> QED
  BY <1>1, <1>2, <1>3, <1>4, <1>5, <1>6, <1>7, <1>8, <1>9,
     <1>10, <1>11, <1>12, <1>13, <1>14, <1>15, <1>16, <1>17, <1>18, <1>19 DEF Next, Operations, Boots

\* An ADD or DELETE that met no other stays alone with its DN.
LEMMA OwnsStep ==
  ASSUME TypeOK, Quiet, (\A k \in Clients : Owns(k)), NEW x \in Clients, [Next]_vars
  PROVE  Owns(x)'
<1> USE DEF TypeOK, Quiet, Owns, Works,
        vars, tables, ghosts, Goes, Answers, Idle, Doing
<1>1. ASSUME NEW c \in Clients, NEW d \in Served, NEW class \in Classes,
            NEW attrs \in Attrs, NEW password \in Passwords \cup {None},
            Add(c, d, class, attrs, password)
      PROVE  Owns(x)'
  BY <1>1, InitialAssumption, Meeting DEF Add
<1>2. ASSUME NEW c \in Clients, NEW d \in Served,
            Delete(c, d)
      PROVE  Owns(x)'
  BY <1>2, InitialAssumption, Meeting DEF Delete
<1>3. ASSUME NEW c \in Clients, NEW d \in Served, NEW attrs \in Attrs,
            FindEntry(c, d, attrs)
      PROVE  Owns(x)'
  BY <1>3 DEF FindEntry
<1>4. ASSUME NEW c \in Clients, NEW d \in Served, NEW password \in Passwords,
            FindUser(c, d, password)
      PROVE  Owns(x)'
  BY <1>4 DEF FindUser
<1>5. ASSUME NEW c \in Clients,
            CreateUser(c)
      PROVE  Owns(x)'
  BY <1>5 DEF CreateUser, Settles
<1>6. ASSUME NEW c \in Clients,
            DeleteUser(c)
      PROVE  Owns(x)'
  BY <1>6 DEF DeleteUser, Settles
<1>7. ASSUME NEW c \in Clients,
            UpdateEntry(c)
      PROVE  Owns(x)'
  BY <1>7 DEF UpdateEntry
<1>8. ASSUME NEW c \in Clients,
            WriteLogin(c)
      PROVE  Owns(x)'
  BY <1>8 DEF WriteLogin
<1>9. ASSUME NEW c \in Clients,
            Fails(c)
      PROVE  Owns(x)'
  BY <1>9 DEF Fails
<1>10. CASE Start
  BY <1>10 DEF Start
<1>11. CASE CheckBase
  BY <1>11 DEF CheckBase
<1>12. CASE WriteBase
  BY <1>12 DEF WriteBase, Writes
<1>13. CASE WriteAdminUser
  BY <1>13 DEF WriteAdminUser
<1>14. CASE WriteAdmin
  BY <1>14 DEF WriteAdmin, Writes
<1>15. CASE WriteUsersOU
  BY <1>15 DEF WriteUsersOU, Writes
<1>16. CASE WriteGroupsOU
  BY <1>16 DEF WriteGroupsOU, Writes
<1>17. CASE CheckFails
  BY <1>17 DEF CheckFails
<1>18. CASE Crash
  BY <1>18 DEF Crash
<1>19. CASE UNCHANGED vars
  BY <1>19
<1> QED
  BY <1>1, <1>2, <1>3, <1>4, <1>5, <1>6, <1>7, <1>8, <1>9,
     <1>10, <1>11, <1>12, <1>13, <1>14, <1>15, <1>16, <1>17, <1>18, <1>19 DEF Next, Operations, Boots

\* A BIND has read what is there, or the DN is disturbed.
LEMMA BindStep ==
  ASSUME TypeOK, Quiet, (\A k \in Clients : BindIsFresh(k)), NEW x \in Clients, [Next]_vars
  PROVE  BindIsFresh(x)'
<1> USE DEF TypeOK, Quiet, BindIsFresh,
        vars, tables, ghosts, Goes, Answers, Idle, Doing
<1>1. ASSUME NEW c \in Clients, NEW d \in Served, NEW class \in Classes,
            NEW attrs \in Attrs, NEW password \in Passwords \cup {None},
            Add(c, d, class, attrs, password)
      PROVE  BindIsFresh(x)'
  BY <1>1, InitialAssumption, Meeting DEF Add
<1>2. ASSUME NEW c \in Clients, NEW d \in Served,
            Delete(c, d)
      PROVE  BindIsFresh(x)'
  BY <1>2, InitialAssumption, Meeting DEF Delete
<1>3. ASSUME NEW c \in Clients, NEW d \in Served, NEW attrs \in Attrs,
            FindEntry(c, d, attrs)
      PROVE  BindIsFresh(x)'
  BY <1>3 DEF FindEntry
<1>4. ASSUME NEW c \in Clients, NEW d \in Served, NEW password \in Passwords,
            FindUser(c, d, password)
      PROVE  BindIsFresh(x)'
  BY <1>4 DEF FindUser
<1>5. ASSUME NEW c \in Clients,
            CreateUser(c)
      PROVE  BindIsFresh(x)'
  BY <1>5 DEF CreateUser, Settles, Others
<1>6. ASSUME NEW c \in Clients,
            DeleteUser(c)
      PROVE  BindIsFresh(x)'
  BY <1>6 DEF DeleteUser, Settles
<1>7. ASSUME NEW c \in Clients,
            UpdateEntry(c)
      PROVE  BindIsFresh(x)'
  BY <1>7 DEF UpdateEntry
<1>8. ASSUME NEW c \in Clients,
            WriteLogin(c)
      PROVE  BindIsFresh(x)'
  BY <1>8 DEF WriteLogin
<1>9. ASSUME NEW c \in Clients,
            Fails(c)
      PROVE  BindIsFresh(x)'
  BY <1>9 DEF Fails
<1>10. CASE Start
  BY <1>10 DEF Start
<1>11. CASE CheckBase
  BY <1>11 DEF CheckBase
<1>12. CASE WriteBase
  BY <1>12 DEF WriteBase, Writes
<1>13. CASE WriteAdminUser
  BY <1>13 DEF WriteAdminUser
<1>14. CASE WriteAdmin
  BY <1>14 DEF WriteAdmin, Writes
<1>15. CASE WriteUsersOU
  BY <1>15 DEF WriteUsersOU, Writes
<1>16. CASE WriteGroupsOU
  BY <1>16 DEF WriteGroupsOU, Writes
<1>17. CASE CheckFails
  BY <1>17 DEF CheckFails
<1>18. CASE Crash
  BY <1>18 DEF Crash
<1>19. CASE UNCHANGED vars
  BY <1>19
<1> QED
  BY <1>1, <1>2, <1>3, <1>4, <1>5, <1>6, <1>7, <1>8, <1>9,
     <1>10, <1>11, <1>12, <1>13, <1>14, <1>15, <1>16, <1>17, <1>18, <1>19 DEF Next, Operations, Boots

\* The tables agree again when an ADD or DELETE is over.
LEMMA AgreesStep ==
  ASSUME TypeOK, Quiet, AdminAgrees, (\A k \in Clients : Owns(k) /\ BindIsFresh(k)), (\A d \in DNs : Agrees(d)),
         NEW x \in DNs, [Next]_vars
  PROVE  Agrees(x)'
<1> USE DEF TypeOK, Quiet, AdminAgrees, Agrees, Works,
        vars, tables, ghosts, Goes, Answers, Idle, Doing
<1>1. ASSUME NEW c \in Clients, NEW d \in Served, NEW class \in Classes,
            NEW attrs \in Attrs, NEW password \in Passwords \cup {None},
            Add(c, d, class, attrs, password)
      PROVE  Agrees(x)'
  <2>1. CASE class \in AccountClasses /\ password # None
    <3>1. d \in DNs /\ [op |-> "add", dn |-> d, password |-> password] # None
      <4>1. d \in DNs /\ password \in Passwords
        BY <2>1, InitialAssumption
      <4>2. [op |-> "add", dn |-> d, password |-> password] \in Requests
        BY <4>1, NewRequest
      <4> QED
        BY <4>1, <4>2, RecordAssumption
    <3>2. disturbed \subseteq disturbed'
      BY <1>1, <2>1, <3>1, Meeting DEF Add
    <3>3. req' = [req EXCEPT ![c] = [op |-> "add", dn |-> d, password |-> password]]
      BY <1>1, <2>1 DEF Add
    <3>4. CASE x = d
      BY <3>1, <3>3, <3>4
    <3>5. CASE x # d
      BY <1>1, <2>1, <3>2, <3>3, <3>5 DEF Add
    <3> QED
      BY <3>4, <3>5
  <2>2. CASE ~(class \in AccountClasses /\ password # None)
    BY <1>1, <2>2 DEF Add
  <2> QED
    BY <2>1, <2>2
<1>2. ASSUME NEW c \in Clients, NEW d \in Served,
            Delete(c, d)
      PROVE  Agrees(x)'
  <2>1. d \in DNs /\ [op |-> "delete", dn |-> d] # None
    BY InitialAssumption, NewRequest, RecordAssumption
  <2>2. disturbed \subseteq disturbed'
    BY <1>2, <2>1, Meeting DEF Delete
  <2>3. CASE x = d
    BY <1>2, <2>1, <2>3 DEF Delete
  <2>4. CASE x # d
    BY <1>2, <2>2, <2>4 DEF Delete
  <2> QED
    BY <2>3, <2>4
<1>3. ASSUME NEW c \in Clients, NEW d \in Served, NEW attrs \in Attrs,
            FindEntry(c, d, attrs)
      PROVE  Agrees(x)'
  BY <1>3 DEF FindEntry
<1>4. ASSUME NEW c \in Clients, NEW d \in Served, NEW password \in Passwords,
            FindUser(c, d, password)
      PROVE  Agrees(x)'
  BY <1>4 DEF FindUser
<1>5. ASSUME NEW c \in Clients,
            CreateUser(c)
      PROVE  Agrees(x)'
  BY <1>5, Pending, RequestShape DEF CreateUser, Settles, Owns
<1>6. ASSUME NEW c \in Clients,
            DeleteUser(c)
      PROVE  Agrees(x)'
  BY <1>6, Pending, RequestShape DEF DeleteUser, Settles, Owns
<1>7. ASSUME NEW c \in Clients,
            UpdateEntry(c)
      PROVE  Agrees(x)'
  BY <1>7 DEF UpdateEntry
<1>8. ASSUME NEW c \in Clients,
            WriteLogin(c)
      PROVE  Agrees(x)'
  BY <1>8, Pending, RequestShape DEF WriteLogin, BindIsFresh
<1>9. ASSUME NEW c \in Clients,
            Fails(c)
      PROVE  Agrees(x)'
  BY <1>9 DEF Fails
<1>10. CASE Start
  BY <1>10 DEF Start
<1>11. CASE CheckBase
  BY <1>11 DEF CheckBase
<1>12. CASE WriteBase
  BY <1>12 DEF WriteBase, Writes
<1>13. CASE WriteAdminUser
  BY <1>13 DEF WriteAdminUser
<1>14. CASE WriteAdmin
  BY <1>14 DEF WriteAdmin, Writes
<1>15. CASE WriteUsersOU
  BY <1>15 DEF WriteUsersOU, Writes
<1>16. CASE WriteGroupsOU
  BY <1>16 DEF WriteGroupsOU, Writes
<1>17. CASE CheckFails
  BY <1>17 DEF CheckFails
<1>18. CASE Crash
  BY <1>18 DEF Crash
<1>19. CASE UNCHANGED vars
  BY <1>19
<1> QED
  BY <1>1, <1>2, <1>3, <1>4, <1>5, <1>6, <1>7, <1>8, <1>9,
     <1>10, <1>11, <1>12, <1>13, <1>14, <1>15, <1>16, <1>17, <1>18, <1>19 DEF Next, Operations, Boots

\* setupInitialData leaves the administrator the password it was given.
LEMMA AdminStep ==
  ASSUME TypeOK, Quiet, AdminAgrees, [Next]_vars
  PROVE  AdminAgrees'
<1> USE DEF TypeOK, Quiet, AdminAgrees, Initial,
        vars, tables, ghosts, Goes, Answers, Idle, Doing
<1>1. ASSUME NEW c \in Clients, NEW d \in Served, NEW class \in Classes,
            NEW attrs \in Attrs, NEW password \in Passwords \cup {None},
            Add(c, d, class, attrs, password)
      PROVE  AdminAgrees'
  BY <1>1 DEF Add
<1>2. ASSUME NEW c \in Clients, NEW d \in Served,
            Delete(c, d)
      PROVE  AdminAgrees'
  BY <1>2 DEF Delete
<1>3. ASSUME NEW c \in Clients, NEW d \in Served, NEW attrs \in Attrs,
            FindEntry(c, d, attrs)
      PROVE  AdminAgrees'
  BY <1>3 DEF FindEntry
<1>4. ASSUME NEW c \in Clients, NEW d \in Served, NEW password \in Passwords,
            FindUser(c, d, password)
      PROVE  AdminAgrees'
  BY <1>4 DEF FindUser
<1>5. ASSUME NEW c \in Clients,
            CreateUser(c)
      PROVE  AdminAgrees'
  BY <1>5 DEF CreateUser
<1>6. ASSUME NEW c \in Clients,
            DeleteUser(c)
      PROVE  AdminAgrees'
  BY <1>6 DEF DeleteUser
<1>7. ASSUME NEW c \in Clients,
            UpdateEntry(c)
      PROVE  AdminAgrees'
  BY <1>7 DEF UpdateEntry
<1>8. ASSUME NEW c \in Clients,
            WriteLogin(c)
      PROVE  AdminAgrees'
  BY <1>8 DEF WriteLogin
<1>9. ASSUME NEW c \in Clients,
            Fails(c)
      PROVE  AdminAgrees'
  BY <1>9 DEF Fails
<1>10. CASE Start
  BY <1>10 DEF Start
<1>11. CASE CheckBase
  BY <1>11 DEF CheckBase
<1>12. CASE WriteBase
  BY <1>12 DEF WriteBase, Writes
<1>13. CASE WriteAdminUser
  BY <1>13, InitialAssumption DEF WriteAdminUser
<1>14. CASE WriteAdmin
  BY <1>14 DEF WriteAdmin, Writes
<1>15. CASE WriteUsersOU
  BY <1>15 DEF WriteUsersOU, Writes
<1>16. CASE WriteGroupsOU
  BY <1>16 DEF WriteGroupsOU, Writes
<1>17. CASE CheckFails
  BY <1>17 DEF CheckFails
<1>18. CASE Crash
  BY <1>18 DEF Crash
<1>19. CASE UNCHANGED vars
  BY <1>19
<1> QED
  BY <1>1, <1>2, <1>3, <1>4, <1>5, <1>6, <1>7, <1>8, <1>9,
     <1>10, <1>11, <1>12, <1>13, <1>14, <1>15, <1>16, <1>17, <1>18, <1>19 DEF Next, Operations, Boots

\* Only setupInitialData leaves an account before its entry is there.
LEMMA EntryStep ==
  ASSUME TypeOK, Quiet, NEW x \in DNs, GivenHasEntry(x), [Next]_vars
  PROVE  GivenHasEntry(x)'
<1> USE DEF TypeOK, Quiet, GivenHasEntry, Orphan, Works,
        vars, tables, ghosts, Goes, Answers, Idle, Doing
<1>1. ASSUME NEW c \in Clients, NEW d \in Served, NEW class \in Classes,
            NEW attrs \in Attrs, NEW password \in Passwords \cup {None},
            Add(c, d, class, attrs, password)
      PROVE  GivenHasEntry(x)'
  <2>1. d \in DNs /\ Entry(class, attrs) # None
    BY InitialAssumption, EntryRow
  <2>2. entries' = [entries EXCEPT ![d] = Entry(class, attrs)]
    BY <1>1 DEF Add
  <2>3. CASE x = d
    BY <2>1, <2>2, <2>3
  <2>4. CASE x # d
    <3>1. given'[x] = given[x] /\ entries'[x] = entries[x]
      BY <1>1, <2>2, <2>4 DEF Add
    <3>2. \A k \in Clients : Works(k, x)' => Works(k, x)
      BY <1>1, <2>4 DEF Add
    <3>3. disturbed \subseteq disturbed'
      BY <1>1, <2>1, Meeting DEF Add
    <3> QED
      BY <3>1, <3>2, <3>3
  <2> QED
    BY <2>3, <2>4
<1>2. ASSUME NEW c \in Clients, NEW d \in Served,
            Delete(c, d)
      PROVE  GivenHasEntry(x)'
  <2>1. d \in DNs
    BY InitialAssumption
  <2>2. CASE x = d
    BY <1>2, <2>1, <2>2 DEF Delete
  <2>3. CASE x # d
    BY <1>2, <2>1, <2>3, Meeting DEF Delete
  <2> QED
    BY <2>2, <2>3
<1>3. ASSUME NEW c \in Clients, NEW d \in Served, NEW attrs \in Attrs,
            FindEntry(c, d, attrs)
      PROVE  GivenHasEntry(x)'
  BY <1>3 DEF FindEntry
<1>4. ASSUME NEW c \in Clients, NEW d \in Served, NEW password \in Passwords,
            FindUser(c, d, password)
      PROVE  GivenHasEntry(x)'
  BY <1>4 DEF FindUser
<1>5. ASSUME NEW c \in Clients,
            CreateUser(c)
      PROVE  GivenHasEntry(x)'
  BY <1>5 DEF CreateUser, Settles
<1>6. ASSUME NEW c \in Clients,
            DeleteUser(c)
      PROVE  GivenHasEntry(x)'
  BY <1>6 DEF DeleteUser, Settles
<1>7. ASSUME NEW c \in Clients,
            UpdateEntry(c)
      PROVE  GivenHasEntry(x)'
  BY <1>7, ModifiesWhatIsThere DEF UpdateEntry
<1>8. ASSUME NEW c \in Clients,
            WriteLogin(c)
      PROVE  GivenHasEntry(x)'
  BY <1>8 DEF WriteLogin
<1>9. ASSUME NEW c \in Clients,
            Fails(c)
      PROVE  GivenHasEntry(x)'
  BY <1>9 DEF Fails
<1>10. CASE Start
  BY <1>10 DEF Start
<1>11. CASE CheckBase
  BY <1>11 DEF CheckBase
<1>12. CASE WriteBase
  BY <1>12, InitialRow DEF WriteBase, Writes
<1>13. CASE WriteAdminUser
  BY <1>13 DEF WriteAdminUser
<1>14. CASE WriteAdmin
  BY <1>14, InitialRow DEF WriteAdmin, Writes
<1>15. CASE WriteUsersOU
  BY <1>15, InitialRow DEF WriteUsersOU, Writes
<1>16. CASE WriteGroupsOU
  BY <1>16, InitialRow DEF WriteGroupsOU, Writes
<1>17. CASE CheckFails
  BY <1>17 DEF CheckFails
<1>18. CASE Crash
  BY <1>18 DEF Crash
<1>19. CASE UNCHANGED vars
  BY <1>19
<1> QED
  BY <1>1, <1>2, <1>3, <1>4, <1>5, <1>6, <1>7, <1>8, <1>9,
     <1>10, <1>11, <1>12, <1>13, <1>14, <1>15, <1>16, <1>17, <1>18, <1>19 DEF Next, Operations, Boots

-----------------------------------------------------------------------------
(* The theorems.                                                           *)

\* The invariant holds of the empty tables ...
LEMMA InvariantInit == Init => IInv
<1> SUFFICES ASSUME Init
             PROVE  IInv
  OBVIOUS
<1>1. TypeOK
  <2>1. faults \in 0 .. MaxFaults
    BY FaultsAssumption DEF Init
  <2> QED
    BY <2>1 DEF Init, TypeOK
<1>2. Quiet /\ Progress /\ BaseIsFirst /\ OwnWrites /\ AdminAgrees
  BY DEF Init, Quiet, Progress, BaseIsFirst, Pristine, OwnWrites, AdminAgrees
<1>3. AllOrNothing
  BY InitialAssumption DEF Init, AllOrNothing, Initial
<1>4. \A c \in Clients : Owns(c) /\ BindIsFresh(c)
  BY DEF Init, Owns, BindIsFresh, Works, Doing
<1>5. \A d \in DNs : Agrees(d) /\ GivenHasEntry(d)
  BY DEF Init, Agrees, GivenHasEntry, Orphan
<1> QED
  BY <1>1, <1>2, <1>3, <1>4, <1>5 DEF IInv

\* ... and is kept by every step ...
LEMMA InvariantStep == IInv /\ [Next]_vars => IInv'
<1> SUFFICES ASSUME IInv, [Next]_vars
             PROVE  IInv'
  OBVIOUS
<1>1. TypeOK' /\ Quiet' /\ Progress' /\ BaseIsFirst' /\ OwnWrites' /\ AllOrNothing' /\ AdminAgrees'
  BY TypeStep, QuietStep, ProgressStep, BaseIsFirstStep, OwnWritesStep, AllOrNothingStep, AdminStep
  DEF IInv
<1>2. \A c \in Clients : Owns(c)' /\ BindIsFresh(c)'
  BY OwnsStep, BindStep DEF IInv
<1>3. \A d \in DNs : Agrees(d)' /\ GivenHasEntry(d)'
  BY AgreesStep, EntryStep DEF IInv
<1> QED
  BY <1>1, <1>2, <1>3 DEF IInv

\* ... so it is invariant.
LEMMA Inductive == Spec => []IInv
  BY InvariantInit, InvariantStep, PTL DEF Spec

\* Every variable keeps its type.
THEOREM TypeCorrect == Spec => []TypeOK
<1>1. IInv => TypeOK
  BY DEF IInv
<1> QED
  BY <1>1, Inductive, PTL

\* The accounts follow the entries, whatever a BIND or MODIFY does meanwhile.
THEOREM AccountsFollow == Spec => []AccountsFollowEntries
<1>1. IInv => AccountsFollowEntries
  BY DEF IInv, AccountsFollowEntries, Agrees, Works
<1> QED
  BY <1>1, Inductive, PTL

\* A server that runs has the initial structure, but for what was deleted.
THEOREM TreeStands == Spec => []InitialTreeStands
<1>1. IInv => InitialTreeStands
  BY DEF IInv, InitialTreeStands, AllOrNothing, Complete
<1> QED
  BY <1>1, Inductive, PTL

\* Nobody can bind as an entry that is not there, but where an ADD or DELETE was
\* cut off or met another.
THEOREM AccountsHave == Spec => []AccountsHaveEntries
<1>1. IInv => AccountsHaveEntries
  <2> SUFFICES ASSUME IInv, NEW d \in DNs, d \notin disturbed,
                      \A c \in Clients : Doing(c, "add") \/ Doing(c, "delete") => req[c].dn # d,
                      users[d] # None
               PROVE  entries[d] # None
    BY DEF AccountsHaveEntries
  <2>1. users[d] = given[d]
    BY DEF IInv, Agrees, Works
  <2> QED
    BY <2>1 DEF IInv, GivenHasEntry, Orphan
<1> QED
  BY <1>1, Inductive, PTL

\* A start takes back nothing of the clients'.
THEOREM NothingTakenBack == Spec => RestartKeepsChanges
<1>1. IInv /\ [Next]_vars =>
        [boot # "up" /\ ~redo =>
           \A d \in DNs : /\ entries[d] # None => entries'[d] = entries[d]
                          /\ users[d] # None => users'[d] = users[d]]_vars
  <2> SUFFICES ASSUME IInv, [Next]_vars, boot # "up", ~redo, NEW d \in DNs
               PROVE  /\ entries[d] # None => entries'[d] = entries[d]
                      /\ users[d] # None => users'[d] = users[d]
    BY Zenon
  <2>1. \A c \in Clients : req[c] = None
    BY DEF IInv, Quiet
  <2>2. ASSUME NEW c \in Clients
        PROVE  /\ ~Operations(c) /\ ~CreateUser(c) /\ ~DeleteUser(c)
               /\ ~UpdateEntry(c) /\ ~WriteLogin(c) /\ ~Fails(c)
    BY <2>1 DEF Operations, Add, Delete, FindEntry, FindUser, CreateUser, DeleteUser,
                UpdateEntry, WriteLogin, Fails, Idle, Doing
  <2>3. CASE WriteBase \/ WriteAdmin \/ WriteUsersOU \/ WriteGroupsOU
    BY <2>3, DistinctAssumption
    DEF IInv, TypeOK, OwnWrites, Pristine, Unwritten,
        WriteBase, WriteAdmin, WriteUsersOU, WriteGroupsOU, Writes
  <2>4. CASE WriteAdminUser
    BY <2>4 DEF IInv, TypeOK, OwnWrites, WriteAdminUser
  <2>5. CASE Start \/ CheckBase \/ CheckFails \/ Crash
    BY <2>5 DEF Start, CheckBase, CheckFails, Crash, tables
  <2>6. CASE UNCHANGED vars
    BY <2>6 DEF vars, tables
  <2> QED
    BY <2>2, <2>3, <2>4, <2>5, <2>6 DEF Next, Boots
<1> QED
  BY <1>1, Inductive, PTL DEF Spec, RestartKeepsChanges
=============================================================================
