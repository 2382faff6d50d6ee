------------------------------ MODULE LdapDirectory ------------------------------
(***************************************************************************)
(* examples/ldapd: a directory in two tables of an SQLite storage, the     *)
(* entries and the accounts that people bind as. Every connection of the   *)
(* text protocol and every request of the web interface runs on its own;   *)
(* what they do to the two tables, and what a server does when it starts,  *)
(* is not in transactions: each storage call is an action, and the process *)
(* may die between any two.                                                *)
(***************************************************************************)
EXTENDS Naturals

CONSTANTS
  Clients,     \* connections and web requests
  DNs,
  baseDN, bindDN, usersOU, groupsOU,   \* the entries of setupInitialData
  Served,      \* the DNs clients name
  Classes,     \* the object classes clients give
  Attrs,       \* what else an entry says
  Passwords, bindPW,
  MaxFaults,   \* bound on crashes and failing storage calls
  None         \* no row; nothing under way

Initial == {baseDN, bindDN, usersOU, groupsOU}

ASSUME InitialAssumption == Initial \cup Served \subseteq DNs
ASSUME DistinctAssumption ==
  baseDN # bindDN /\ usersOU \notin {baseDN, bindDN} /\ groupsOU \notin {baseDN, bindDN, usersOU}
ASSUME AttrsAssumption == Attrs # {}
ASSUME PasswordAssumption == bindPW \in Passwords /\ None \notin Passwords
ASSUME FaultsAssumption == MaxFaults \in Nat

\* What setupInitialData says of each of its entries.
InitialClass(d) ==
  IF d = baseDN THEN "organization" ELSE IF d = bindDN THEN "person" ELSE "organizationalUnit"

\* The classes whose entries get an account, if a password is among the attributes.
AccountClasses == {"person", "inetOrgPerson"}

VARIABLES
  entries,    \* the rows of entries, by DN
  users,      \* the rows of users, by DN: the password the hash is of
  boot,       \* "down", a step of setupInitialData, or "up"
  req,        \* by client: the operation under way, with what it has read
  faults,     \* crashes and failed calls so far
  given,      \* history: the password the ADDs and DELETEs of the DN leave it
  disturbed,  \* history: DNs where one of these was cut off, or two met
  met,        \* history: the clients whose ADD or DELETE met another of its DN
  removed,    \* history: the DNs clients have deleted, and nobody has added since
  cut,        \* history: setupInitialData ended early, with its first entry written
  redo        \* history: it goes on although clients may have written

tables  == <<entries, users>>
ghosts  == <<given, disturbed, met, removed, cut, redo>>
vars    == <<tables, boot, req, faults, ghosts>>

Entry(class, attrs) == [class |-> class, attrs |-> attrs]

Init ==
  /\ entries = [d \in DNs |-> None]
  /\ users = [d \in DNs |-> None]
  /\ boot = "down"
  /\ req = [c \in Clients |-> None]
  /\ faults = 0
  /\ given = [d \in DNs |-> None]
  /\ disturbed = {} /\ met = {} /\ removed = {}
  /\ cut = FALSE /\ redo = FALSE

Idle(c)     == boot = "up" /\ req[c] = None
Doing(c, op) == req[c] # None /\ req[c].op = op
Goes(c, r)  == req' = [req EXCEPT ![c] = r]
Answers(c)  == Goes(c, None)

Others(c, d, ops) == {k \in Clients \ {c} : req[k] # None /\ req[k].op \in ops /\ req[k].dn = d}

\* c's first step: an ADD or DELETE of d by another, under way, is met.
Meets(c, d) ==
  LET rivals == Others(c, d, {"add", "delete"})
  IN  IF rivals = {} THEN UNCHANGED <<disturbed, met>>
      ELSE disturbed' = disturbed \cup {d} /\ met' = met \cup rivals \cup {c}

\* c's last step leaves the account of d as "given" has it, unless it met
\* another, or has put a row under one of spoilers.
Settles(c, d, spoilers) ==
  /\ disturbed' = IF c \in met \/ Others(c, d, spoilers) # {} THEN disturbed \cup {d}
                  ELSE disturbed \ {d}
  /\ met' = met \ {c}

-----------------------------------------------------------------------------
(* The operations of a running server.                                     *)

\* ADD: an Insert, which replaces an entry that is there ...
Add(c, d, class, attrs, password) ==
  LET account == class \in AccountClasses /\ password # None
  IN  /\ Idle(c)
      /\ entries' = [entries EXCEPT ![d] = Entry(class, attrs)]
      /\ removed' = removed \ {d}
      /\ IF account
         THEN /\ Goes(c, [op |-> "add", dn |-> d, password |-> password])
              /\ given' = [given EXCEPT ![d] = password]
              /\ Meets(c, d)
         ELSE UNCHANGED <<req, given, disturbed, met>>
      /\ UNCHANGED <<users, boot, faults, cut, redo>>

\* ... and another of the account, if the entry is a person with a password.
CreateUser(c) ==
  LET d == req[c].dn
  IN  /\ Doing(c, "add")
      /\ users' = [users EXCEPT ![d] = req[c].password]
      /\ Answers(c)
      /\ Settles(c, d, {"bind"})
      /\ UNCHANGED <<entries, boot, faults, given, removed, cut, redo>>

\* DELETE: the entry, which has to be there ...
Delete(c, d) ==
  /\ Idle(c)
  /\ entries[d] # None
  /\ entries' = [entries EXCEPT ![d] = None]
  /\ Goes(c, [op |-> "delete", dn |-> d])
  /\ given' = [given EXCEPT ![d] = None]
  /\ removed' = removed \cup {d}
  /\ Meets(c, d)
  /\ UNCHANGED <<users, boot, faults, cut, redo>>

\* Mutant of DeleteUser: the account stays.
MutDeleteUser(c) ==
  LET d == req[c].dn
  IN  /\ Doing(c, "delete")
      /\ Answers(c)
      /\ Settles(c, d, {})
      /\ UNCHANGED <<tables, boot, faults, given, removed, cut, redo>>

\* ... and then the account, if there is one.
DeleteUser(c) ==
  LET d == req[c].dn
  IN  /\ Doing(c, "delete")
      /\ users' = [users EXCEPT ![d] = None]
      /\ Answers(c)
      /\ Settles(c, d, {})
      /\ UNCHANGED <<entries, boot, faults, given, removed, cut, redo>>

\* MODIFY: the entry is read, its attributes are set ...
FindEntry(c, d, attrs) ==
  /\ Idle(c)
  /\ entries[d] # None
  /\ Goes(c, [op |-> "modify", dn |-> d, entry |-> Entry(entries[d].class, attrs)])
  /\ UNCHANGED <<tables, boot, faults, ghosts>>

\* ... and all of it is written back, if there still is a row.
UpdateEntry(c) ==
  LET d == req[c].dn
  IN  /\ Doing(c, "modify")
      /\ entries' = IF entries[d] = None THEN entries ELSE [entries EXCEPT ![d] = req[c].entry]
      /\ Answers(c)
      /\ UNCHANGED <<users, boot, faults, ghosts>>

\* BIND: the account is read and the password compared (the administrator's
\* is compared with the flags before, and nothing is read) ...
FindUser(c, d, password) ==
  /\ Idle(c)
  /\ ~(d = bindDN /\ password = bindPW)
  /\ users[d] = password
  /\ Goes(c, [op |-> "bind", dn |-> d, password |-> password])
  /\ UNCHANGED <<tables, boot, faults, ghosts>>

\* ... and written back as it was read, with the time of the login.
WriteLogin(c) ==
  LET d == req[c].dn
  IN  /\ Doing(c, "bind")
      /\ users' = IF users[d] = None THEN users ELSE [users EXCEPT ![d] = req[c].password]
      /\ Answers(c)
      /\ UNCHANGED <<entries, boot, faults, ghosts>>

\* A storage call of the operation fails. An ADD reports it with its entry in
\* place; a DELETE and a BIND report success all the same.
Fails(c) ==
  /\ faults < MaxFaults /\ faults' = faults + 1
  /\ req[c] # None
  /\ Answers(c)
  /\ disturbed' = disturbed \cup (IF req[c].op \in {"add", "delete"} THEN {req[c].dn} ELSE {})
  /\ met' = met \ {c}
  /\ UNCHANGED <<tables, boot, given, removed, cut, redo>>

-----------------------------------------------------------------------------
(* The start of the server: CreateTables, and setupInitialData.            *)

Setup == {"base", "admin user", "admin", "users", "groups"}

\* main: the tables are there or are created.
Start ==
  /\ boot = "down" /\ boot' = "check"
  /\ redo' = FALSE
  /\ UNCHANGED <<tables, req, faults, given, disturbed, met, removed, cut>>

\* Mutant of CheckBase: it looks for the administrator's entry.
MutCheckBase ==
  /\ boot = "check"
  /\ boot' = IF entries[bindDN] # None THEN "up" ELSE "base"
  /\ redo' = (baseDN \in removed)
  /\ UNCHANGED <<tables, req, faults, given, disturbed, met, removed, cut>>

\* Mutant of CheckBase: a base entry that is there is an error.
MutCheckFound ==
  /\ boot = "check"
  /\ boot' = IF entries[baseDN] # None THEN "down" ELSE "base"
  /\ redo' = (baseDN \in removed)
  /\ UNCHANGED <<tables, req, faults, given, disturbed, met, removed, cut>>

\* Nothing is created if the base entry is there.
CheckBase ==
  /\ boot = "check"
  /\ boot' = IF entries[baseDN] # None THEN "up" ELSE "base"
  /\ redo' = (baseDN \in removed)
  /\ UNCHANGED <<tables, req, faults, given, disturbed, met, removed, cut>>

\* An error of this check counts as "not there".
CheckFails ==
  /\ boot = "check" /\ boot' = "base"
  /\ faults < MaxFaults /\ faults' = faults + 1
  /\ redo' = TRUE
  /\ UNCHANGED <<tables, req, given, disturbed, met, removed, cut>>

\* One Insert of setupInitialData writes d's entry. All of them replace.
Writes(step, d, next) ==
  /\ boot = step /\ boot' = next
  /\ entries' = [entries EXCEPT ![d] = Entry(InitialClass(d), CHOOSE a \in Attrs : TRUE)]
  /\ removed' = removed \ {d}

WriteBase ==
  /\ Writes("base", baseDN, "admin user")
  /\ UNCHANGED <<users, req, faults, given, disturbed, met, cut, redo>>

\* createUser: Insert says "created" whether or not the row was there.
WriteAdminUser ==
  /\ boot = "admin user" /\ boot' = "admin"
  /\ users' = [users EXCEPT ![bindDN] = bindPW]
  /\ given' = [given EXCEPT ![bindDN] = bindPW]
  /\ disturbed' = disturbed \cup {bindDN}
  /\ UNCHANGED <<entries, req, faults, met, removed, cut, redo>>

\* Mutant of WriteAdmin: the DN of the next entry.
MutWriteAdmin ==
  /\ Writes("admin", usersOU, "users")
  /\ disturbed' = disturbed \ {bindDN}
  /\ UNCHANGED <<users, req, faults, given, met, cut, redo>>

WriteAdmin ==
  /\ Writes("admin", bindDN, "users")
  /\ disturbed' = disturbed \ {bindDN}
  /\ UNCHANGED <<users, req, faults, given, met, cut, redo>>

WriteUsersOU ==
  /\ Writes("users", usersOU, "groups")
  /\ UNCHANGED <<users, req, faults, given, disturbed, met, cut, redo>>

\* Mutant of WriteGroupsOU: the units have the same DN.
MutWriteGroupsOU ==
  /\ Writes("groups", usersOU, "up")
  /\ cut' = FALSE
  /\ UNCHANGED <<users, req, faults, given, disturbed, met, redo>>

WriteGroupsOU ==
  /\ Writes("groups", groupsOU, "up")
  /\ cut' = FALSE
  /\ UNCHANGED <<users, req, faults, given, disturbed, met, redo>>

\* The process dies: by a crash, or during the start by log.Fatalf when a
\* storage call failed. Nothing that was under way is taken up again.
Crash ==
  /\ boot # "down" /\ boot' = "down"
  /\ faults < MaxFaults /\ faults' = faults + 1
  /\ req' = [c \in Clients |-> None]
  /\ disturbed' = disturbed \cup
       {req[c].dn : c \in {k \in Clients : req[k] # None /\ req[k].op \in {"add", "delete"}}}
  /\ met' = {}
  /\ cut' = (cut \/ boot \in Setup \ {"base"})
  /\ UNCHANGED <<tables, given, removed, redo>>

Operations(c) ==
  \/ \E d \in Served, class \in Classes, attrs \in Attrs, password \in Passwords \cup {None} :
       Add(c, d, class, attrs, password)
  \/ \E d \in Served : Delete(c, d)
  \/ \E d \in Served, attrs \in Attrs : FindEntry(c, d, attrs)
  \/ \E d \in Served, password \in Passwords : FindUser(c, d, password)

Boots ==
  \/ Start \/ CheckBase
  \/ WriteBase \/ WriteAdminUser \/ WriteAdmin \/ WriteUsersOU \/ WriteGroupsOU

Next ==
  \/ \E c \in Clients :
       \/ Operations(c)
       \/ CreateUser(c) \/ DeleteUser(c) \/ UpdateEntry(c) \/ WriteLogin(c)
       \/ Fails(c)
  \/ Boots
  \/ CheckFails \/ Crash

Spec == Init /\ [][Next]_vars

\* A server that is down is started again, and starts.
FairSpec == Spec /\ WF_vars(Boots)

-----------------------------------------------------------------------------
(* Properties.                                                             *)

Entries  == [class : Classes \cup {"organization", "person", "organizationalUnit"}, attrs : Attrs]
Requests == [op : {"add", "bind"}, dn : DNs, password : Passwords]
            \cup [op : {"delete"}, dn : DNs]
            \cup [op : {"modify"}, dn : DNs, entry : Entries]

ASSUME RecordAssumption == None \notin Entries \cup Requests

\* The types of the variables.
TypeOK ==
  /\ entries \in [DNs -> Entries \cup {None}]
  /\ users \in [DNs -> Passwords \cup {None}]
  /\ boot \in {"down", "check", "up"} \cup Setup
  /\ req \in [Clients -> Requests \cup {None}]
  /\ faults \in 0 .. MaxFaults
  /\ given \in [DNs -> Passwords \cup {None}]
  /\ disturbed \subseteq DNs /\ met \subseteq Clients /\ removed \subseteq DNs
  /\ cut \in BOOLEAN /\ redo \in BOOLEAN

\* The two tables agree: the account of a DN is the one that its ADDs and
\* DELETEs leave it, none after a DELETE, however binds and modifications run
\* between their steps. Only an ADD or DELETE that was cut off, or that met
\* another or (an ADD) a bind of the DN, may leave something else, and the
\* next one that is left alone puts it right.
AccountsFollowEntries ==
  \A d \in DNs : d \notin disturbed /\ (\A c \in Clients : ~Doing(c, "add") /\ ~Doing(c, "delete")) =>
    users[d] = given[d]

\* Nobody can bind as an entry that is not there: an account has its entry,
\* whichever clients deleted the entry meanwhile and wherever the start of the
\* server, which writes the administrator's account first, was cut off. Only an
\* ADD or DELETE of the DN that was cut off or met another may leave it without.
AccountsHaveEntries ==
  \A d \in DNs \ disturbed :
    (\A c \in Clients : Doing(c, "add") \/ Doing(c, "delete") => req[c].dn # d) =>
      (users[d] # None => entries[d] # None)

\* A server that runs has the initial structure (README: "The server
\* automatically creates the following initial structure") but for what was
\* deleted, unless setupInitialData was cut off: it is never completed then.
InitialTreeStands ==
  boot = "up" /\ ~cut => \A d \in Initial \ removed : entries[d] # None

\* A start takes back nothing that clients wrote, unless they deleted the
\* base entry, or its check failed.
RestartKeepsChanges ==
  [][boot # "up" /\ ~redo =>
       \A d \in DNs : /\ entries[d] # None => entries'[d] = entries[d]
                      /\ users[d] # None => users'[d] = users[d]]_vars

\* Whatever half of its data a crash left, the server starts again.
StartsAgain == boot = "down" ~> boot = "up"
=============================================================================
