------------------------------- MODULE WikiServer -------------------------------
(***************************************************************************)
(* examples/wiki: accounts, sessions and pages in an SQLite storage, and   *)
(* the HTTP handlers that several browsers call at once. A handler is one  *)
(* to five storage calls with those of other requests between them; each   *)
(* call is an action. A tab sends one request at a time; a form that it    *)
(* was served stays in it until it asks for another page, and may be sent  *)
(* late, and more than once.                                               *)
(***************************************************************************)
CONSTANTS
  Tabs,        \* browser tabs: any of them may hold any session's cookie
  UserIds, SessionIds, PageIds,   \* what generateID returns, never twice
  Signups,     \* accounts people register: [name, email, password]
  Titles, Texts,
  Asked,       \* the titles that forms are asked for; any title can be sent
  None         \* no row, no form, no request

ASSUME NoneAssumption == None \notin UserIds \cup SessionIds \cup PageIds
ASSUME SignupAssumption ==
  \A a \in Signups : DOMAIN a = {"name", "email", "password"} /\ a # None

ASSUME AskedAssumption == Asked \subseteq Titles

\* No id is drawn twice, so that no user has the id of a session or a page.
ASSUME IdsAssumption == UserIds \cap (SessionIds \cup PageIds) = {}

VARIABLES
  users,      \* the rows of users, by id
  sessions,   \* the rows of sessions: the id of the user
  pages,      \* the rows of wiki_pages
  drawn,      \* the ids generateID has returned
  expired,    \* the sessions stored whose 24 hours are over
  form,       \* by tab: the edit form it shows, the page's id in it or None
  req,        \* by tab: the request under way, with what it has read
  opened,     \* history: the user, and the account whose password opened the session
  ended,      \* history: sessions that a logout, or the check of one expired, deleted
  unseen      \* history: by tab, the pages of the form's title that it was served without:
              \* those that got the title since then, and those a failed lookup kept from it

vars == <<users, sessions, pages, drawn, expired, form, req, opened, ended, unseen>>

tables == <<users, sessions, pages, drawn>>
ghosts == <<opened, ended, unseen>>

Init ==
  /\ users = [u \in UserIds |-> None]
  /\ sessions = [s \in SessionIds |-> None]
  /\ pages = [p \in PageIds |-> None]
  /\ drawn = {} /\ expired = {} /\ ended = {}
  /\ form = [t \in Tabs |-> None]
  /\ req = [t \in Tabs |-> None]
  /\ opened = [s \in SessionIds |-> None]
  /\ unseen = [t \in Tabs |-> {}]

Idle(t)       == req[t] = None
Goes(t, r)    == req' = [req EXCEPT ![t] = r]
Answers(t)    == Goes(t, None)
Leaves(t)     == form' = [form EXCEPT ![t] = None] /\ unseen' = [unseen EXCEPT ![t] = {}]
At(t, at)     == req[t] # None /\ req[t].at = at
Fresh(ids)    == ids \ drawn
Draws(id)     == drawn' = drawn \cup {id}
Titled(title) == {p \in PageIds : pages[p] # None /\ pages[p].title = title}

-----------------------------------------------------------------------------
(* Accounts and sessions.                                                  *)

\* The accounts INSERT OR REPLACE removes to make room for a.
Evicted(a) == {v \in UserIds : /\ users[v] # None
                               /\ users[v].name = a.name \/ users[v].email = a.email}

\* Mutant of Register: an account with the name or email is overwritten in place.
MutRegister(t, u, a) ==
  /\ Idle(t) /\ u \in Fresh(UserIds)
  /\ users' = [v \in UserIds |->
                 IF v \in Evicted(a) \/ (v = u /\ Evicted(a) = {}) THEN a ELSE users[v]]
  /\ Draws(u)
  /\ Leaves(t)
  /\ UNCHANGED <<sessions, pages, expired, req, opened, ended>>

\* POST /register: one Insert, of a row with a new id.
Register(t, u, a) ==
  /\ Idle(t) /\ u \in Fresh(UserIds)
  /\ users' = [v \in UserIds |->
                 IF v = u THEN a ELSE IF v \in Evicted(a) THEN None ELSE users[v]]
  /\ Draws(u)
  /\ Leaves(t)
  /\ UNCHANGED <<sessions, pages, expired, req, opened, ended>>

\* POST /login: finds the account by its name and compares the password ...
Login(t, u, a) ==
  /\ Idle(t)
  /\ users[u] = a
  /\ Goes(t, [at |-> "session", user |-> u, account |-> a])
  /\ Leaves(t)
  /\ UNCHANGED <<tables, expired, opened, ended>>

\* ... and stores a session, whether or not the account is still there.
CreateSession(t, s) ==
  /\ At(t, "session") /\ s \in Fresh(SessionIds)
  /\ sessions' = [sessions EXCEPT ![s] = req[t].user]
  /\ Draws(s)
  /\ opened' = [opened EXCEPT ![s] = [user |-> req[t].user, account |-> req[t].account]]
  /\ Answers(t)
  /\ UNCHANGED <<users, pages, expired, form, ended, unseen>>

Expire(s) ==
  /\ sessions[s] # None /\ s \notin expired
  /\ expired' = expired \cup {s}
  /\ UNCHANGED <<tables, form, req, ghosts>>

Ends(s) ==
  /\ sessions' = [sessions EXCEPT ![s] = None]
  /\ expired' = expired \ {s}
  /\ ended' = ended \cup {s}

\* /logout deletes the row of the cookie, whether or not there is one.
Logout(t, s) ==
  /\ Idle(t) /\ s \in drawn
  /\ Ends(s)
  /\ Leaves(t)
  /\ UNCHANGED <<users, pages, drawn, req, opened>>

-----------------------------------------------------------------------------
(* ValidateSession: what a request does before its handler. "work" is what *)
(* the handler is asked for.                                               *)

\* A request with the cookie of s, for a row that is there.
FindSession(t, s, work) ==
  /\ Idle(t)
  /\ sessions[s] # None
  /\ Goes(t, [at |-> IF s \in expired THEN "expired" ELSE "user",
              session |-> s, user |-> sessions[s], work |-> work])
  /\ IF work.op = "save" THEN UNCHANGED <<form, unseen>> ELSE Leaves(t)
  /\ UNCHANGED <<tables, expired, opened, ended>>

\* The row of an expired session is deleted, and the request refused.
DeleteExpired(t) ==
  /\ At(t, "expired")
  /\ Ends(req[t].session)
  /\ Answers(t)
  /\ UNCHANGED <<users, pages, drawn, form, opened, unseen>>

\* The request in its handler: a page that it creates has the user as author.
Handled(t) == [at |-> req[t].work.op, author |-> req[t].user, work |-> req[t].work]

\* Mutant of FindUser: the session is written back with a new expiry.
MutFindUser(t) ==
  /\ At(t, "user")
  /\ users[req[t].user] # None
  /\ sessions' = [sessions EXCEPT ![req[t].session] = req[t].user]
  /\ Goes(t, Handled(t))
  /\ UNCHANGED <<users, pages, drawn, expired, form, ghosts>>

\* The account of the session; without one the request is refused.
FindUser(t) ==
  /\ At(t, "user")
  /\ IF users[req[t].user] = None \/ req[t].work.op = "view"
     THEN Answers(t)
     ELSE Goes(t, Handled(t))
  /\ UNCHANGED <<tables, expired, form, ghosts>>

-----------------------------------------------------------------------------
(* The edit form.                                                          *)

Shows(t, page, without) ==
  /\ form' = [form EXCEPT ![t] = [page |-> page, title |-> req[t].work.title]]
  /\ unseen' = [unseen EXCEPT ![t] = without]
  /\ Answers(t)
  /\ UNCHANGED <<tables, expired, opened, ended>>

\* Mutant of ServeForm: the form never says which page it is about.
MutServeForm(t) == At(t, "edit") /\ Shows(t, None, {})

\* GET /edit: the form of a page with the title asked for (of any, if there
\* are several), or an empty one.
ServeForm(t) ==
  LET found == Titled(req[t].work.title)
  IN  /\ At(t, "edit")
      /\ IF found = {} THEN Shows(t, None, {}) ELSE \E p \in found : Shows(t, p, {})

\* Any error of the lookup is taken for "no such page": an empty form too.
LookupFails(t) == At(t, "edit") /\ Shows(t, None, Titled(req[t].work.title))

\* Page p gets its row; title is new to it or not.
Puts(p, row) ==
  /\ pages' = [pages EXCEPT ![p] = row]
  /\ unseen' = [t \in Tabs |->
                 IF form[t] # None /\ row.title = form[t].title /\ p \notin Titled(row.title)
                 THEN unseen[t] \cup {p} ELSE unseen[t]]

Row(t) == [title |-> req[t].work.title, text |-> req[t].work.text, author |-> req[t].author]

\* POST /edit of a form without a page: a row with a new id.
CreatePage(t, p) ==
  /\ At(t, "save") /\ form[t].page = None /\ p \in Fresh(PageIds)
  /\ Puts(p, Row(t))
  /\ Draws(p)
  /\ Answers(t)
  /\ UNCHANGED <<users, sessions, expired, form, opened, ended>>

\* POST /edit of a form with a page: the row is read ...
GetPage(t) ==
  /\ At(t, "save") /\ form[t].page # None
  /\ IF pages[form[t].page] = None THEN Answers(t)
     ELSE Goes(t, [req[t] EXCEPT !.at = "update", !.author = pages[form[t].page].author])
  /\ UNCHANGED <<tables, expired, form, ghosts>>

\* ... and written as a whole, with the author that was read, if it is there.
UpdatePage(t) ==
  /\ At(t, "update")
  /\ IF pages[form[t].page] = None THEN UNCHANGED <<pages, unseen>>
     ELSE Puts(form[t].page, Row(t))
  /\ Answers(t)
  /\ UNCHANGED <<users, sessions, drawn, expired, form, opened, ended>>

\* A storage call of the request returns an error ("database is locked"), and
\* the request is answered with one; but see LookupFails.
Fails(t) ==
  /\ req[t] # None /\ ~At(t, "edit")
  /\ Answers(t)
  /\ UNCHANGED <<tables, expired, form, ghosts>>

\* What a tab asks for: a page to read, a form, or that its form be saved.
View    == [op |-> "view"]
Edits   == [op : {"edit"}, title : Asked]
Saves   == [op : {"save"}, title : Titles, text : Texts]
Work(t) == {View} \cup Edits \cup IF form[t] = None THEN {} ELSE Saves

Next ==
  \/ \E t \in Tabs :
       \/ \E u \in UserIds, a \in Signups : Register(t, u, a) \/ Login(t, u, a)
       \/ \E s \in SessionIds : CreateSession(t, s) \/ Logout(t, s)
       \/ \E s \in SessionIds, work \in Work(t) : FindSession(t, s, work)
       \/ DeleteExpired(t) \/ FindUser(t) \/ ServeForm(t) \/ LookupFails(t)
       \/ \E p \in PageIds : CreatePage(t, p)
       \/ GetPage(t) \/ UpdatePage(t)
       \/ Fails(t)
  \/ \E s \in SessionIds : Expire(s)

Spec == Init /\ [][Next]_vars

-----------------------------------------------------------------------------
(* Properties.                                                             *)

Pages == [title : Titles, text : Texts, author : UserIds]
Forms == [page : PageIds \cup {None}, title : Asked]
Openings == [user : UserIds, account : Signups]

Requests ==
  [at : {"session"}, user : UserIds, account : Signups]
  \cup [at : {"expired", "user"}, session : SessionIds, user : UserIds,
        work : {View} \cup Edits \cup Saves]
  \cup [at : {"edit"}, author : UserIds, work : Edits]
  \cup [at : {"save", "update"}, author : UserIds, work : Saves]

ASSUME RecordAssumption == None \notin Pages \cup Forms \cup Openings \cup Requests

\* The types of the variables.
TypeOK ==
  /\ users \in [UserIds -> Signups \cup {None}]
  /\ sessions \in [SessionIds -> UserIds \cup {None}]
  /\ pages \in [PageIds -> Pages \cup {None}]
  /\ drawn \subseteq UserIds \cup SessionIds \cup PageIds
  /\ expired \subseteq SessionIds /\ ended \subseteq SessionIds
  /\ form \in [Tabs -> Forms \cup {None}]
  /\ req \in [Tabs -> Requests \cup {None}]
  /\ opened \in [SessionIds -> Openings \cup {None}]
  /\ unseen \in [Tabs -> SUBSET PageIds]

\* A session that was logged out, or was found expired, is never there again:
\* no request that read it before can bring it back.
EndedStayGone == \A s \in ended : sessions[s] = None

\* A session never passes to another account than the one whose password
\* opened it, also when a registration takes that account's name or email.
SessionKeepsAccount ==
  \A s \in SessionIds : sessions[s] # None =>
    users[sessions[s]] \in {None, opened[s].account}

\* A page keeps its author, whoever edits it and whatever was read before.
AuthorKept ==
  [][\A p \in PageIds : pages[p] # None /\ pages'[p] # None =>
       pages'[p].author = pages[p].author]_vars

\* A form makes a second page of the title it was served for only if the others
\* got the title after it was served (a race of two editors, or a form sent
\* again), or if the lookup it was served from failed.
DuplicatesAreUnseen ==
  [][\A t \in Tabs, p \in PageIds : CreatePage(t, p) =>
       LET title == req[t].work.title
       IN  title = form[t].title => Titled(title) \subseteq unseen[t]]_vars

Contract == INSTANCE WikiContract
  WITH known <- UserIds \cap drawn, accounts <- users

\* The wiki keeps its promises to the people who use it, however the storage
\* calls of their requests interleave and whichever of them fail: each is a step
\* of one person's, or is not seen at all.
ImplementsContract == Contract!Spec
=============================================================================
