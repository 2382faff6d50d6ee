----------------------------- MODULE WikiContract -----------------------------
(***************************************************************************)
(* What the wiki of examples/wiki promises the people who use it: an       *)
(* account is one person's, a session is that person's until it ends, and  *)
(* a page stays its author's.                                              *)
(*                                                                         *)
(* Nothing here knows about tables, forms and cookies, about the storage   *)
(* calls that a request is made of, or about when a session expires.       *)
(***************************************************************************)
CONSTANTS
  UserIds, SessionIds, PageIds,
  Signups,   \* accounts people register: [name, email, password]
  Titles, Texts,
  None       \* no account, no session, no page

VARIABLES
  known,     \* the users that have ever had an account
  accounts,  \* by user: the account, None once another has taken its name or email
  opened,    \* by session: the user who opened it, and the account's password
  sessions,  \* by session: the user who has it, None when it is not open
  pages

vars == <<known, accounts, opened, sessions, pages>>

Init ==
  /\ known = {}
  /\ accounts = [u \in UserIds |-> None]
  /\ opened = [s \in SessionIds |-> None]
  /\ sessions = [s \in SessionIds |-> None]
  /\ pages = [p \in PageIds |-> None]

\* Somebody registers, and is a new user; names and emails have one owner.
Join(u, a) ==
  /\ u \notin known /\ known' = known \cup {u}
  /\ accounts' =
       [v \in UserIds |->
          IF v = u THEN a
          ELSE IF accounts[v] # None /\ (accounts[v].name = a.name \/ accounts[v].email = a.email)
          THEN None ELSE accounts[v]]
  /\ UNCHANGED <<opened, sessions, pages>>

\* Somebody who knows the password of a logs in: u has that account, or had it
\* until a moment ago.
Open(s) ==
  /\ opened[s] = None
  /\ \E u \in known, a \in Signups :
       /\ accounts[u] \in {a, None}
       /\ opened' = [opened EXCEPT ![s] = [user |-> u, account |-> a]]
       /\ sessions' = [sessions EXCEPT ![s] = u]
  /\ UNCHANGED <<known, accounts, pages>>

\* By a logout, or because its time is over. An ended session is never there again.
End(s) ==
  /\ sessions[s] # None
  /\ sessions' = [sessions EXCEPT ![s] = None]
  /\ UNCHANGED <<known, accounts, opened, pages>>

\* Who has logged in: what they asked for may be done after the session's end.
LoggedIn == {opened[s].user : s \in {r \in SessionIds : opened[r] # None}}

Page(title, text, author) == [title |-> title, text |-> text, author |-> author]

\* A new page has the one who made it as its author ...
Create(p) ==
  /\ pages[p] = None
  /\ \E title \in Titles, text \in Texts, u \in LoggedIn :
       pages' = [pages EXCEPT ![p] = Page(title, text, u)]
  /\ UNCHANGED <<known, accounts, opened, sessions>>

\* ... and keeps it, whoever that has logged in edits the page.
Edit(p) ==
  /\ pages[p] # None /\ LoggedIn # {}
  /\ \E title \in Titles, text \in Texts :
       pages' = [pages EXCEPT ![p] = Page(title, text, pages[p].author)]
  /\ UNCHANGED <<known, accounts, opened, sessions>>

Next ==
  \/ \E u \in UserIds, a \in Signups : Join(u, a)
  \/ \E s \in SessionIds : Open(s) \/ End(s)
  \/ \E p \in PageIds : Create(p) \/ Edit(p)

Spec == Init /\ [][Next]_vars
=============================================================================
