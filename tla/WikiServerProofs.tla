--------------------------- MODULE WikiServerProofs ---------------------------
(***************************************************************************)
(* What holds of the wiki's accounts, sessions and pages for any number of *)
(* tabs, accounts and pages, whatever the handlers' calls interleave with. *)
(***************************************************************************)
EXTENDS WikiServer, TLAPS

-----------------------------------------------------------------------------
(* The inductive invariant.                                                *)

\* Who has opened a session.
LoggedIn == Contract!LoggedIn

\* A row of sessions is of the user who opened the session.
RowIsOpeners ==
  \A s \in SessionIds : sessions[s] # None => opened[s] # None /\ opened[s].user = sessions[s]

\* What is stored was drawn by generateID, and so was what has ended.
OnlyDrawn ==
  /\ ended \subseteq drawn
  /\ \A s \in SessionIds : sessions[s] # None => s \in drawn /\ sessions[s] \in drawn
  /\ \A s \in SessionIds : opened[s] # None => s \in drawn
  /\ \A u \in UserIds : users[u] # None => u \in drawn
  /\ \A p \in PageIds : pages[p] # None => p \in drawn

\* What the request of t has read still stands, as far as it relies on it.
ReadStands(t) ==
  req[t] # None =>
    /\ req[t].at = "session" =>
         req[t].user \in drawn /\ users[req[t].user] \in {None, req[t].account}
    /\ req[t].at \in {"expired", "user"} => req[t].session \in drawn
    /\ req[t].at \in {"expired", "user"} /\ req[t].work \in Saves => form[t] # None
    /\ req[t].at \in {"save", "update"} => form[t] # None
    /\ req[t].at \in {"expired", "user"} => req[t].user \in LoggedIn
    /\ req[t].at \in {"edit", "save"} => req[t].author \in LoggedIn
    /\ req[t].at = "update" =>
         /\ LoggedIn # {}
         /\ form[t].page \in PageIds /\ pages[form[t].page] # None
         /\ req[t].author = pages[form[t].page].author

\* What a form for a new page was served without are all the pages of its title.
LacksUnseen(t) ==
  form[t] # None /\ form[t].page = None => Titled(form[t].title) \subseteq unseen[t]

IInv ==
  /\ TypeOK /\ OnlyDrawn /\ RowIsOpeners
  /\ EndedStayGone /\ SessionKeepsAccount
  /\ \A t \in Tabs : ReadStands(t) /\ LacksUnseen(t)

\* Which request it is says what it carries.
LEMMA RequestShape ==
  ASSUME NEW r \in Requests
  PROVE  /\ r.at \in {"session", "expired", "user", "edit", "save", "update"}
         /\ r.at = "session" => r \in [at : {"session"}, user : UserIds, account : Signups]
         /\ r.at \in {"expired", "user"} =>
              r \in [at : {"expired", "user"}, session : SessionIds, user : UserIds,
                     work : {View} \cup Edits \cup Saves]
         /\ r.at = "edit" => r \in [at : {"edit"}, author : UserIds, work : Edits]
         /\ r.at \in {"save", "update"} =>
              r \in [at : {"save", "update"}, author : UserIds, work : Saves]
  BY DEF Requests

\* What is asked for is a page to read, a form, or a save.
LEMMA WorkShape ==
  /\ View.op = "view"
  /\ \A w \in Edits : w.op = "edit" /\ w.title \in Asked
  /\ \A w \in Saves : w.op = "save" /\ w.title \in Titles /\ w.text \in Texts
  BY DEF View, Edits, Saves

\* A request that goes on, or a new one, is a request.
LEMMA GoesType ==
  ASSUME TypeOK, NEW t \in Tabs, NEW r \in Requests \cup {None}, Goes(t, r)
  PROVE  /\ req' \in [Tabs -> Requests \cup {None}]
         /\ req'[t] = r
         /\ \A q \in Tabs \ {t} : req'[q] = req[q]
  BY DEF Goes, TypeOK

\* A tab that asks for another page has no form any more.
LEMMA LeavesType ==
  ASSUME TypeOK, NEW t \in Tabs, Leaves(t)
  PROVE  /\ form' \in [Tabs -> Forms \cup {None}] /\ unseen' \in [Tabs -> SUBSET PageIds]
         /\ form'[t] = None
         /\ \A q \in Tabs \ {t} : form'[q] = form[q] /\ unseen'[q] = unseen[q]
  BY DEF Leaves, TypeOK

\* Nobody who has logged in is forgotten.
LEMMA StaysLoggedIn ==
  ASSUME \A s \in SessionIds : opened[s] # None => opened'[s] = opened[s]
  PROVE  LoggedIn \subseteq LoggedIn'
  BY DEF LoggedIn, Contract!LoggedIn

\* The user of a session that is there has logged in.
LEMMA OpenerLoggedIn ==
  ASSUME IInv, NEW s \in SessionIds, sessions[s] # None
  PROVE  sessions[s] \in LoggedIn
  BY DEF IInv, RowIsOpeners, LoggedIn, Contract!LoggedIn

\* The same people have logged in while no session is opened.
LEMMA SameLoggedIn == opened' = opened => LoggedIn' = LoggedIn
  BY DEF LoggedIn, Contract!LoggedIn

\* Where nothing that a tab relies on changes, it goes on relying on it.
LEMMA SameTab ==
  ASSUME NEW q \in Tabs, ReadStands(q), LacksUnseen(q), UNCHANGED <<users, pages>>,
         req'[q] = req[q], form'[q] = form[q], unseen'[q] = unseen[q], drawn \subseteq drawn',
         \A s \in SessionIds : opened[s] # None => opened'[s] = opened[s]
  PROVE  (ReadStands(q) /\ LacksUnseen(q))'
  BY StaysLoggedIn DEF ReadStands, LacksUnseen, Titled

-----------------------------------------------------------------------------
(* Every step keeps it.                                                    *)

\* A registration, whomever it evicts: the account has a new id.
LEMMA RegisterKeeps ==
  ASSUME IInv, NEW t \in Tabs, NEW u \in UserIds, NEW a \in Signups, Register(t, u, a)
  PROVE  IInv'
<1>1. /\ users' = [v \in UserIds |-> IF v = u THEN a ELSE IF v \in Evicted(a) THEN None ELSE users[v]]
      /\ u \notin drawn /\ drawn' = drawn \cup {u} /\ req[t] = None
      /\ UNCHANGED <<sessions, pages, expired, req, opened, ended>> /\ Leaves(t)
  BY DEF Register, Fresh, Draws, Idle
<1>2. TypeOK /\ TypeOK'
  BY <1>1, LeavesType DEF IInv, TypeOK
<1>3. OnlyDrawn'
  BY <1>1 DEF IInv, OnlyDrawn
<1>4. EndedStayGone' /\ RowIsOpeners' /\ LoggedIn' = LoggedIn
  BY <1>1 DEF IInv, EndedStayGone, RowIsOpeners, LoggedIn, Contract!LoggedIn
<1>5. \A v \in UserIds \cap drawn : users'[v] \in {None, users[v]}
  BY <1>1
<1>6. SessionKeepsAccount'
  BY <1>1, <1>2, <1>5 DEF IInv, OnlyDrawn, SessionKeepsAccount, TypeOK
<1>7. ASSUME NEW q \in Tabs
      PROVE  (ReadStands(q) /\ LacksUnseen(q))'
  <2>1. CASE q = t
    BY <1>1, <1>2, <2>1, LeavesType DEF ReadStands, LacksUnseen
  <2>2. CASE q # t
    <3>1. form'[q] = form[q] /\ unseen'[q] = unseen[q]
      BY <1>1, <1>2, <2>2, LeavesType
    <3>2. LacksUnseen(q)'
      BY <1>1, <3>1 DEF IInv, LacksUnseen, Titled
    <3>3. req[q] # None /\ req[q].at = "session" => req[q].user \in UserIds
      BY <1>2, RequestShape DEF TypeOK
    <3>4. ReadStands(q)'
      BY <1>1, <1>4, <1>5, <3>1, <3>3 DEF IInv, ReadStands
    <3> QED
      BY <3>2, <3>4
  <2> QED
    BY <2>1, <2>2
<1> QED
  BY <1>2, <1>3, <1>4, <1>6, <1>7 DEF IInv

\* The password is compared with an account that is there.
LEMMA LoginKeeps ==
  ASSUME IInv, NEW t \in Tabs, NEW u \in UserIds, NEW a \in Signups, Login(t, u, a)
  PROVE  IInv'
<1> DEFINE r == [at |-> "session", user |-> u, account |-> a]
<1>1. /\ users[u] = a /\ Goes(t, r) /\ Leaves(t)
      /\ UNCHANGED <<tables, expired, opened, ended>>
  BY DEF Login
<1>2. r \in Requests /\ TypeOK
  BY DEF Requests, IInv
<1> HIDE DEF r
<1>3. TypeOK'
  BY <1>1, <1>2, LeavesType, GoesType DEF TypeOK, tables
<1>4. OnlyDrawn' /\ RowIsOpeners' /\ EndedStayGone' /\ SessionKeepsAccount'
  BY <1>1 DEF IInv, OnlyDrawn, RowIsOpeners, EndedStayGone, SessionKeepsAccount, tables
<1>5. u \in drawn
  BY <1>1, SignupAssumption DEF IInv, OnlyDrawn
<1>6. ASSUME NEW q \in Tabs
      PROVE  (ReadStands(q) /\ LacksUnseen(q))'
  <2>1. CASE q = t
    <3>1. req'[q] = r /\ form'[q] = None
      BY <1>1, <1>2, <2>1, LeavesType, GoesType
    <3> QED
      BY <1>1, <1>5, <3>1 DEF ReadStands, LacksUnseen, tables, r
  <2>2. CASE q # t
    <3>1. form'[q] = form[q] /\ unseen'[q] = unseen[q] /\ req'[q] = req[q]
      BY <1>1, <1>2, <2>2, LeavesType, GoesType
    <3> QED
      BY <1>1, <3>1, SameTab DEF IInv, tables
  <2> QED
    BY <2>1, <2>2
<1> QED
  BY <1>3, <1>4, <1>6 DEF IInv

\* The session has a new id, so that none that ended comes back.
LEMMA CreateSessionKeeps ==
  ASSUME IInv, NEW t \in Tabs, NEW s \in SessionIds, CreateSession(t, s)
  PROVE  IInv'
<1>1. /\ req[t] # None /\ req[t].at = "session" /\ s \notin drawn
      /\ sessions' = [sessions EXCEPT ![s] = req[t].user]
      /\ drawn' = drawn \cup {s} /\ opened' = [opened EXCEPT ![s] = [user |-> req[t].user, account |-> req[t].account]]
      /\ Goes(t, None) /\ UNCHANGED <<users, pages, expired, form, ended, unseen>>
  BY DEF CreateSession, At, Fresh, Draws, Answers
<1>2. /\ TypeOK /\ req[t].user \in UserIds /\ req[t].account \in Signups
      /\ req[t].user \in drawn /\ users[req[t].user] \in {None, req[t].account}
      /\ opened[s] = None
  BY <1>1, RequestShape DEF IInv, TypeOK, ReadStands, OnlyDrawn
<1>3. TypeOK' /\ \A x \in SessionIds : opened[x] # None => opened'[x] = opened[x]
  <2>1. [user |-> req[t].user, account |-> req[t].account] \in Openings
    BY <1>2 DEF Openings
  <2> QED
    BY <1>1, <1>2, <2>1, GoesType DEF TypeOK
<1>4. OnlyDrawn'
  BY <1>1, <1>2 DEF IInv, OnlyDrawn, TypeOK
<1>5. EndedStayGone'
  BY <1>1, <1>2 DEF IInv, OnlyDrawn, EndedStayGone, TypeOK
<1>6. RowIsOpeners' /\ SessionKeepsAccount'
  <2>1. /\ \A x \in SessionIds \ {s} : opened'[x] = opened[x] /\ sessions'[x] = sessions[x]
        /\ opened'[s] = [user |-> req[t].user, account |-> req[t].account]
        /\ sessions'[s] = req[t].user /\ opened'[s] \in Openings
    BY <1>1, <1>2 DEF TypeOK, Openings
  <2>2. opened'[s] # None
    BY <2>1, RecordAssumption
  <2> QED
    BY <1>1, <1>2, <2>1, <2>2 DEF IInv, RowIsOpeners, SessionKeepsAccount
<1>7. ASSUME NEW q \in Tabs
      PROVE  (ReadStands(q) /\ LacksUnseen(q))'
  <2>1. CASE q = t
    BY <1>1, <1>2, <2>1, GoesType DEF IInv, ReadStands, LacksUnseen, Titled
  <2>2. CASE q # t
    BY <1>1, <1>2, <1>3, <2>2, GoesType, SameTab DEF IInv
  <2> QED
    BY <2>1, <2>2
<1> QED
  BY <1>3, <1>4, <1>5, <1>6, <1>7 DEF IInv

\* A session ends.
LEMMA EndsKeeps ==
  ASSUME IInv, NEW s \in SessionIds \cap drawn, Ends(s), UNCHANGED <<users, pages, drawn, opened>>
  PROVE  /\ OnlyDrawn' /\ RowIsOpeners' /\ EndedStayGone' /\ SessionKeepsAccount'
         /\ sessions' \in [SessionIds -> UserIds \cup {None}]
         /\ expired' \subseteq SessionIds /\ ended' \subseteq SessionIds
<1>1. TypeOK /\ sessions' = [sessions EXCEPT ![s] = None] /\ expired' = expired \ {s} /\ ended' = ended \cup {s}
  BY DEF IInv, Ends
<1>2. /\ sessions' \in [SessionIds -> UserIds \cup {None}]
      /\ expired' \subseteq SessionIds /\ ended' \subseteq SessionIds
  BY <1>1 DEF TypeOK
<1>3. OnlyDrawn'
  BY <1>1 DEF IInv, OnlyDrawn, TypeOK
<1>4. RowIsOpeners' /\ EndedStayGone' /\ SessionKeepsAccount'
  BY <1>1 DEF IInv, RowIsOpeners, EndedStayGone, SessionKeepsAccount, TypeOK
<1> QED
  BY <1>2, <1>3, <1>4

\* A logout.
LEMMA LogoutKeeps ==
  ASSUME IInv, NEW t \in Tabs, NEW s \in SessionIds, Logout(t, s)
  PROVE  IInv'
<1>1. /\ s \in drawn /\ req[t] = None /\ Ends(s) /\ Leaves(t)
      /\ UNCHANGED <<users, pages, drawn, req, opened>>
  BY DEF Logout, Idle
<1>2. TypeOK
  BY DEF IInv
<1>3. /\ OnlyDrawn' /\ RowIsOpeners' /\ EndedStayGone' /\ SessionKeepsAccount'
      /\ sessions' \in [SessionIds -> UserIds \cup {None}]
      /\ expired' \subseteq SessionIds /\ ended' \subseteq SessionIds
  BY <1>1, EndsKeeps
<1>4. TypeOK'
  BY <1>1, <1>2, <1>3, LeavesType DEF TypeOK
<1>5. ASSUME NEW q \in Tabs
      PROVE  (ReadStands(q) /\ LacksUnseen(q))'
  <2>1. CASE q = t
    BY <1>1, <1>2, <2>1, LeavesType DEF ReadStands, LacksUnseen
  <2>2. CASE q # t
    BY <1>1, <1>2, <2>2, LeavesType, SameTab DEF IInv
  <2> QED
    BY <2>1, <2>2
<1> QED
  BY <1>3, <1>4, <1>5 DEF IInv

\* The end of a session's 24 hours.
LEMMA ExpireKeeps ==
  ASSUME IInv, NEW s \in SessionIds, Expire(s)
  PROVE  IInv'
<1>1. TypeOK' /\ OnlyDrawn' /\ RowIsOpeners' /\ EndedStayGone' /\ SessionKeepsAccount'
  BY DEF Expire, tables, ghosts, IInv, TypeOK, OnlyDrawn, RowIsOpeners, EndedStayGone, SessionKeepsAccount
<1>2. \A q \in Tabs : (ReadStands(q) /\ LacksUnseen(q))'
  BY SameTab DEF Expire, tables, ghosts, IInv
<1> QED
  BY <1>1, <1>2 DEF IInv

\* A step of the request of t that writes nothing, to r; t keeps its form.
LEMMA Reading ==
  ASSUME IInv, NEW t \in Tabs, NEW r \in Requests \cup {None}, Goes(t, r),
         UNCHANGED <<tables, expired, form, ghosts>>,
         ReadStands(t)'
  PROVE  IInv'
<1>1. TypeOK
  BY DEF IInv
<1>2. TypeOK' /\ OnlyDrawn' /\ RowIsOpeners' /\ EndedStayGone' /\ SessionKeepsAccount'
  BY <1>1, GoesType DEF tables, ghosts, IInv, TypeOK, OnlyDrawn, RowIsOpeners, EndedStayGone, SessionKeepsAccount
<1>3. LacksUnseen(t)'
  BY DEF IInv, LacksUnseen, Titled, tables, ghosts
<1>4. \A q \in Tabs \ {t} : (ReadStands(q) /\ LacksUnseen(q))'
  BY <1>1, GoesType, SameTab DEF IInv, tables, ghosts
<1> QED
  BY <1>2, <1>3, <1>4 DEF IInv

\* A request with a cookie: its session is there, and its form, if it saves it.
LEMMA FindSessionKeeps ==
  ASSUME IInv, NEW t \in Tabs, NEW s \in SessionIds, NEW work \in Work(t), FindSession(t, s, work)
  PROVE  IInv'
<1> DEFINE r == [at |-> IF s \in expired THEN "expired" ELSE "user",
                 session |-> s, user |-> sessions[s], work |-> work]
<1>1. /\ TypeOK /\ sessions[s] # None /\ Goes(t, r) /\ s \in drawn
      /\ IF work.op = "save" THEN UNCHANGED <<form, unseen>> ELSE Leaves(t)
      /\ UNCHANGED <<tables, expired, opened, ended>>
  BY DEF FindSession, IInv, OnlyDrawn
<1>2. work \in {View} \cup Edits \cup Saves /\ (work \in Saves => form[t] # None /\ work.op = "save")
  <2>1. \A w \in {View} \cup Edits : w \notin Saves
    BY WorkShape
  <2> QED
    BY <2>1, WorkShape DEF Work
<1>3. sessions[s] \in UserIds
  BY <1>1 DEF TypeOK
<1>4. r \in Requests
  BY <1>2, <1>3 DEF Requests
<1>5. r.at \in {"expired", "user"} /\ r.session = s /\ r.work = work
  OBVIOUS
<1> HIDE DEF r
<1>6. req' \in [Tabs -> Requests \cup {None}] /\ req'[t] = r /\ \A q \in Tabs \ {t} : req'[q] = req[q]
  BY <1>1, <1>4, GoesType
<1>7. /\ form' \in [Tabs -> Forms \cup {None}] /\ unseen' \in [Tabs -> SUBSET PageIds]
      /\ \A q \in Tabs \ {t} : form'[q] = form[q] /\ unseen'[q] = unseen[q]
      /\ (form'[t] = form[t] /\ unseen'[t] = unseen[t]) \/ (form'[t] = None /\ work.op # "save")
  <2>1. CASE work.op = "save"
    BY <1>1, <2>1 DEF TypeOK
  <2>2. CASE work.op # "save"
    BY <1>1, <2>2, LeavesType
  <2> QED
    BY <2>1, <2>2
<1>8. TypeOK' /\ OnlyDrawn' /\ RowIsOpeners' /\ EndedStayGone' /\ SessionKeepsAccount'
  BY <1>1, <1>6, <1>7 DEF tables, IInv, TypeOK, OnlyDrawn, RowIsOpeners, EndedStayGone, SessionKeepsAccount
<1>9. ReadStands(t)'
  <2>1. sessions[s] \in LoggedIn'
    BY <1>1, OpenerLoggedIn, SameLoggedIn
  <2>2. r.user = sessions[s]
    BY DEF r
  <2> QED
    BY <1>1, <1>2, <1>5, <1>6, <1>7, <2>1, <2>2 DEF ReadStands, tables
<1>10. LacksUnseen(t)'
  BY <1>1, <1>7 DEF IInv, LacksUnseen, Titled, tables
<1>11. \A q \in Tabs \ {t} : (ReadStands(q) /\ LacksUnseen(q))'
  BY <1>1, <1>6, <1>7, SameTab DEF IInv, tables
<1> QED
  BY <1>8, <1>9, <1>10, <1>11 DEF IInv

\* An expired session is deleted.
LEMMA DeleteExpiredKeeps ==
  ASSUME IInv, NEW t \in Tabs, DeleteExpired(t)
  PROVE  IInv'
<1>1. /\ req[t] # None /\ req[t].at = "expired" /\ Ends(req[t].session) /\ Goes(t, None)
      /\ UNCHANGED <<users, pages, drawn, form, opened, unseen>>
  BY DEF DeleteExpired, At, Answers
<1>2. TypeOK /\ req[t].session \in SessionIds \cap drawn
  BY <1>1, RequestShape DEF IInv, TypeOK, ReadStands
<1>3. /\ OnlyDrawn' /\ RowIsOpeners' /\ EndedStayGone' /\ SessionKeepsAccount'
      /\ sessions' \in [SessionIds -> UserIds \cup {None}]
      /\ expired' \subseteq SessionIds /\ ended' \subseteq SessionIds
  BY <1>1, <1>2, EndsKeeps
<1>4. TypeOK'
  BY <1>1, <1>2, <1>3, GoesType DEF TypeOK
<1>5. ASSUME NEW q \in Tabs
      PROVE  (ReadStands(q) /\ LacksUnseen(q))'
  <2>1. CASE q = t
    BY <1>1, <1>2, <2>1, GoesType DEF IInv, ReadStands, LacksUnseen, Titled
  <2>2. CASE q # t
    BY <1>1, <1>2, <2>2, GoesType, SameTab DEF IInv
  <2> QED
    BY <2>1, <2>2
<1> QED
  BY <1>3, <1>4, <1>5 DEF IInv

\* The account of the session is looked for.
LEMMA FindUserKeeps ==
  ASSUME IInv, NEW t \in Tabs, FindUser(t)
  PROVE  IInv'
<1>1. /\ TypeOK /\ req[t] # None /\ req[t].at = "user"
      /\ UNCHANGED <<tables, expired, form, ghosts>>
  BY DEF FindUser, At, IInv
<1>2. /\ req[t].user \in UserIds /\ req[t].work \in {View} \cup Edits \cup Saves
      /\ req[t].work \in Saves => form[t] # None
  BY <1>1, RequestShape DEF TypeOK, IInv, ReadStands
<1>3. CASE Goes(t, None)
  BY <1>1, <1>3, GoesType, Reading DEF ReadStands
<1>4. CASE Goes(t, Handled(t)) /\ req[t].work.op # "view"
  <2>1. req[t].work \in Edits \cup Saves
    BY <1>2, <1>4, WorkShape
  <2>2. Handled(t) \in Requests /\ Handled(t).at \in {"edit", "save"}
        /\ (Handled(t).at = "save" => form[t] # None) /\ Handled(t).author = req[t].user
    BY <1>2, <2>1, WorkShape DEF Handled, Requests
  <2>3. req'[t] = Handled(t)
    BY <1>1, <1>4, <2>2, GoesType
  <2>4. ReadStands(t)'
    <3>1. req[t].user \in LoggedIn'
      BY <1>1, SameLoggedIn DEF IInv, ReadStands, ghosts
    <3> QED
      BY <1>1, <2>2, <2>3, <3>1 DEF ReadStands
  <2> QED
    BY <1>1, <1>4, <2>2, <2>4, Reading
<1> QED
  BY <1>3, <1>4 DEF FindUser, Answers

\* An empty form is served without no page of its title, if the lookup worked,
\* and without all of them, if it failed.
LEMMA ServesForm ==
  ASSUME IInv, NEW t \in Tabs, ServeForm(t) \/ LookupFails(t)
  PROVE  IInv'
<1> DEFINE title == req[t].work.title
<1>1. TypeOK /\ req[t] # None /\ req[t].at = "edit"
  BY DEF ServeForm, LookupFails, At, IInv
<1>2. title \in Asked
  BY <1>1, RequestShape, WorkShape DEF TypeOK
<1>3. PICK page \in PageIds \cup {None}, without \in SUBSET PageIds :
        Shows(t, page, without) /\ (page = None => Titled(title) \subseteq without)
  <2>1. CASE ServeForm(t)
    BY <2>1, NoneAssumption DEF ServeForm, Titled
  <2>2. CASE LookupFails(t)
    BY <2>2 DEF LookupFails, Titled
  <2> QED
    BY <2>1, <2>2
<1>4. /\ form' = [form EXCEPT ![t] = [page |-> page, title |-> title]]
      /\ unseen' = [unseen EXCEPT ![t] = without]
      /\ Goes(t, None) /\ UNCHANGED <<tables, expired, opened, ended>>
  BY <1>3 DEF Shows, Answers
<1> HIDE DEF title
<1>5. [page |-> page, title |-> title] \in Forms
  BY <1>2 DEF Forms
<1>6. TypeOK'
  BY <1>1, <1>4, <1>5, GoesType DEF TypeOK, tables
<1>7. OnlyDrawn' /\ RowIsOpeners' /\ EndedStayGone' /\ SessionKeepsAccount'
  BY <1>4 DEF tables, IInv, OnlyDrawn, RowIsOpeners, EndedStayGone, SessionKeepsAccount
<1>8. form'[t] = [page |-> page, title |-> title] /\ unseen'[t] = without
  BY <1>1, <1>4 DEF TypeOK
<1>9. \A q \in Tabs \ {t} : form'[q] = form[q] /\ unseen'[q] = unseen[q]
  BY <1>1, <1>4 DEF TypeOK
<1>10. LacksUnseen(t)'
  BY <1>3, <1>4, <1>8 DEF LacksUnseen, Titled, tables
<1>11. ReadStands(t)'
  BY <1>1, <1>4, GoesType DEF ReadStands
<1>12. \A q \in Tabs \ {t} : (ReadStands(q) /\ LacksUnseen(q))'
  BY <1>1, <1>4, <1>9, GoesType, SameTab DEF IInv, tables
<1> QED
  BY <1>6, <1>7, <1>10, <1>11, <1>12 DEF IInv

\* A page is written: the forms of its title learn of it if it is new to it,
\* and no page gets another author.
LEMMA PutsKeeps ==
  ASSUME IInv, NEW p \in PageIds, NEW row \in Pages, Puts(p, row),
         pages[p] # None => row.author = pages[p].author,
         NEW q \in Tabs, form'[q] = form[q], UNCHANGED <<users, opened>>, drawn \subseteq drawn'
  PROVE  /\ pages' \in [PageIds -> Pages \cup {None}] /\ unseen' \in [Tabs -> SUBSET PageIds]
         /\ LacksUnseen(q)' /\ (req'[q] = req[q] => ReadStands(q)')
<1>1. TypeOK /\ row # None
  BY RecordAssumption DEF IInv
<1>2. pages' = [pages EXCEPT ![p] = row]
  BY DEF Puts
<1>3. unseen'[q] = IF form[q] # None /\ row.title = form[q].title /\ p \notin Titled(row.title)
                  THEN unseen[q] \cup {p} ELSE unseen[q]
  BY DEF Puts
<1>4. pages' \in [PageIds -> Pages \cup {None}]
  BY <1>1, <1>2 DEF TypeOK
<1>5. unseen' \in [Tabs -> SUBSET PageIds]
  <2>1. \A x \in Tabs : unseen[x] \subseteq PageIds
    BY <1>1 DEF TypeOK
  <2> QED
    BY <2>1 DEF Puts
<1>6. \A x : Titled(x)' \subseteq Titled(x) \cup (IF row.title = x THEN {p} ELSE {})
  BY <1>1, <1>2 DEF Titled, TypeOK
<1>7. LacksUnseen(q)'
  BY <1>3, <1>6 DEF IInv, LacksUnseen
<1>8. ASSUME req'[q] = req[q]
      PROVE  ReadStands(q)'
  <2>1. \A x \in PageIds : pages[x] # None => pages'[x] # None /\ pages'[x].author = pages[x].author
    BY <1>1, <1>2 DEF TypeOK
  <2>2. LoggedIn' = LoggedIn
    BY SameLoggedIn
  <2> QED
    BY <1>8, <2>1, <2>2 DEF IInv, ReadStands
<1> QED
  BY <1>4, <1>5, <1>7, <1>8

\* A new page has a new id.
LEMMA CreatePageKeeps ==
  ASSUME IInv, NEW t \in Tabs, NEW p \in PageIds, CreatePage(t, p)
  PROVE  IInv'
<1>1. /\ TypeOK /\ req[t] # None /\ req[t].at = "save" /\ p \notin drawn
      /\ Puts(p, Row(t)) /\ drawn' = drawn \cup {p} /\ Goes(t, None)
      /\ UNCHANGED <<users, sessions, expired, form, opened, ended>>
  BY DEF CreatePage, At, Fresh, Draws, Answers, IInv
<1>2. Row(t) \in Pages
  BY <1>1, RequestShape, WorkShape DEF Row, Pages, TypeOK
<1>3. pages[p] = None
  BY <1>1 DEF IInv, OnlyDrawn
<1>4. \A q \in Tabs : /\ pages' \in [PageIds -> Pages \cup {None}] /\ unseen' \in [Tabs -> SUBSET PageIds]
                      /\ LacksUnseen(q)' /\ (req'[q] = req[q] => ReadStands(q)')
  BY <1>1, <1>2, <1>3, PutsKeeps
<1>5. TypeOK'
  BY <1>1, <1>4, GoesType DEF TypeOK
<1>6. OnlyDrawn'
  BY <1>1 DEF IInv, OnlyDrawn, Puts, TypeOK
<1>7. RowIsOpeners' /\ EndedStayGone' /\ SessionKeepsAccount'
  BY <1>1 DEF IInv, RowIsOpeners, EndedStayGone, SessionKeepsAccount
<1>8. \A q \in Tabs : ReadStands(q)'
  <2>1. ReadStands(t)'
    BY <1>1, GoesType DEF ReadStands
  <2> QED
    BY <1>1, <1>4, <2>1, GoesType
<1> QED
  BY <1>4, <1>5, <1>6, <1>7, <1>8 DEF IInv

\* The page of a form is read, with its author.
LEMMA GetPageKeeps ==
  ASSUME IInv, NEW t \in Tabs, GetPage(t)
  PROVE  IInv'
<1>1. /\ TypeOK /\ req[t] # None /\ req[t].at = "save" /\ form[t].page # None /\ form[t] # None
      /\ UNCHANGED <<tables, expired, form, ghosts>>
  BY DEF GetPage, At, IInv, ReadStands
<1>2. form[t].page \in PageIds
  BY <1>1 DEF TypeOK, Forms
<1>3. CASE Goes(t, None)
  BY <1>1, <1>3, GoesType, Reading DEF ReadStands
<1>4. CASE ~Goes(t, None)
  <2> DEFINE page == pages[form[t].page]
             r == [req[t] EXCEPT !.at = "update", !.author = page.author]
  <2>1. page # None /\ Goes(t, r)
    BY <1>4 DEF GetPage, Answers
  <2>2. page \in Pages
    BY <1>1, <1>2, <2>1 DEF TypeOK
  <2>3. req[t] \in [at : {"save", "update"}, author : UserIds, work : Saves]
    BY <1>1, RequestShape DEF TypeOK
  <2>4. page.author \in UserIds
    BY <2>2 DEF Pages
  <2> HIDE DEF page
  <2>5. r \in Requests /\ r.at = "update" /\ r.author = page.author
    BY <2>3, <2>4 DEF Requests
  <2> HIDE DEF r
  <2>6. req'[t] = r
    BY <1>1, <2>1, <2>5, GoesType
  <2>7. ReadStands(t)'
    <3>1. LoggedIn' # {}
      BY <1>1, SameLoggedIn DEF IInv, ReadStands, ghosts
    <3> QED
      BY <1>1, <1>2, <2>1, <2>5, <2>6, <3>1 DEF ReadStands, tables, page
  <2> QED
    BY <2>1, <2>5, <2>7, <1>1, Reading
<1> QED
  BY <1>3, <1>4

\* And written, with the author that it has.
LEMMA UpdatePageKeeps ==
  ASSUME IInv, NEW t \in Tabs, UpdatePage(t)
  PROVE  IInv'
<1>1. /\ TypeOK /\ req[t] # None /\ req[t].at = "update" /\ Goes(t, None)
      /\ UNCHANGED <<users, sessions, drawn, expired, form, opened, ended>>
  BY DEF UpdatePage, At, Answers, IInv
<1>2. /\ form[t].page \in PageIds /\ pages[form[t].page] # None
      /\ req[t].author = pages[form[t].page].author
  BY <1>1 DEF IInv, ReadStands
<1>3. Puts(form[t].page, Row(t))
  BY <1>2 DEF UpdatePage
<1>4. Row(t) \in Pages /\ Row(t).author = pages[form[t].page].author
  BY <1>1, <1>2, RequestShape, WorkShape DEF Row, Pages, TypeOK
<1>5. \A q \in Tabs : /\ pages' \in [PageIds -> Pages \cup {None}] /\ unseen' \in [Tabs -> SUBSET PageIds]
                      /\ LacksUnseen(q)' /\ (req'[q] = req[q] => ReadStands(q)')
  BY <1>1, <1>2, <1>3, <1>4, PutsKeeps
<1>6. TypeOK'
  BY <1>1, <1>5, GoesType DEF TypeOK
<1>7. OnlyDrawn'
  BY <1>1, <1>2, <1>3 DEF IInv, OnlyDrawn, Puts, TypeOK
<1>8. RowIsOpeners' /\ EndedStayGone' /\ SessionKeepsAccount'
  BY <1>1 DEF IInv, RowIsOpeners, EndedStayGone, SessionKeepsAccount
<1>9. \A q \in Tabs : ReadStands(q)'
  <2>1. ReadStands(t)'
    BY <1>1, GoesType DEF ReadStands
  <2> QED
    BY <1>1, <1>5, <2>1, GoesType
<1> QED
  BY <1>5, <1>6, <1>7, <1>8, <1>9 DEF IInv

\* A call that fails ends the request.
LEMMA FailsKeeps ==
  ASSUME IInv, NEW t \in Tabs, Fails(t)
  PROVE  IInv'
<1>1. TypeOK /\ Goes(t, None) /\ UNCHANGED <<tables, expired, form, ghosts>>
  BY DEF Fails, Answers, IInv
<1>2. ReadStands(t)'
  BY <1>1, GoesType DEF ReadStands
<1> QED
  BY <1>1, <1>2, Reading

\* The invariant holds at first, when nothing is there.
LEMMA InitInv == Init => IInv
  BY DEF Init, IInv, TypeOK, OnlyDrawn, RowIsOpeners, EndedStayGone, SessionKeepsAccount, ReadStands, LacksUnseen

\* And every step keeps it.
LEMMA InvStep == IInv /\ [Next]_vars => IInv'
<1> SUFFICES ASSUME IInv, [Next]_vars PROVE IInv'
  OBVIOUS
<1>1. CASE UNCHANGED vars
  <2>1. TypeOK' /\ OnlyDrawn' /\ RowIsOpeners' /\ EndedStayGone' /\ SessionKeepsAccount'
    BY <1>1 DEF vars, IInv, TypeOK, OnlyDrawn, RowIsOpeners, EndedStayGone, SessionKeepsAccount
  <2>2. \A q \in Tabs : (ReadStands(q) /\ LacksUnseen(q))'
    BY <1>1, SameTab DEF vars, IInv
  <2> QED
    BY <2>1, <2>2 DEF IInv
<1> QED
  BY <1>1, RegisterKeeps, LoginKeeps, CreateSessionKeeps, LogoutKeeps, ExpireKeeps, FindSessionKeeps,
     DeleteExpiredKeeps, FindUserKeeps, ServesForm, CreatePageKeeps, GetPageKeeps,
     UpdatePageKeeps, FailsKeeps
     DEF Next

\* The invariant of the specification.
LEMMA Inductive == Spec => []IInv
  BY InitInv, InvStep, PTL DEF Spec

-----------------------------------------------------------------------------
(* The theorems.                                                           *)

\* The variables have their types.
THEOREM TypeCorrect == Spec => []TypeOK
<1>1. IInv => TypeOK
  BY DEF IInv
<1> QED
  BY <1>1, Inductive, PTL

\* A session that has ended is never there again, whatever had read it.
THEOREM EndedForGood == Spec => []EndedStayGone
<1>1. IInv => EndedStayGone
  BY DEF IInv
<1> QED
  BY <1>1, Inductive, PTL

\* A session never passes to the account that took its owner's name.
THEOREM AccountKept == Spec => []SessionKeepsAccount
<1>1. IInv => SessionKeepsAccount
  BY DEF IInv
<1> QED
  BY <1>1, Inductive, PTL

\* The only steps that write pages.
LEMMA WhoWrites ==
  ASSUME IInv, [Next]_vars, pages' # pages
  PROVE  \E t \in Tabs : UpdatePage(t) \/ \E p \in PageIds : CreatePage(t, p)
<1>1. ASSUME NEW t \in Tabs, NEW u \in UserIds, NEW a \in Signups, Register(t, u, a) \/ Login(t, u, a)
      PROVE  pages' = pages
  BY <1>1 DEF Register, Login, tables
<1>2. ASSUME NEW t \in Tabs, NEW s \in SessionIds, CreateSession(t, s) \/ Logout(t, s) \/ Expire(s)
      PROVE  pages' = pages
  BY <1>2 DEF CreateSession, Logout, Expire, tables
<1>3. ASSUME NEW t \in Tabs, NEW s \in SessionIds, NEW work \in Work(t), FindSession(t, s, work)
      PROVE  pages' = pages
  BY <1>3 DEF FindSession, tables
<1>4. ASSUME NEW t \in Tabs,
             \/ DeleteExpired(t) \/ FindUser(t) \/ ServeForm(t) \/ LookupFails(t)
             \/ GetPage(t) \/ Fails(t)
      PROVE  pages' = pages
  BY <1>4 DEF DeleteExpired, FindUser, ServeForm, LookupFails, Shows, GetPage, Fails, tables
<1>5. ASSUME NEW s \in SessionIds, Expire(s)
      PROVE  pages' = pages
  BY <1>5 DEF Expire, tables
<1>6. CASE UNCHANGED vars
  BY <1>6 DEF vars
<1> QED
  BY <1>1, <1>2, <1>3, <1>4, <1>5, <1>6 DEF Next

\* What is written is one page, which keeps the author that it had.
LEMMA PageWritten ==
  ASSUME IInv, [Next]_vars, pages' # pages
  PROVE  \E p \in PageIds, row \in Pages :
           pages' = [pages EXCEPT ![p] = row] /\ (pages[p] # None => row.author = pages[p].author)
<1>1. PICK t \in Tabs : UpdatePage(t) \/ \E p \in PageIds : CreatePage(t, p)
  BY WhoWrites
<1>2. CASE UpdatePage(t)
  <2>1. TypeOK /\ req[t] # None /\ req[t].at = "update"
    BY <1>2 DEF UpdatePage, At, IInv
  <2>2. /\ form[t].page \in PageIds /\ pages[form[t].page] # None
        /\ req[t].author = pages[form[t].page].author
    BY <2>1 DEF IInv, ReadStands
  <2>3. pages' = [pages EXCEPT ![form[t].page] = Row(t)]
    BY <1>2, <2>2 DEF UpdatePage, Puts
  <2>4. Row(t) \in Pages /\ Row(t).author = pages[form[t].page].author
    BY <2>1, <2>2, RequestShape, WorkShape DEF Row, Pages, TypeOK
  <2> QED
    BY <2>2, <2>3, <2>4
<1>3. ASSUME NEW p \in PageIds, CreatePage(t, p)
      PROVE  /\ pages' = [pages EXCEPT ![p] = Row(t)] /\ Row(t) \in Pages /\ pages[p] = None
  <2>1. TypeOK /\ req[t] # None /\ req[t].at = "save" /\ p \notin drawn
    BY <1>3 DEF CreatePage, At, Fresh, IInv
  <2>2. Row(t) \in Pages
    BY <2>1, RequestShape, WorkShape DEF Row, Pages, TypeOK
  <2> QED
    BY <1>3, <2>1, <2>2 DEF CreatePage, Puts, IInv, OnlyDrawn
<1> QED
  BY <1>1, <1>2, <1>3

\* No interleaving of edits changes the author of a page.
THEOREM AuthorsKept == Spec => AuthorKept
<1>1. IInv /\ [Next]_vars =>
        [\A p \in PageIds : pages[p] # None /\ pages'[p] # None => pages'[p].author = pages[p].author]_vars
  BY PageWritten DEF IInv, TypeOK
<1> QED
  BY <1>1, Inductive, PTL DEF Spec, AuthorKept

\* A form makes its title twice only in a race, when it is sent twice, or when
\* the lookup it was served from failed.
THEOREM DuplicatesExplained == Spec => DuplicatesAreUnseen
<1>1. ASSUME IInv, NEW t \in Tabs, NEW p \in PageIds, CreatePage(t, p)
      PROVE  LET title == req[t].work.title
             IN  title = form[t].title => Titled(title) \subseteq unseen[t]
  <2>1. req[t] # None /\ req[t].at = "save" /\ form[t].page = None
    BY <1>1 DEF CreatePage, At
  <2>2. ReadStands(t) /\ LacksUnseen(t)
    BY <1>1 DEF IInv
  <2>3. form[t] # None
    BY <2>1, <2>2 DEF ReadStands
  <2> QED
    BY <2>1, <2>2, <2>3 DEF LacksUnseen
<1>2. IInv /\ [Next]_vars =>
        [\A t \in Tabs, p \in PageIds : CreatePage(t, p) =>
           LET title == req[t].work.title
           IN  title = form[t].title => Titled(title) \subseteq unseen[t]]_vars
  BY <1>1
<1> QED
  BY <1>2, Inductive, PTL DEF Spec, DuplicatesAreUnseen

-----------------------------------------------------------------------------
(* The wiki keeps what WikiContract promises.                              *)

\* A registration is one at the wiki: the account it evicts is the one whose
\* name or email it takes.
LEMMA RegisterJoins ==
  ASSUME IInv, NEW t \in Tabs, NEW u \in UserIds, NEW a \in Signups, Register(t, u, a)
  PROVE  Contract!Join(u, a)
<1>1. /\ users' = [v \in UserIds |-> IF v = u THEN a ELSE IF v \in Evicted(a) THEN None ELSE users[v]]
      /\ u \notin drawn /\ drawn' = drawn \cup {u} /\ UNCHANGED <<sessions, pages, opened>>
  BY DEF Register, Fresh, Draws
<1>2. u \notin UserIds \cap drawn /\ UserIds \cap drawn' = (UserIds \cap drawn) \cup {u}
  BY <1>1
<1>3. users' =
        [v \in UserIds |->
           IF v = u THEN a
           ELSE IF users[v] # None /\ (users[v].name = a.name \/ users[v].email = a.email)
           THEN None ELSE users[v]]
  BY <1>1 DEF Evicted
<1> QED
  BY <1>1, <1>2, <1>3 DEF Contract!Join

\* A login takes effect when its session is stored: the account that it read may
\* be gone by then, and has not become another.
LEMMA CreateSessionOpens ==
  ASSUME IInv, NEW t \in Tabs, NEW s \in SessionIds, CreateSession(t, s)
  PROVE  Contract!Open(s)
<1> DEFINE u == req[t].user
           a == req[t].account
<1>1. /\ req[t] # None /\ req[t].at = "session" /\ s \notin drawn /\ drawn' = drawn \cup {s}
      /\ sessions' = [sessions EXCEPT ![s] = u]
      /\ opened' = [opened EXCEPT ![s] = [user |-> u, account |-> a]]
      /\ UNCHANGED <<users, pages>>
  BY DEF CreateSession, At, Fresh, Draws
<1>2. /\ u \in UserIds \cap drawn /\ a \in Signups /\ users[u] \in {a, None}
      /\ opened[s] = None
  BY <1>1, RequestShape DEF IInv, TypeOK, ReadStands, OnlyDrawn
<1>3. UserIds \cap drawn' = UserIds \cap drawn
  BY <1>1, IdsAssumption
<1> HIDE DEF u, a
<1> QED
  BY <1>1, <1>2, <1>3 DEF Contract!Open

\* A row of sessions that is deleted ends the session; one that was gone already
\* ends nothing.
LEMMA EndsEnds ==
  ASSUME IInv, NEW s \in SessionIds, Ends(s), UNCHANGED <<users, pages, drawn, opened>>
  PROVE  Contract!End(s) \/ UNCHANGED Contract!vars
<1>1. TypeOK /\ sessions' = [sessions EXCEPT ![s] = None]
  BY DEF Ends, IInv
<1>2. CASE sessions[s] = None
  <2>1. sessions' = sessions
    BY <1>1, <1>2 DEF TypeOK
  <2> QED
    BY <2>1 DEF Contract!vars
<1>3. CASE sessions[s] # None
  BY <1>1, <1>3 DEF Contract!End
<1> QED
  BY <1>2, <1>3

\* What a page is stored as is what the contract has.
LEMMA RowIsPage ==
  ASSUME IInv, NEW t \in Tabs, req[t] # None, req[t].at \in {"save", "update"}
  PROVE  /\ req[t].work.title \in Titles /\ req[t].work.text \in Texts
         /\ Row(t) = Contract!Page(req[t].work.title, req[t].work.text, req[t].author)
  BY RequestShape, WorkShape DEF IInv, TypeOK, Row, Contract!Page

\* A page is created in the name of somebody who has logged in, in a place of its own.
LEMMA CreatePageCreates ==
  ASSUME IInv, NEW t \in Tabs, NEW p \in PageIds, CreatePage(t, p)
  PROVE  Contract!Create(p)
<1>1. /\ req[t] # None /\ req[t].at = "save" /\ p \notin drawn /\ drawn' = drawn \cup {p}
      /\ pages' = [pages EXCEPT ![p] = Row(t)]
      /\ UNCHANGED <<users, opened, sessions>>
  BY DEF CreatePage, At, Fresh, Draws, Puts
<1>2. pages[p] = None /\ req[t].author \in Contract!LoggedIn
  BY <1>1 DEF IInv, OnlyDrawn, ReadStands, LoggedIn
<1>3. UserIds \cap drawn' = UserIds \cap drawn
  BY <1>1, IdsAssumption
<1> QED
  BY <1>1, <1>2, <1>3, RowIsPage DEF Contract!Create

\* An edit takes effect when the row is written; the author that was read before
\* is the one that the page still has.
LEMMA UpdatePageEdits ==
  ASSUME IInv, NEW t \in Tabs, UpdatePage(t)
  PROVE  form[t].page \in PageIds /\ Contract!Edit(form[t].page)
<1> DEFINE p == form[t].page
<1>1. /\ req[t] # None /\ req[t].at = "update"
      /\ UNCHANGED <<users, drawn, opened, sessions>>
  BY DEF UpdatePage, At
<1>2. /\ p \in PageIds /\ pages[p] # None /\ req[t].author = pages[p].author
      /\ Contract!LoggedIn # {}
  BY <1>1 DEF IInv, ReadStands, LoggedIn
<1>3. pages' = [pages EXCEPT ![p] = Row(t)]
  BY <1>2 DEF UpdatePage, Puts
<1> HIDE DEF p
<1>4. Contract!Edit(p)
  BY <1>1, <1>2, <1>3, RowIsPage DEF Contract!Edit
<1> QED
  BY <1>2, <1>4 DEF p

\* Every step of a handler is one step of the contract, or none.
LEMMA StepKeepsContract == IInv /\ [Next]_vars => [Contract!Next]_Contract!vars
<1> SUFFICES ASSUME IInv, [Next]_vars PROVE [Contract!Next]_Contract!vars
  OBVIOUS
<1>1. ASSUME NEW t \in Tabs, NEW u \in UserIds, NEW a \in Signups, Register(t, u, a)
      PROVE  Contract!Next
  BY <1>1, RegisterJoins DEF Contract!Next
<1>2. ASSUME NEW t \in Tabs, NEW s \in SessionIds, CreateSession(t, s)
      PROVE  Contract!Next
  BY <1>2, CreateSessionOpens DEF Contract!Next
<1>3. ASSUME NEW t \in Tabs, NEW s \in SessionIds, Logout(t, s)
      PROVE  [Contract!Next]_Contract!vars
  BY <1>3, EndsEnds DEF Logout, Contract!Next
<1>4. ASSUME NEW t \in Tabs, DeleteExpired(t)
      PROVE  [Contract!Next]_Contract!vars
  <2>1. req[t].session \in SessionIds
    BY <1>4, RequestShape DEF DeleteExpired, At, IInv, TypeOK
  <2> QED
    BY <1>4, <2>1, EndsEnds DEF DeleteExpired, Contract!Next
<1>5. ASSUME NEW t \in Tabs, NEW p \in PageIds, CreatePage(t, p)
      PROVE  Contract!Next
  BY <1>5, CreatePageCreates DEF Contract!Next
<1>6. ASSUME NEW t \in Tabs, UpdatePage(t)
      PROVE  Contract!Next
  BY <1>6, UpdatePageEdits DEF Contract!Next
<1>7. ASSUME NEW t \in Tabs,
             \/ \E u \in UserIds, a \in Signups : Login(t, u, a)
             \/ \E s \in SessionIds, work \in Work(t) : FindSession(t, s, work)
             \/ FindUser(t) \/ ServeForm(t) \/ LookupFails(t) \/ GetPage(t) \/ Fails(t)
      PROVE  UNCHANGED Contract!vars
  BY <1>7 DEF Login, FindSession, FindUser, ServeForm, LookupFails, Shows, GetPage, Fails,
              tables, ghosts, Contract!vars
<1>8. CASE UNCHANGED vars
  BY <1>8 DEF vars, Contract!vars
<1>9. ASSUME NEW s \in SessionIds, Expire(s)
      PROVE  UNCHANGED Contract!vars
  BY <1>9 DEF Expire, tables, ghosts, Contract!vars
<1> QED
  BY <1>1, <1>2, <1>3, <1>4, <1>5, <1>6, <1>7, <1>8, <1>9 DEF Next

\* The wiki implements its abstract specification: whatever the calls of its
\* handlers interleave with and whichever fail, people see only logins, logouts,
\* and pages created and edited by those who have logged in.
THEOREM WikiImplementsContract == Spec => ImplementsContract
<1>1. Init => Contract!Init
  BY DEF Init, Contract!Init
<1> QED
  BY <1>1, StepKeepsContract, Inductive, PTL DEF Spec, ImplementsContract, Contract!Spec
=============================================================================
