--------------------------- MODULE SessionProofs ----------------------------
(***************************************************************************)
(* Proofs about Session, for any number of connections, users and          *)
(* passwords.  Liveness (HangUpLogsOut) is left to TLC.                    *)
(*                                                                         *)
(* Authenticated and EntriesHaveSessions are not inductive alone: a login  *)
(* in progress must still be in login_loop, a session in while_loop must   *)
(* keep its flag (or its first logout would move it back to login_loop), a *)
(* name about to be registered must be one the command gave, and a session *)
(* about to close must have no entry left.  The same strengthening is what *)
(* shows that Session implements AccessControl.                            *)
(***************************************************************************)
EXTENDS Session, SequenceFacts

\* What holds of one session, whatever the others do.
SessionOK(s) ==
    /\ s.loop = "while" => s.logged_in
    /\ s.call \notin {"recv", "isLoggedIn_logout", "logout", "close"} =>
          s.loop = "login" /\ s.username \in Users /\ s.password \in Passwords

SessionsOK == \A c \in Conns : Open(c) => SessionOK(session[c])

\* A closing session has no entry in logged_in.
ClosingIsLoggedOut ==
    \A u \in DOMAIN logged_in : session[logged_in[u]].call # "close"

Inv == TypeOK /\ SessionsOK /\ Authenticated /\ EntriesHaveSessions
          /\ ClosingIsLoggedOut

-----------------------------------------------------------------------------
(***************************************************************************)
(* One session, as its own connection changes it.                          *)
(***************************************************************************)
\* What a session may become.
GoodSession(s) ==
    /\ s \in Sessions
    /\ SessionOK(s)
    /\ s.loop = "while" => /\ s.username \in DOMAIN users
                           /\ s.password = users[s.username]

\* What logged_in may become when c's session becomes s.
GoodLogins(c, s, l) ==
    /\ IsMap(l, Users, Conns)
    /\ \A u \in DOMAIN l :
          IF l[u] = c THEN s.loop = "while" /\ s.username = u /\ s.call # "close"
                      ELSE u \in DOMAIN logged_in /\ l[u] = logged_in[u]

\* What users may become: no entry is lost or changed.
GoodUsers(w) ==
    /\ IsMap(w, Users, Passwords)
    /\ \A u \in DOMAIN users : u \in DOMAIN w /\ w[u] = users[u]

LEMMA OpenSession ==
    ASSUME Inv, NEW c \in Conns, Open(c)
    PROVE  session[c] \in Sessions /\ SessionOK(session[c])
BY DEF Inv, TypeOK, SessionsOK, Open

LEMMA SessionMeaning ==
    ASSUME Inv, NEW c \in Conns, Open(c)
    PROVE  /\ session[c].loop = "while" =>
                 /\ session[c].username \in DOMAIN users
                 /\ session[c].password = users[session[c].username]
           /\ \A u \in DOMAIN logged_in : logged_in[u] = c =>
                 /\ session[c].loop = "while"
                 /\ session[c].username = u
                 /\ session[c].call # "close"
BY DEF Inv, Authenticated, EntriesHaveSessions, ClosingIsLoggedOut, Entered

LEMMA UpdateInv ==
    ASSUME Inv, NEW c \in Conns, NEW s, Update(c, s), GoodSession(s),
           GoodLogins(c, s, logged_in'), GoodUsers(users'), UNCHANGED gone
    PROVE  Inv'
<1>1. /\ session' \in [Conns -> Sessions \cup {Closed}]
      /\ session'[c] = s
      /\ \A d \in Conns \ {c} : session'[d] = session[d]
  BY DEF Inv, TypeOK, Update, GoodSession
<1>2. s # Closed
  BY DEF GoodSession, Sessions, Closed
<1>3. TypeOK'
  BY <1>1, <1>2 DEF Inv, TypeOK, Open, GoodLogins, GoodUsers
<1>4. SessionsOK'
  BY <1>1 DEF Inv, SessionsOK, Open, GoodSession
<1>5. Authenticated'
  BY <1>1 DEF Inv, Authenticated, Entered, Open, GoodSession, GoodUsers
<1>6. \A u \in DOMAIN logged_in' : logged_in'[u] \in Conns
  BY DEF GoodLogins, IsMap
<1>7. EntriesHaveSessions'
  BY <1>1, <1>2, <1>6 DEF Inv, EntriesHaveSessions, Entered, Open, GoodLogins
<1>8. ClosingIsLoggedOut'
  BY <1>1, <1>6 DEF Inv, ClosingIsLoggedOut, GoodLogins
<1> QED BY <1>3, <1>4, <1>5, <1>7, <1>8 DEF Inv

LEMMA NothingNew ==
    ASSUME Inv
    PROVE  /\ GoodUsers(users)
           /\ \A c, s : (\A u \in DOMAIN logged_in : logged_in[u] = c =>
                            /\ s.loop = "while"
                            /\ s.username = u
                            /\ s.call # "close")
                       => GoodLogins(c, s, logged_in)
BY DEF Inv, TypeOK, GoodUsers, GoodLogins

\* A step that changes only one session, neither its loop nor its name, and
\* does not end it.
LEMMA SessionStep ==
    ASSUME Inv, NEW c \in Conns, Open(c), NEW s \in Sessions, SessionOK(s),
           s.loop = session[c].loop, s.username = session[c].username,
           s.password = session[c].password, s.call # "close",
           Update(c, s), UNCHANGED <<users, logged_in, gone>>
    PROVE  Inv'
<1>1. GoodSession(s)
  BY SessionMeaning DEF GoodSession
<1>2. GoodLogins(c, s, logged_in)
  BY SessionMeaning, NothingNew
<1>3. GoodLogins(c, s, logged_in') /\ GoodUsers(users')
  BY <1>2, NothingNew
<1> QED BY <1>1, <1>3, UpdateInv

-----------------------------------------------------------------------------
(***************************************************************************)
(* The actions that change nothing but one session.                        *)
(***************************************************************************)
\* A session in login_loop may take any name and password.
LEMMA LoginLoopInv ==
    ASSUME Inv, NEW c \in Conns, Open(c), session[c].loop = "login",
           NEW s \in Sessions, s.loop = "login", SessionOK(s), Update(c, s),
           UNCHANGED <<users, logged_in, gone>>
    PROVE  Inv'
<1>1. GoodSession(s)
  BY DEF GoodSession
<1>2. GoodLogins(c, s, logged_in)
  BY SessionMeaning, NothingNew
<1>3. GoodLogins(c, s, logged_in') /\ GoodUsers(users')
  BY <1>2, NothingNew
<1> QED BY <1>1, <1>3, UpdateInv

LEMMA RequestInv ==
    ASSUME Inv, NEW c \in Conns, Request(c)
    PROVE  Inv'
<1>1. ASSUME NEW u \in Users, NEW p \in Passwords,
             LoginRequest(c, u, p) \/ CreateUserRequest(c, u, p)
      PROVE  Inv'
  <2> DEFINE t == session[c]
  <2>1. Open(c) /\ t.loop = "login" /\ t \in Sessions
    BY <1>1, OpenSession DEF LoginRequest, CreateUserRequest, InLoop, At
  <2>2. PICK f \in {"isLoggedIn_login", "isUser"} :
           Update(c, [t EXCEPT !.username = u, !.password = p, !.call = f])
    BY <1>1 DEF LoginRequest, CreateUserRequest
  <2> DEFINE s == [t EXCEPT !.username = u, !.password = p, !.call = f]
  <2>3. s \in Sessions /\ s.loop = "login" /\ SessionOK(s)
    BY <2>1 DEF Sessions, Calls, SessionOK
  <2>4. UNCHANGED <<users, logged_in, gone>>
    BY <1>1 DEF LoginRequest, CreateUserRequest
  <2> HIDE DEF s
  <2> QED BY <2>1, <2>2, <2>3, <2>4, LoginLoopInv DEF s
<1>2. ASSUME NEW u \in Users, LogoutRequest(c, u)
      PROVE  Inv'
  <2> DEFINE t == session[c]
             s == [t EXCEPT !.username = u, !.call = "isLoggedIn_logout"]
  <2>1. Open(c) /\ t.loop = "login" /\ t \in Sessions
    BY <1>2, OpenSession DEF LogoutRequest, InLoop, At
  <2>2. s \in Sessions /\ s.loop = "login" /\ SessionOK(s)
    BY <2>1 DEF Sessions, Calls, SessionOK
  <2>3. Update(c, s) /\ UNCHANGED <<users, logged_in, gone>>
    BY <1>2 DEF LogoutRequest
  <2> HIDE DEF s
  <2> QED BY <2>1, <2>2, <2>3, LoginLoopInv
<1>3. ASSUME Logout(c)
      PROVE  Inv'
  <2> DEFINE t == session[c]
             s == [t EXCEPT !.call = "isLoggedIn_logout", !.refused = FALSE]
  <2>1. Open(c) /\ t \in Sessions /\ SessionOK(t)
    BY <1>3, OpenSession DEF Logout, InLoop, At
  <2>2. /\ s \in Sessions /\ SessionOK(s)
        /\ s.loop = t.loop /\ s.username = t.username /\ s.password = t.password
        /\ s.call # "close"
    BY <2>1 DEF Sessions, Calls, SessionOK
  <2>3. Update(c, s) /\ UNCHANGED <<users, logged_in, gone>>
    BY <1>3 DEF Logout
  <2> HIDE DEF s
  <2> QED BY <2>1, <2>2, <2>3, SessionStep
<1>4. ASSUME RefuseLogin(c)
      PROVE  Inv'
  <2> DEFINE t == session[c]
             s == [t EXCEPT !.refused = TRUE]
  <2>1. Open(c) /\ t \in Sessions /\ SessionOK(t) /\ t.call = "recv"
    BY <1>4, OpenSession DEF RefuseLogin, InLoop, At
  <2>2. /\ s \in Sessions /\ SessionOK(s)
        /\ s.loop = t.loop /\ s.username = t.username /\ s.password = t.password
        /\ s.call # "close"
    BY <2>1 DEF Sessions, Calls, SessionOK
  <2>3. Update(c, s) /\ UNCHANGED <<users, logged_in, gone>>
    BY <1>4 DEF RefuseLogin
  <2> HIDE DEF s
  <2> QED BY <2>1, <2>2, <2>3, SessionStep
<1> QED BY <1>1, <1>2, <1>3, <1>4 DEF Request

LEMMA LeaveInv ==
    ASSUME Inv, NEW c \in Conns, Leave(c)
    PROVE  Inv'
<1> DEFINE t == session[c]
           s == [t EXCEPT !.call = "isLoggedIn_logout", !.last = TRUE]
<1>1. Open(c) /\ t \in Sessions /\ SessionOK(t)
  BY OpenSession DEF Leave, At
<1>2. /\ s \in Sessions /\ SessionOK(s)
      /\ s.loop = t.loop /\ s.username = t.username /\ s.password = t.password
      /\ s.call # "close"
  BY <1>1 DEF Sessions, Calls, SessionOK
<1>3. Update(c, s) /\ UNCHANGED <<users, logged_in, gone>>
  BY DEF Leave
<1> HIDE DEF s
<1> QED BY <1>1, <1>2, <1>3, SessionStep

LEMMA ConnectInv ==
    ASSUME Inv, NEW c \in Conns, Connect(c)
    PROVE  Inv'
<1> DEFINE s == [loop |-> "login", call |-> "recv", username |-> NoUser,
                 password |-> NoUser, logged_in |-> FALSE, last |-> FALSE,
                 refused |-> FALSE]
<1>1. s \in Sessions /\ s.loop = "login" /\ s.call = "recv"
  BY DEF Sessions, Calls
<1>2. \A u \in DOMAIN logged_in : logged_in[u] # c
  BY DEF Connect, Inv, EntriesHaveSessions, Entered
<1>3. Update(c, s) /\ UNCHANGED <<users, logged_in, gone>>
  BY DEF Connect
<1> HIDE DEF s
<1>4. GoodSession(s)
  BY <1>1 DEF GoodSession, SessionOK
<1>5. GoodLogins(c, s, logged_in') /\ GoodUsers(users')
  BY <1>2, <1>3, NothingNew
<1> QED BY <1>3, <1>4, <1>5, UpdateInv

\* A check that answers no: the thread goes on to the change, or to recv.
LEMMA CheckInv ==
    ASSUME Inv, NEW c \in Conns, IsLoggedInForLogin(c) \/ IsUser(c)
    PROVE  Inv'
<1> DEFINE t == session[c]
<1>1. /\ Open(c) /\ t \in Sessions /\ t.loop = "login"
      /\ t.username \in Users /\ t.password \in Passwords
  BY OpenSession DEF IsLoggedInForLogin, IsUser, At, SessionOK
<1>2. PICK f \in {"recv", "login", "registerUser"} : Update(c, [t EXCEPT !.call = f])
  BY DEF IsLoggedInForLogin, IsUser, Goto
<1> DEFINE s == [t EXCEPT !.call = f]
<1>3. s \in Sessions /\ s.loop = "login" /\ SessionOK(s)
  BY <1>1 DEF Sessions, Calls, SessionOK
<1>4. UNCHANGED <<users, logged_in, gone>>
  BY DEF IsLoggedInForLogin, IsUser
<1> HIDE DEF s
<1> QED BY <1>1, <1>2, <1>3, <1>4, LoginLoopInv DEF s

-----------------------------------------------------------------------------
(***************************************************************************)
(* The actions that change users or logged_in as well.                     *)
(***************************************************************************)
\* registerUser never changes a password that is there.
LEMMA RegisterUserInv ==
    ASSUME Inv, NEW c \in Conns, RegisterUser(c)
    PROVE  Inv'
<1> DEFINE t == session[c]
           s == [t EXCEPT !.call = "recv"]
<1>1. /\ Open(c) /\ t \in Sessions /\ t.loop = "login"
      /\ t.username \in Users /\ t.password \in Passwords
  BY OpenSession DEF RegisterUser, At, SessionOK
<1>2. s \in Sessions /\ s.loop = "login" /\ SessionOK(s)
  BY <1>1 DEF Sessions, Calls, SessionOK
<1>3. GoodUsers(users')
  <2>1. CASE t.username \in DOMAIN users
    BY <2>1, NothingNew DEF RegisterUser
  <2>2. CASE t.username \notin DOMAIN users
    <3>1. users' = Put(users, t.username, t.password)
      BY <2>2 DEF RegisterUser
    <3>2. IsMap(users', Users, Passwords)
      BY <1>1, <3>1, PutType DEF Inv, TypeOK
    <3>3. \A u \in DOMAIN users : u \in DOMAIN users' /\ users'[u] = users[u]
      BY <2>2, <3>1 DEF Put
    <3> QED BY <3>2, <3>3 DEF GoodUsers
  <2> QED BY <2>1, <2>2
<1>4. Update(c, s) /\ UNCHANGED <<logged_in, gone>>
  BY DEF RegisterUser, Goto
<1>5. GoodLogins(c, s, logged_in')
  BY <1>1, <1>4, SessionMeaning, NothingNew
<1>6. GoodSession(s)
  BY <1>2 DEF GoodSession
<1> HIDE DEF s
<1> QED BY <1>3, <1>4, <1>5, <1>6, UpdateInv

\* A login adds the session's own entry, replacing that of an older login of
\* the same user, and makes no other.
LEMMA LoginInv ==
    ASSUME Inv, NEW c \in Conns, Login(c)
    PROVE  Inv'
<1> DEFINE t  == session[c]
           ok == t.username \in DOMAIN users /\ users[t.username] = t.password
           s  == [t EXCEPT !.call = "recv", !.logged_in = ok,
                           !.loop = IF ok THEN "while" ELSE "login"]
<1>1. /\ Open(c) /\ t \in Sessions /\ t.loop = "login"
      /\ t.username \in Users /\ t.password \in Passwords
  BY OpenSession DEF Login, At, SessionOK
<1>2. Update(c, s) /\ UNCHANGED <<users, gone>>
  BY DEF Login
<1>3. CASE ok
  <2>1. /\ s \in Sessions /\ s.loop = "while" /\ s.logged_in /\ s.call = "recv"
        /\ s.username = t.username /\ s.password = t.password
    BY <1>1, <1>3 DEF Sessions, Calls
  <2>2. logged_in' = Put(logged_in, t.username, c)
    BY <1>3 DEF Login
  <2>3. IsMap(logged_in', Users, Conns)
    BY <1>1, <2>2, PutType DEF Inv, TypeOK
  <2>4. \A u \in DOMAIN logged_in : logged_in[u] # c
    BY <1>1, SessionMeaning
  <2> HIDE DEF s
  <2>5. GoodLogins(c, s, logged_in')
    BY <2>1, <2>2, <2>3, <2>4 DEF GoodLogins, Put
  <2>6. GoodSession(s)
    BY <1>3, <2>1 DEF GoodSession, SessionOK
  <2> QED BY <1>2, <2>5, <2>6, NothingNew, UpdateInv
<1>4. CASE ~ok
  <2>1. s \in Sessions /\ s.loop = "login" /\ s.call = "recv"
    BY <1>1, <1>4 DEF Sessions, Calls
  <2>2. UNCHANGED logged_in
    BY <1>4 DEF Login
  <2> HIDE DEF s
  <2>3. SessionOK(s)
    BY <2>1 DEF SessionOK
  <2> QED BY <1>1, <1>2, <2>1, <2>2, <2>3, LoginLoopInv
<1> QED BY <1>3, <1>4

\* After a logout the session goes on under its name, in its loop, or closes.
LEMMA AfterLogoutSession ==
    ASSUME Inv, NEW c \in Conns, Open(c), AfterLogout(c),
           session[c].call \in {"isLoggedIn_logout", "logout"}
    PROVE  \E s : /\ Update(c, s) /\ GoodSession(s)
                  /\ s.loop = session[c].loop
                  /\ s.username = session[c].username
                  /\ s.password = session[c].password
<1> DEFINE t == session[c]
           s == IF t.last THEN [t EXCEPT !.call = "close"]
                ELSE IF t.loop = "login"
                THEN [t EXCEPT !.call = "recv", !.logged_in = FALSE]
                ELSE [t EXCEPT !.call = "recv",
                               !.loop = IF t.logged_in THEN "while" ELSE "login"]
<1>1. t \in Sessions /\ SessionOK(t)
  BY OpenSession
<1>2. Update(c, s)
  BY DEF AfterLogout
<1>3. /\ s \in Sessions /\ SessionOK(s)
      /\ s.username = t.username /\ s.password = t.password
      /\ s.loop = t.loop
  <2>1. CASE t.last
    BY <1>1, <2>1 DEF Sessions, Calls, SessionOK
  <2>2. CASE ~t.last /\ t.loop = "login"
    BY <1>1, <2>2 DEF Sessions, Calls, SessionOK
  <2>3. CASE ~t.last /\ t.loop = "while"
    BY <1>1, <2>3 DEF Sessions, Calls, SessionOK
  <2> QED BY <1>1, <2>1, <2>2, <2>3 DEF Sessions
<1> HIDE DEF s
<1>4. GoodSession(s)
  BY <1>3, SessionMeaning DEF GoodSession
<1> QED BY <1>2, <1>3, <1>4

\* A logout, found needless or done, leaves no entry of the session.
LEMMA LogoutInv ==
    ASSUME Inv, NEW c \in Conns, Open(c), AfterLogout(c),
           session[c].call \in {"isLoggedIn_logout", "logout"},
           logged_in' = Drop(logged_in, session[c].username),
           UNCHANGED <<users, gone>>
    PROVE  Inv'
<1>1. PICK s : Update(c, s) /\ GoodSession(s)
  BY AfterLogoutSession
<1>2. IsMap(logged_in', Users, Conns)
  BY DropType DEF Inv, TypeOK
<1>3. GoodLogins(c, s, logged_in')
  BY <1>2, SessionMeaning DEF GoodLogins, Drop
<1> QED BY <1>1, <1>3, NothingNew, UpdateInv

LEMMA LogoutCallsInv ==
    ASSUME Inv, NEW c \in Conns, IsLoggedInForLogout(c) \/ LogoutUser(c)
    PROVE  Inv'
<1> DEFINE t == session[c]
<1>1. Open(c) /\ t \in Sessions /\ SessionOK(t)
  BY OpenSession DEF IsLoggedInForLogout, LogoutUser, At
<1>2. CASE LogoutUser(c)
  BY <1>1, <1>2, LogoutInv DEF LogoutUser, At
<1>3. CASE IsLoggedInForLogout(c) /\ t.username \in DOMAIN logged_in
  <2> DEFINE s == [t EXCEPT !.call = "logout"]
  <2>1. /\ s \in Sessions /\ SessionOK(s)
        /\ s.loop = t.loop /\ s.username = t.username /\ s.password = t.password
        /\ s.call # "close"
    BY <1>1 DEF Sessions, Calls, SessionOK
  <2>2. Update(c, s) /\ UNCHANGED <<users, logged_in, gone>>
    BY <1>3 DEF IsLoggedInForLogout, Goto
  <2> HIDE DEF s
  <2> QED BY <1>1, <2>1, <2>2, SessionStep
<1>4. CASE IsLoggedInForLogout(c) /\ t.username \notin DOMAIN logged_in
  <2>1. logged_in = Drop(logged_in, t.username)
    BY <1>4 DEF Drop, Inv, TypeOK, IsMap
  <2> QED BY <1>1, <1>4, <2>1, LogoutInv DEF IsLoggedInForLogout, At
<1> QED BY <1>2, <1>3, <1>4

LEMMA CloseInv ==
    ASSUME Inv, NEW c \in Conns, Close(c)
    PROVE  Inv'
<1>1. /\ session' \in [Conns -> Sessions \cup {Closed}]
      /\ session'[c] = Closed
      /\ \A d \in Conns \ {c} : session'[d] = session[d]
  BY DEF Inv, TypeOK, Close, Update
<1>2. \A u \in DOMAIN logged_in : logged_in[u] \in Conns \ {c}
  BY SessionMeaning DEF Close, At, Inv, TypeOK, IsMap
<1>3. UNCHANGED <<users, logged_in>> /\ gone' = gone \ {c}
  BY DEF Close
<1>4. TypeOK'
  BY <1>1, <1>3 DEF Inv, TypeOK, Open
<1>5. SessionsOK' /\ Authenticated'
  BY <1>1, <1>3 DEF Inv, SessionsOK, Authenticated, Entered, Open
<1>6. EntriesHaveSessions' /\ ClosingIsLoggedOut'
  BY <1>1, <1>2, <1>3
     DEF Inv, EntriesHaveSessions, ClosingIsLoggedOut, Entered, Open
<1> QED BY <1>4, <1>5, <1>6 DEF Inv

LEMMA HangUpInv ==
    ASSUME Inv, NEW c \in Conns, HangUp(c)
    PROVE  Inv'
BY DEF HangUp, Inv, TypeOK, SessionsOK, Authenticated, EntriesHaveSessions,
       ClosingIsLoggedOut, Entered, Open

-----------------------------------------------------------------------------
(***************************************************************************)
(* The invariant.                                                          *)
(***************************************************************************)
LEMMA InitInv == Init => Inv
BY DEF Init, Inv, TypeOK, SessionsOK, Authenticated, EntriesHaveSessions,
       ClosingIsLoggedOut, Entered, Open, IsMap, EmptyMap

LEMMA NextInv == Inv /\ [Next]_vars => Inv'
<1> SUFFICES ASSUME Inv, [Next]_vars PROVE Inv'
  OBVIOUS
<1>1. CASE UNCHANGED vars
  BY <1>1 DEF vars, Inv, TypeOK, SessionsOK, Authenticated, EntriesHaveSessions,
              ClosingIsLoggedOut, Entered, Open
<1>2. CASE Next
  <2>1. PICK c \in Conns :
           Connect(c) \/ HangUp(c) \/ Request(c) \/ Leave(c) \/ Serve(c)
    BY <1>2 DEF Next
  <2> QED
    BY <2>1, ConnectInv, HangUpInv, RequestInv, LeaveInv, CheckInv,
       RegisterUserInv, LoginInv, LogoutCallsInv, CloseInv DEF Serve
<1> QED BY <1>1, <1>2

\* The invariant holds in every reachable state.
THEOREM Invariant == Spec => []Inv
BY InitInv, NextInv, PTL DEF Spec

\* The tables, the sessions and the set of hung-up connections keep their types.
THEOREM TypeCorrect == Spec => []TypeOK
<1>1. Inv => TypeOK
  BY DEF Inv
<1> QED BY <1>1, Invariant, PTL

\* Nobody gets into while_loop, or stays there, without the registered password.
THEOREM OnlyAuthenticatedSessions == Spec => []Authenticated
<1>1. Inv => Authenticated
  BY DEF Inv
<1> QED BY <1>1, Invariant, PTL

\* No entry of logged_in outlives the session that made it.
THEOREM NoStaleEntries == Spec => []EntriesHaveSessions
<1>1. Inv => EntriesHaveSessions
  BY DEF Inv
<1> QED BY <1>1, Invariant, PTL

-----------------------------------------------------------------------------
(***************************************************************************)
(* Session implements AccessControl.  A step of a connection changes at    *)
(* most whom that connection acts for; all but a login and a close leave   *)
(* even that alone, because SessionOK keeps a session in while_loop there  *)
(* and under its name.                                                     *)
(***************************************************************************)
\* Whom a session acts for.
Identity(s) == IF s.loop = "while" THEN <<s.username, s.password>> ELSE <<>>

LEMMA ActingIsIdentity == Acting = [c \in Conns |-> Identity(session[c])]
<1>1. Closed.loop # "while"
  BY DEF Closed
<1>2. \A c \in Conns : Entered(c) <=> session[c].loop = "while"
  BY <1>1 DEF Entered, Open
<1> QED
  BY <1>2 DEF Acting, Identity

LEMMA ActingStep ==
    ASSUME Inv, NEW c \in Conns, NEW s, Update(c, s)
    PROVE  /\ Acting[c] = Identity(session[c])
           /\ Acting' = [Acting EXCEPT ![c] = Identity(s)]
           /\ Identity(s) = Identity(session[c]) => Acting' = Acting
<1>1. session' = [d \in Conns |-> IF d = c THEN s ELSE session[d]]
  BY DEF Inv, TypeOK, Update
<1>2. Acting' = [d \in Conns |-> Identity(session'[d])]
  <2>1. Closed.loop # "while"
    BY DEF Closed
  <2>2. \A d \in Conns : Entered(d)' <=> session'[d].loop = "while"
    BY <2>1 DEF Entered, Open
  <2> QED
    BY <2>2 DEF Acting, Identity
<1>3. Acting' = [d \in Conns |-> IF d = c THEN Identity(s) ELSE Identity(session[d])]
  BY <1>1, <1>2
<1> QED
  BY <1>3, ActingIsIdentity

\* What the steps that change only one session leave of it.
LEMMA QuietStep ==
    ASSUME Inv, NEW c \in Conns,
           \/ Connect(c) \/ Request(c) \/ Leave(c)
           \/ IsLoggedInForLogin(c) \/ IsUser(c)
    PROVE  UNCHANGED <<users, logged_in, Acting>>
<1> DEFINE t == session[c]
<1>1. ASSUME NEW s, Update(c, s), Identity(s) = Identity(t), UNCHANGED <<users, logged_in>>
      PROVE  UNCHANGED <<users, logged_in, Acting>>
  BY <1>1, ActingStep
<1>2. CASE Connect(c)
  <2>1. PICK s : Update(c, s) /\ s.loop = "login" /\ UNCHANGED <<users, logged_in>>
    BY <1>2 DEF Connect
  <2>2. Identity(s) = <<>> /\ Identity(t) = <<>>
    BY <1>2, <2>1 DEF Identity, Connect, Open, Closed
  <2> QED
    BY <1>1, <2>1, <2>2
<1>3. ASSUME t.loop = "login", NEW u, NEW p, NEW f,
             \/ Update(c, [t EXCEPT !.username = u, !.password = p, !.call = f])
             \/ Update(c, [t EXCEPT !.username = u, !.call = f]),
             t \in Sessions, UNCHANGED <<users, logged_in>>
      PROVE  UNCHANGED <<users, logged_in, Acting>>
  <2> DEFINE r == [t EXCEPT !.username = u, !.password = p, !.call = f]
             q == [t EXCEPT !.username = u, !.call = f]
  <2>1. r.loop = "login" /\ q.loop = "login"
    BY <1>3 DEF Sessions
  <2> HIDE DEF r, q
  <2>2. Identity(r) = Identity(t) /\ Identity(q) = Identity(t)
    BY <1>3, <2>1 DEF Identity
  <2>3. Update(c, r) \/ Update(c, q)
    BY <1>3 DEF r, q
  <2> QED
    BY <1>1, <1>3, <2>2, <2>3
<1>4. CASE \/ \E u \in Users, p \in Passwords :
                 LoginRequest(c, u, p) \/ CreateUserRequest(c, u, p)
           \/ \E u \in Users : LogoutRequest(c, u)
  <2>1. t \in Sessions /\ t.loop = "login" /\ UNCHANGED <<users, logged_in>>
    BY <1>4, OpenSession DEF LoginRequest, CreateUserRequest, LogoutRequest, InLoop, At
  <2> QED
    BY <1>3, <1>4, <2>1 DEF LoginRequest, CreateUserRequest, LogoutRequest
<1>5. CASE Logout(c) \/ RefuseLogin(c) \/ Leave(c) \/ IsLoggedInForLogin(c) \/ IsUser(c)
  <2>1. t \in Sessions /\ UNCHANGED <<users, logged_in>>
    BY <1>5, OpenSession
       DEF Logout, RefuseLogin, Leave, IsLoggedInForLogin, IsUser, InLoop, At
  <2> DEFINE a(f, b) == [t EXCEPT !.call = f, !.refused = b]
             l(f, b) == [t EXCEPT !.call = f, !.last = b]
             r(b)    == [t EXCEPT !.refused = b]
             g(f)    == [t EXCEPT !.call = f]
             Same(s) == /\ s.loop = t.loop /\ s.username = t.username
                        /\ s.password = t.password
  <2>2. \A f, b : Same(a(f, b)) /\ Same(l(f, b)) /\ Same(r(b)) /\ Same(g(f))
    BY <2>1 DEF Sessions
  <2>3. \/ Update(c, a("isLoggedIn_logout", FALSE)) \/ Update(c, r(TRUE))
         \/ Update(c, l("isLoggedIn_logout", TRUE))
         \/ \E f \in Calls : Update(c, g(f))
    BY <1>5 DEF Logout, RefuseLogin, Leave, IsLoggedInForLogin, IsUser, Goto, Calls
  <2> HIDE DEF a, l, r, g
  <2>4. PICK s : Update(c, s) /\ Same(s)
    BY <2>2, <2>3
  <2>5. Identity(s) = Identity(t)
    BY <2>4 DEF Identity
  <2> QED
    BY <1>1, <2>1, <2>4, <2>5
<1> QED
  BY <1>2, <1>4, <1>5 DEF Request

LEMMA RegisterUserRefines ==
    ASSUME Inv, NEW c \in Conns, RegisterUser(c)
    PROVE  Access!Next \/ UNCHANGED <<users, logged_in, Acting>>
<1> DEFINE t == session[c]
<1>1. /\ Open(c) /\ t \in Sessions /\ t.username \in Users /\ t.password \in Passwords
  BY OpenSession DEF RegisterUser, At, SessionOK
<1>2. Update(c, [t EXCEPT !.call = "recv"]) /\ UNCHANGED logged_in
  BY DEF RegisterUser, Goto
<1>3. Identity([t EXCEPT !.call = "recv"]) = Identity(t)
  BY <1>1 DEF Identity, Sessions
<1>4. Acting' = Acting
  BY <1>2, <1>3, ActingStep
<1>5. CASE t.username \in DOMAIN users
  BY <1>2, <1>4, <1>5 DEF RegisterUser
<1>6. CASE t.username \notin DOMAIN users
  <2>1. Access!Register(t.username, t.password)
    BY <1>2, <1>4, <1>6 DEF RegisterUser, Access!Register, Put, Access!Put
  <2> QED
    BY <1>1, <2>1 DEF Access!Next
<1> QED
  BY <1>5, <1>6

LEMMA LoginRefines ==
    ASSUME Inv, NEW c \in Conns, Login(c)
    PROVE  Access!Next \/ UNCHANGED <<users, logged_in, Acting>>
<1> DEFINE t  == session[c]
           ok == t.username \in DOMAIN users /\ users[t.username] = t.password
           s  == [t EXCEPT !.call = "recv", !.logged_in = ok,
                           !.loop = IF ok THEN "while" ELSE "login"]
<1>1. /\ t \in Sessions /\ t.loop = "login"
      /\ t.username \in Users /\ t.password \in Passwords
  BY OpenSession DEF Login, At, SessionOK
<1>2. Update(c, s) /\ UNCHANGED users
  BY DEF Login
<1>3. /\ s.loop = IF ok THEN "while" ELSE "login"
      /\ s.username = t.username /\ s.password = t.password
  BY <1>1 DEF Sessions
<1> HIDE DEF s
<1>4. Acting[c] = <<>> /\ Acting' = [Acting EXCEPT ![c] = Identity(s)]
  BY <1>1, <1>2, ActingStep DEF Identity
<1>5. CASE ok
  <2>1. Identity(s) = <<t.username, t.password>>
    BY <1>3, <1>5 DEF Identity
  <2>2. logged_in' = Put(logged_in, t.username, c)
    BY <1>5 DEF Login
  <2>3. Access!Admit(c, t.username, t.password)
    BY <1>2, <1>4, <1>5, <2>1, <2>2 DEF Access!Admit, Access!Nobody, Put, Access!Put
  <2> QED
    BY <1>1, <2>3 DEF Access!Next
<1>6. CASE ~ok
  <2>1. UNCHANGED logged_in /\ Identity(s) = Identity(t)
    BY <1>1, <1>3, <1>6 DEF Login, Identity
  <2> QED
    BY <1>2, <2>1, ActingStep
<1> QED
  BY <1>5, <1>6

LEMMA LogoutRefines ==
    ASSUME Inv, NEW c \in Conns, IsLoggedInForLogout(c) \/ LogoutUser(c)
    PROVE  Access!Next \/ UNCHANGED <<users, logged_in, Acting>>
<1> DEFINE t == session[c]
<1>1. Open(c) /\ t \in Sessions /\ t.call \in {"isLoggedIn_logout", "logout"}
      /\ UNCHANGED users
  BY OpenSession DEF IsLoggedInForLogout, LogoutUser, At
<1>2. PICK s : /\ Update(c, s)
               /\ s.loop = t.loop /\ s.username = t.username /\ s.password = t.password
  <2>1. CASE AfterLogout(c)
    BY <1>1, <2>1, AfterLogoutSession
  <2>2. CASE Goto(c, "logout")
    BY <1>1, <2>2 DEF Goto, Sessions
  <2> QED
    BY <2>1, <2>2 DEF IsLoggedInForLogout, LogoutUser
<1>3. Acting' = Acting
  BY <1>2, ActingStep DEF Identity
<1>4. CASE IsLoggedInForLogout(c)
  BY <1>3, <1>4 DEF IsLoggedInForLogout
<1>5. CASE LogoutUser(c) /\ t.username \notin DOMAIN logged_in
  <2>1. Drop(logged_in, t.username) = logged_in
    BY <1>5 DEF Drop, Inv, TypeOK, IsMap
  <2> QED
    BY <1>1, <1>3, <1>5, <2>1 DEF LogoutUser
<1>6. CASE LogoutUser(c) /\ t.username \in DOMAIN logged_in
  <2>1. t.username \in Users
    BY <1>6 DEF Inv, TypeOK, IsMap
  <2>2. Access!StrikeOff(t.username)
    BY <1>1, <1>3, <1>6 DEF LogoutUser, Access!StrikeOff, Drop, Access!Drop
  <2> QED
    BY <2>1, <2>2 DEF Access!Next
<1> QED
  BY <1>4, <1>5, <1>6

LEMMA CloseRefines ==
    ASSUME Inv, NEW c \in Conns, Close(c)
    PROVE  Access!Next \/ UNCHANGED <<users, logged_in, Acting>>
<1>1. Update(c, Closed) /\ UNCHANGED <<users, logged_in>> /\ Open(c)
  BY DEF Close, At
<1>2. Identity(Closed) = <<>>
  BY DEF Identity, Closed
<1>3. Acting' = [Acting EXCEPT ![c] = <<>>] /\ (Acting[c] = <<>> => Acting' = Acting)
  BY <1>1, <1>2, ActingStep
<1>4. \A u \in DOMAIN logged_in : logged_in[u] # c
  BY <1>1, SessionMeaning DEF Close, At
<1>5. CASE Acting[c] # <<>>
  <2>1. Access!Dismiss(c)
    BY <1>1, <1>3, <1>4, <1>5 DEF Access!Dismiss, Access!Nobody
  <2> QED
    BY <2>1 DEF Access!Next
<1> QED
  BY <1>1, <1>3, <1>5

LEMMA StepRefines ==
    ASSUME Inv, [Next]_vars
    PROVE  Access!Next \/ UNCHANGED <<users, logged_in, Acting>>
<1>1. CASE UNCHANGED vars
  BY <1>1 DEF vars, Acting, Entered, Open
<1>2. ASSUME NEW c \in Conns, HangUp(c)
      PROVE  UNCHANGED <<users, logged_in, Acting>>
  BY <1>2 DEF HangUp, Acting, Entered, Open
<1> QED
  BY <1>1, <1>2, QuietStep, RegisterUserRefines, LoginRefines, LogoutRefines,
     CloseRefines DEF Next, Serve

\* Session implements AccessControl.
THEOREM Refinement == Spec => RefinesAccess
<1>1. Init => Access!Init
  BY DEF Init, Access!Init, Acting, Entered, Open, EmptyMap, Access!EmptyMap,
         Access!Nobody
<1>2. Inv /\ [Next]_vars => Access!Next \/ UNCHANGED <<users, logged_in, Acting>>
  BY StepRefines
<1> QED
  BY <1>1, <1>2, Invariant, PTL DEF Spec, RefinesAccess, Access!Spec
=============================================================================
