------------------------------ MODULE Session -------------------------------
(***************************************************************************)
(* The users of one tracker and its client connections                     *)
(* (managers/user_manager.cpp, the login commands of                       *)
(* managers/command_manager.cpp, and login_loop and while_loop of          *)
(* managers/client_manager.cpp).                                           *)
(*                                                                         *)
(* Each connection is served by a ClientManager on a pool thread.  It      *)
(* takes one command at a time; a command is a check and a change, each of *)
(* which locks UserManager::mtx for itself, so the calls of different      *)
(* connections interleave.  What SYNC messages and the `sync' command of   *)
(* while_loop do to the same maps is in TrackerSync, and not here.         *)
(***************************************************************************)
EXTENDS HashMap

CONSTANTS
    Conns,      \* connections, which stand for the client addresses too
    Users,      \* user names
    Passwords,
    NoUser      \* the empty string, ClientManager::username before any command

ASSUME NoUserIsNoUser == NoUser \notin Users

VARIABLES
    users,      \* user -> password, of every registered user
    logged_in,  \* user -> the connection that logged in
    session,    \* connection -> its ClientManager, or Closed
    gone        \* the connections whose client has hung up

vars == <<users, logged_in, session, gone>>

-----------------------------------------------------------------------------
Calls == {"recv", "isLoggedIn_login", "login", "isUser", "registerUser",
          "isLoggedIn_logout", "logout", "close"}

Closed == [loop |-> "none"]

(***************************************************************************)
(* loop      the loop that receives the next command                       *)
(* call      what the thread does next                                     *)
(* username  ClientManager::username                                       *)
(* password  of the last login or create_user                              *)
(* logged_in ClientManager::logged_in, which login_loop loops on           *)
(* last      the command is an exit or a hang-up: the session ends with it *)
(* refused   login was answered "You are already logged in"                *)
(***************************************************************************)
Sessions == [loop : {"login", "while"}, call : Calls,
             username : Users \cup {NoUser}, password : Passwords \cup {NoUser},
             logged_in : BOOLEAN, last : BOOLEAN, refused : BOOLEAN]

Open(c)      == session[c] # Closed
At(c, f)     == Open(c) /\ session[c].call = f
InLoop(c, l) == At(c, "recv") /\ session[c].loop = l /\ c \notin gone
Entered(c)   == Open(c) /\ session[c].loop = "while"

Update(c, s) == session' = [session EXCEPT ![c] = s]

Goto(c, f) == Update(c, [session[c] EXCEPT !.call = f])

Init ==
    /\ users = EmptyMap
    /\ logged_in = EmptyMap
    /\ session = [c \in Conns |-> Closed]
    /\ gone = {}

\* handle_client makes a ClientManager for the connection and starts it.
Connect(c) ==
    /\ ~Open(c)
    /\ Update(c, [loop |-> "login", call |-> "recv", username |-> NoUser,
                  password |-> NoUser, logged_in |-> FALSE, last |-> FALSE,
                  refused |-> FALSE])
    /\ UNCHANGED <<users, logged_in, gone>>

\* The client closes its end, at any time.
HangUp(c) ==
    /\ Open(c) /\ c \notin gone
    /\ gone' = gone \cup {c}
    /\ UNCHANGED <<users, logged_in, session>>

-----------------------------------------------------------------------------
(***************************************************************************)
(* login_loop: the name in a command becomes the session's username before *)
(* the command is known to succeed.                                        *)
(***************************************************************************)
LoginRequest(c, u, p) ==
    /\ InLoop(c, "login")
    /\ Update(c, [session[c] EXCEPT !.username = u, !.password = p,
                                    !.call = "isLoggedIn_login"])
    /\ UNCHANGED <<users, logged_in, gone>>

CreateUserRequest(c, u, p) ==
    /\ InLoop(c, "login")
    /\ Update(c, [session[c] EXCEPT !.username = u, !.password = p,
                                    !.call = "isUser"])
    /\ UNCHANGED <<users, logged_in, gone>>

LogoutRequest(c, u) ==
    /\ InLoop(c, "login")
    /\ Update(c, [session[c] EXCEPT !.username = u, !.call = "isLoggedIn_logout"])
    /\ UNCHANGED <<users, logged_in, gone>>

(***************************************************************************)
(* while_loop: a logout names nobody, and login is refused.                *)
(***************************************************************************)
Logout(c) ==
    /\ InLoop(c, "while")
    /\ Update(c, [session[c] EXCEPT !.call = "isLoggedIn_logout",
                                    !.refused = FALSE])
    /\ UNCHANGED <<users, logged_in, gone>>

RefuseLogin(c) ==
    /\ InLoop(c, "while")
    /\ Update(c, [session[c] EXCEPT !.refused = TRUE])
    /\ UNCHANGED <<users, logged_in, gone>>

\* A slip: the session ends without a logout.
LeaveSilently(c) ==
    /\ At(c, "recv")
    /\ Update(c, [session[c] EXCEPT !.call = "close", !.last = TRUE])
    /\ UNCHANGED <<users, logged_in, gone>>

\* A slip: recv's 0 on a closed connection is taken for an empty message.
LeaveOnExitOnly(c) ==
    /\ At(c, "recv") /\ c \notin gone
    /\ Update(c, [session[c] EXCEPT !.call = "isLoggedIn_logout", !.last = TRUE])
    /\ UNCHANGED <<users, logged_in, gone>>

\* In both loops: exit, or recv finds that the client has hung up.
Leave(c) ==
    /\ At(c, "recv")
    /\ Update(c, [session[c] EXCEPT !.call = "isLoggedIn_logout", !.last = TRUE])
    /\ UNCHANGED <<users, logged_in, gone>>

-----------------------------------------------------------------------------
(***************************************************************************)
(* The calls into UserManager.                                             *)
(***************************************************************************)
IsLoggedInForLogin(c) ==
    /\ At(c, "isLoggedIn_login")
    /\ Goto(c, IF session[c].username \in DOMAIN logged_in THEN "recv"
               ELSE "login")
    /\ UNCHANGED <<users, logged_in, gone>>

\* On success login_loop ends and while_loop begins.
Login(c) ==
    LET s  == session[c]
        ok == s.username \in DOMAIN users /\ users[s.username] = s.password
    IN  /\ At(c, "login")
        /\ logged_in' = IF ok THEN Put(logged_in, s.username, c) ELSE logged_in
        /\ Update(c, [s EXCEPT !.call = "recv", !.logged_in = ok,
                               !.loop = IF ok THEN "while" ELSE "login"])
        /\ UNCHANGED <<users, gone>>

IsUser(c) ==
    /\ At(c, "isUser")
    /\ Goto(c, IF session[c].username \in DOMAIN users THEN "recv"
               ELSE "registerUser")
    /\ UNCHANGED <<users, logged_in, gone>>

\* A slip: registerUser trusts isUser and does not look again.
RegisterUserUnchecked(c) ==
    LET s == session[c]
    IN  /\ At(c, "registerUser")
        /\ users' = Put(users, s.username, s.password)
        /\ Goto(c, "recv")
        /\ UNCHANGED <<logged_in, gone>>

RegisterUser(c) ==
    LET s == session[c]
    IN  /\ At(c, "registerUser")
        /\ users' = IF s.username \in DOMAIN users THEN users
                    ELSE Put(users, s.username, s.password)
        /\ Goto(c, "recv")
        /\ UNCHANGED <<logged_in, gone>>

(***************************************************************************)
(* What follows a logout.  An ending session closes.  login_loop goes on   *)
(* with its flag cleared; while_loop enters login_loop, which returns at   *)
(* once if the flag is still set.                                          *)
(***************************************************************************)
AfterLogout(c) ==
    LET s == session[c]
    IN  Update(c,
           IF s.last THEN [s EXCEPT !.call = "close"]
           ELSE IF s.loop = "login"
           THEN [s EXCEPT !.call = "recv", !.logged_in = FALSE]
           ELSE [s EXCEPT !.call = "recv",
                          !.loop = IF s.logged_in THEN "while" ELSE "login"])

IsLoggedInForLogout(c) ==
    /\ At(c, "isLoggedIn_logout")
    /\ IF session[c].username \in DOMAIN logged_in THEN Goto(c, "logout")
       ELSE AfterLogout(c)
    /\ UNCHANGED <<users, logged_in, gone>>

LogoutUser(c) ==
    /\ At(c, "logout")
    /\ logged_in' = Drop(logged_in, session[c].username)
    /\ AfterLogout(c)
    /\ UNCHANGED <<users, gone>>

\* A slip: the hang-up is remembered for the next client on the socket.
CloseForgetfully(c) ==
    /\ At(c, "close")
    /\ Update(c, Closed)
    /\ UNCHANGED <<users, logged_in, gone>>

\* The socket is closed and the pool thread released.
Close(c) ==
    /\ At(c, "close")
    /\ Update(c, Closed)
    /\ gone' = gone \ {c}
    /\ UNCHANGED <<users, logged_in>>

-----------------------------------------------------------------------------
\* What the thread of connection c does without waiting for its client.
Serve(c) ==
    \/ IsLoggedInForLogin(c)
    \/ Login(c)
    \/ IsUser(c)
    \/ RegisterUser(c)
    \/ IsLoggedInForLogout(c)
    \/ LogoutUser(c)
    \/ Close(c)

Request(c) ==
    \/ \E u \in Users, p \in Passwords :
          LoginRequest(c, u, p) \/ CreateUserRequest(c, u, p)
    \/ \E u \in Users : LogoutRequest(c, u)
    \/ Logout(c)
    \/ RefuseLogin(c)

Next == \E c \in Conns :
    Connect(c) \/ HangUp(c) \/ Request(c) \/ Leave(c) \/ Serve(c)

\* A pool thread keeps running, and recv on a closed connection returns.
Fairness == \A c \in Conns :
    WF_vars(Serve(c)) /\ WF_vars(c \in gone /\ Leave(c))

Spec == Init /\ [][Next]_vars /\ Fairness

-----------------------------------------------------------------------------
\* Every variable has its type, and only an open connection has hung up.
TypeOK ==
    /\ IsMap(users, Users, Passwords)
    /\ IsMap(logged_in, Users, Conns)
    /\ session \in [Conns -> Sessions \cup {Closed}]
    /\ gone \subseteq {c \in Conns : Open(c)}

\* Whoever is in while_loop gave the registered password of the name he acts
\* under, also after create_user commands for that name that ran meanwhile.
Authenticated ==
    \A c \in Conns : Entered(c) =>
        /\ session[c].username \in DOMAIN users
        /\ session[c].password = users[session[c].username]

\* An entry of logged_in is never left behind: the connection it names is open,
\* in while_loop, and under that name, although logouts of other connections
\* and a second login of the same user may run between any two calls.
EntriesHaveSessions ==
    \A u \in DOMAIN logged_in :
        /\ Entered(logged_in[u])
        /\ session[logged_in[u]].username = u

\* For whom each connection acts: nobody in login_loop, the user of its session
\* in while_loop.
Acting == [c \in Conns |->
              IF Entered(c) THEN <<session[c].username, session[c].password>>
              ELSE <<>>]

Access == INSTANCE AccessControl
             WITH book <- users, inside <- logged_in, acting <- Acting

\* Whatever the interleaving of checks and changes, the sessions implement
\* AccessControl: a connection acts for one user, whose password it gave, also
\* when logouts strike him off, and leaves no entry behind when it ends.
RefinesAccess == Access!Spec

\* A hang-up is always noticed, in whichever loop the session is, and takes the
\* entry of the connection out of logged_in.
HangUpLogsOut ==
    \A c \in Conns :
        c \in gone ~> c \notin {logged_in[u] : u \in DOMAIN logged_in}

-----------------------------------------------------------------------------
\* README_CLIENT.md:711, "Successful login after logout": a session that is
\* told it is already logged in has an entry in logged_in.
LoginAfterLogout ==
    [][\A c \in Conns :
          InLoop(c, "while") /\ ~session[c].refused /\ session'[c].refused =>
             session[c].username \in DOMAIN logged_in]_vars
=============================================================================
