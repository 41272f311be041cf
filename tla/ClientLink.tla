----------------------------- MODULE ClientLink -----------------------------
(***************************************************************************)
(* A client, its background download, and the session of the tracker it    *)
(* is connected to (client/headers/client_skelton.cpp and the loops of     *)
(* tracker/managers/client_manager.cpp).                                   *)
(*                                                                         *)
(* The two talk plain text over a byte stream: what one recv returns is    *)
(* taken for one command, or for one reply, whatever was sent to make it.  *)
(* The client's command loop and its download use the same socket, and     *)
(* tracker_comm_mutex is only taken by the download.                       *)
(*                                                                         *)
(* A second download waits for that mutex, so there is one at a time; the  *)
(* two or three times it drains the socket between its pieces and its      *)
(* report are one.  Commands the client answers itself are left out, and   *)
(* so are exit and the sync command of the trackers.                       *)
(***************************************************************************)
EXTENDS Naturals, Sequences

CONSTANTS
    MaxCommands,    \* bound: how often it may begin one, see turn
    MaxBreaks       \* bound: how often a connection breaks

ASSUME LinkAssumption == MaxCommands \in Nat /\ MaxBreaks \in Nat

VARIABLES
    main,           \* what the command loop does
    cmd,            \* the command it works on
    turn,           \* how many it has got to, re-logins included
    loggedIn,       \* Client::logged_in
    thread,         \* what the download does
    session,        \* what the tracker's thread does
    up, down,       \* what was sent to the tracker, and to the client
    nonblock,       \* O_NONBLOCK of the socket
    saved,          \* who drains the socket -> the flag it will restore
    blocked,        \* who is inside a recv that waits
    breaks,         \* how often a connection broke
    quiet,          \* history: see Quiet, when the latest command was sent
    sure            \* history: loggedIn was set by the reply to a quiet login

client == <<main, cmd, turn, loggedIn>>
socket == <<nonblock, saved, blocked>>
history == <<quiet, sure>>
vars == <<client, thread, session, up, down, socket, breaks, history>>

-----------------------------------------------------------------------------
Readers == {"main", "thread"}

Commands == {"login", "create", "logout", "other", "upload", "download"}

\* What a client sends, and the replies that are told apart; turn 0 is the download.
Ups   == [kind : Commands \cup {"hello", "metadata", "ACK", "update"}, turn : Nat]
Downs == [text : {"login", "create", "logout", "send", "length", "offer",
                   "error", "text"},
          turn : Nat]

Sent(k, n) == [kind |-> k, turn |-> n]

After(s, n) == SubSeq(s, n + 1, Len(s))

Texts(n) == {down[i].text : i \in 1..n}

\* What is sent on a broken connection is lost.
Push(q, m) == up' = IF session = "gone" THEN q ELSE Append(q, m)

\* Nothing else is under way: no download, no command unread, no reply late.
Quiet(late) == /\ thread = "none" /\ up = <<>> /\ late = <<>>
               /\ session \in {"login", "while"}

Waits(a) == \/ a = "main" /\ main \in {"sent", "relogout", "relogin"}
            \/ a = "thread" /\ thread \in {"length", "data"}

\* recv returns nothing: there will be nothing, or it must not wait.
Fails(a) == \/ session = "gone" /\ down = <<>>
            \/ nonblock /\ a \notin blocked

Init ==
    /\ main = "idle" /\ cmd = "other" /\ turn = 0 /\ loggedIn = FALSE
    /\ thread = "none"
    /\ session = "hello" /\ up = <<Sent("hello", 0)>> /\ down = <<>>
    /\ nonblock = FALSE /\ saved = [a \in Readers |-> FALSE] /\ blocked = {}
    /\ breaks = 0
    /\ quiet = FALSE /\ sure = FALSE

-----------------------------------------------------------------------------
(***************************************************************************)
(* drain_socket, in two steps: the flag is read and set; what has arrived  *)
(* is discarded, all but the latest of what was sent, and the flag is put  *)
(* back to what it was.                                                    *)
(***************************************************************************)
BeginDrain(a) ==
    /\ saved' = [saved EXCEPT ![a] = nonblock]
    /\ nonblock' = TRUE
    /\ UNCHANGED blocked

EndDrain(a) ==
    /\ nonblock' = saved[a]
    /\ UNCHANGED <<saved, blocked>>

Discard == \E n \in 0..Len(down) : down' = After(down, n)

\* recv is entered and waits: the flag no longer matters to it.
Block(a) ==
    /\ Waits(a) /\ a \notin blocked /\ ~nonblock
    /\ blocked' = blocked \cup {a}
    /\ UNCHANGED <<client, thread, session, up, down, nonblock, saved, breaks, history>>

Returned(a) == /\ blocked' = blocked \ {a}
               /\ UNCHANGED <<nonblock, saved>>

-----------------------------------------------------------------------------
(***************************************************************************)
(* The command loop.                                                       *)
(***************************************************************************)
\* Uploads and downloads are for those who are logged in.
HandleCommand(k) ==
    /\ main = "idle" /\ turn < MaxCommands
    /\ k \in {"upload", "download"} => loggedIn
    /\ k = "download" => thread = "none"
    /\ main' = "draining" /\ cmd' = k
    /\ BeginDrain("main")
    /\ UNCHANGED <<turn, loggedIn, thread, session, up, down, breaks, history>>

StartDownload ==
    /\ main = "draining" /\ cmd = "download"
    /\ EndDrain("main") /\ Discard
    /\ turn' = turn + 1
    /\ main' = "idle" /\ thread' = "start"
    /\ UNCHANGED <<cmd, loggedIn, session, up, breaks, history>>

\* A slip: the socket is not drained.
SendUndrained ==
    /\ main = "draining" /\ cmd # "download"
    /\ EndDrain("main")
    /\ \E n \in 0..Len(down) : quiet' = Quiet(After(down, n))
    /\ turn' = turn + 1
    /\ Push(up, Sent(cmd, turn + 1))
    /\ main' = "sent"
    /\ UNCHANGED <<cmd, loggedIn, thread, session, down, breaks, sure>>

Send ==
    /\ main = "draining" /\ cmd # "download"
    /\ EndDrain("main") /\ Discard
    /\ quiet' = Quiet(down')
    /\ turn' = turn + 1
    /\ Push(up, Sent(cmd, turn + 1))
    /\ main' = "sent"
    /\ UNCHANGED <<cmd, loggedIn, thread, session, breaks, sure>>

\* What has come is the reply, and what it says of a login is believed.
Receive ==
    /\ main = "sent" /\ cmd # "upload"
    /\ \E n \in 1..Len(down) :
          /\ down' = After(down, n)
          /\ \/ /\ cmd \in {"login", "create", "logout"} /\ cmd \in Texts(n)
                /\ loggedIn' = (cmd = "login")
                /\ sure' = (cmd = "login" /\ quiet)
             \/ /\ ~(cmd \in {"login", "create", "logout"} /\ cmd \in Texts(n))
                /\ UNCHANGED <<loggedIn, sure>>
    /\ main' = "idle"
    /\ Returned("main")
    /\ UNCHANGED <<cmd, turn, thread, session, up, breaks, quiet>>

\* If the tracker wants the metadata, they are sent, or cannot be generated.
ReceiveUpload ==
    /\ main = "sent" /\ cmd = "upload"
    /\ \E n \in 1..Len(down) :
          /\ down' = After(down, n)
          /\ \/ /\ "send" \in Texts(n)
                /\ Push(up, Sent("metadata", turn))
                /\ cmd' = "other" /\ UNCHANGED main
             \/ main' = "idle" /\ UNCHANGED <<cmd, up>>
    /\ Returned("main")
    /\ UNCHANGED <<turn, loggedIn, thread, session, breaks, history>>

\* On another connection, the download's draining and receiving are over: it
\* goes on with the new one, or has failed, or has got its offer from the old.
OnNewLink ==
    \/ thread \in {"none", "start", "asking", "work", "swept", "updated"} /\ UNCHANGED thread
    \/ thread = "clearing" /\ thread' = "asking"
    \/ thread = "sweeping" /\ thread' = "swept"
    \/ thread = "last" /\ thread' = "none"
    \/ thread \in {"length", "data"} /\ thread' \in {"none", "work"}

\* A slip: also who is not logged in is asked whether to log in again.
ResetTrackerAsking ==
    /\ main = "sent" /\ Fails("main")
    /\ session' = "hello" /\ up' = <<Sent("hello", 0)>>
    /\ main' = "asked"
    /\ down' = <<>>
    /\ nonblock' = FALSE /\ blocked' = {} /\ UNCHANGED saved
    /\ OnNewLink
    /\ UNCHANGED <<cmd, turn, loggedIn, breaks, history>>

\* reset_tracker: another connection, or none.
ResetTracker ==
    /\ main = "sent" /\ Fails("main")
    /\ \/ /\ session' = "hello" /\ up' = <<Sent("hello", 0)>>
          /\ main' = IF loggedIn THEN "asked" ELSE "idle"
       \/ session' = "gone" /\ up' = <<>> /\ main' = "idle"
    /\ down' = <<>>
    /\ nonblock' = FALSE /\ blocked' = {} /\ UNCHANGED saved
    /\ OnNewLink
    /\ UNCHANGED <<cmd, turn, loggedIn, breaks, history>>

\* The user does not want to log in again: logged_in stays as it is.
SkipLogin ==
    /\ main = "asked"
    /\ main' = "idle"
    /\ sure' = FALSE
    /\ UNCHANGED <<cmd, turn, loggedIn, thread, session, up, down, socket, breaks, quiet>>

SendLogout ==
    /\ main = "asked"
    /\ quiet' = Quiet(down)
    /\ turn' = turn + 1
    /\ Push(up, Sent("logout", turn + 1))
    /\ main' = "relogout"
    /\ UNCHANGED <<cmd, loggedIn, thread, session, down, socket, breaks, sure>>

\* A slip: the client remains logged in until it is told otherwise.
SendLoginLoggedIn ==
    /\ main = "relogout"
    /\ \/ \E n \in 1..Len(down) : down' = After(down, n)
       \/ Fails("main") /\ UNCHANGED down
    /\ quiet' = Quiet(down')
    /\ turn' = turn + 1
    /\ Push(up, Sent("login", turn + 1))
    /\ main' = "relogin"
    /\ Returned("main")
    /\ UNCHANGED <<cmd, loggedIn, thread, session, breaks, sure>>

\* Whatever is said of the logout, the client counts as logged out.
SendLogin ==
    /\ main = "relogout"
    /\ \/ \E n \in 1..Len(down) : down' = After(down, n)
       \/ Fails("main") /\ UNCHANGED down
    /\ loggedIn' = FALSE
    /\ quiet' = Quiet(down')
    /\ turn' = turn + 1
    /\ Push(up, Sent("login", turn + 1))
    /\ main' = "relogin"
    /\ Returned("main")
    /\ UNCHANGED <<cmd, thread, session, breaks, sure>>

\* The reply need only say "successful", as that to a logout does.
ReceiveLogin ==
    /\ main = "relogin"
    /\ \/ \E n \in 1..Len(down) :
             /\ down' = After(down, n)
             /\ \/ /\ Texts(n) \cap {"login", "logout"} # {}
                   /\ loggedIn' = TRUE /\ sure' = quiet
                \/ /\ Texts(n) \cap {"login", "logout"} = {}
                   /\ UNCHANGED <<loggedIn, sure>>
       \/ Fails("main") /\ UNCHANGED <<down, loggedIn, sure>>
    /\ main' = "idle"
    /\ Returned("main")
    /\ UNCHANGED <<cmd, turn, thread, session, up, breaks, quiet>>

-----------------------------------------------------------------------------
(***************************************************************************)
(* The download.                                                           *)
(***************************************************************************)
BeginThreadDrain ==
    /\ \/ thread = "start" /\ thread' = "clearing"
       \/ thread = "work" /\ thread' = "sweeping"
       \/ thread = "updated" /\ thread' = "last"
    /\ BeginDrain("thread")
    /\ UNCHANGED <<client, session, up, down, breaks, history>>

EndThreadDrain ==
    /\ \/ thread = "clearing" /\ thread' = "asking"
       \/ thread = "sweeping" /\ thread' = "swept"
       \/ thread = "last" /\ thread' = "none"
    /\ EndDrain("thread") /\ Discard
    /\ UNCHANGED <<client, session, up, breaks, history>>

SendDownload ==
    /\ thread = "asking"
    /\ thread' = "length"
    /\ Push(up, Sent("download", 0))
    /\ UNCHANGED <<client, session, down, socket, breaks, history>>

\* A length is acknowledged; eight bytes of anything else are too large a number.
ReceiveLength ==
    /\ thread = "length" /\ down # <<>>
    /\ \/ /\ Head(down).text = "length"
          /\ down' = Tail(down)
          /\ Push(up, Sent("ACK", 0))
          /\ thread' = "data"
       \/ /\ Head(down).text # "length"
          /\ down' = [down EXCEPT ![1].text = "text"]
          /\ thread' = "none" /\ UNCHANGED up
    /\ Returned("thread")
    /\ UNCHANGED <<client, session, breaks, history>>

\* The offer, or why there is none; any other reply may fill only a part of the
\* length.
ReceiveData ==
    /\ thread = "data" /\ down # <<>>
    /\ down' = Tail(down)
    /\ \/ Head(down).text = "offer" /\ thread' = "work"
       \/ Head(down).text \notin {"offer", "error"} /\ UNCHANGED thread
       \/ thread' = "none"
    /\ Returned("thread")
    /\ UNCHANGED <<client, session, up, breaks, history>>

ReceiveNothing ==
    /\ thread \in {"length", "data"} /\ Fails("thread")
    /\ thread' = "none"
    /\ Returned("thread")
    /\ UNCHANGED <<client, session, up, down, breaks, history>>

\* Only a file that is whole is reported.
UpdateFileInfo ==
    /\ thread = "swept"
    /\ \/ thread' = "updated" /\ Push(up, Sent("update", 0))
       \/ thread' = "none" /\ UNCHANGED up
    /\ UNCHANGED <<client, session, down, socket, breaks, history>>

-----------------------------------------------------------------------------
(***************************************************************************)
(* The tracker.                                                            *)
(***************************************************************************)
Answer(texts) == down' = down \o [i \in 1..Len(texts) |->
                                     [text |-> texts[i], turn |-> up[1].turn]]

\* The first thing read is the client's address, and what came with it is lost.
HandleClient ==
    /\ session = "hello"
    /\ \E n \in 1..Len(up) : up' = After(up, n)
    /\ session' = "login"
    /\ UNCHANGED <<client, thread, down, socket, breaks, history>>

\* Several commands in one recv have too many words for a login.
LoginLoop ==
    /\ session = "login"
    /\ \E n \in 1..Len(up) :
          LET k == up[1].kind
              answers == IF n = 1 \/ k = "logout"
                         THEN {k} \cap {"login", "create", "logout"} ELSE {}
          IN  /\ up' = After(up, n)
              /\ \E a \in answers \cup {"text"} :
                    /\ Answer(<<a>>)
                    /\ session' = IF a = "login" THEN "while" ELSE "login"
    /\ UNCHANGED <<client, thread, socket, breaks, history>>

\* The first word decides.  A list may be too long for one recv of the client.
\* A logout does not leave the loop, see Session.
Answers(k, n) ==
    CASE k = "logout" -> {<<"logout">>, <<"text">>}
      [] k = "upload" /\ n = 1 -> {<<"send">>, <<"text">>}
      [] k = "download" /\ n = 1 -> {<<"length", "offer">>, <<"length", "error">>}
      [] k = "download" /\ n > 1 -> {<<"length", "error">>, <<"text">>}
      [] k = "other" /\ n = 1 -> {<<"text">>, <<"text", "text">>}
      [] OTHER -> {<<"text">>}

WhileLoop ==
    /\ session = "while"
    /\ \E n \in 1..Len(up) :
          /\ up' = After(up, n)
          /\ \E a \in Answers(up[1].kind, n) :
                /\ Answer(a)
                /\ session' = IF a = <<"send">> THEN "metadata" ELSE "while"
    /\ UNCHANGED <<client, thread, socket, breaks, history>>

\* A slip: the client is not told what became of its file.
MetadataUnanswered ==
    /\ session = "metadata"
    /\ up # <<>> /\ up[1].kind = "metadata"
    /\ up' = Tail(up)
    /\ session' = "while"
    /\ UNCHANGED <<client, thread, down, socket, breaks, history>>

\* Eight bytes are the length, and two of the commands are shorter; those of a
\* command make so large a number that the whole tracker ends.
ReceiveMetadata ==
    /\ session = "metadata" /\ up # <<>>
    /\ \/ /\ up[1].kind = "metadata"
          /\ up' = Tail(up)
          /\ Answer(<<"text">>)
          /\ session' = "while"
       \/ /\ up[1].kind # "metadata"
          /\ Len(up) > 1 \/ up[1].kind \notin {"ACK", "logout"}
          /\ session' = "gone" /\ up' = <<>> /\ UNCHANGED down
    /\ UNCHANGED <<client, thread, socket, breaks, history>>

\* The connection breaks, and what was under way with it.
Break ==
    /\ session # "gone" /\ breaks < MaxBreaks
    /\ breaks' = breaks + 1
    /\ session' = "gone" /\ up' = <<>>
    /\ \E n \in 0..Len(down) : down' = SubSeq(down, 1, n)
    /\ UNCHANGED <<client, thread, socket, history>>

-----------------------------------------------------------------------------
Main == \/ StartDownload \/ Send \/ Receive \/ ReceiveUpload \/ ResetTracker
        \/ SendLogin \/ ReceiveLogin

Download == \/ BeginThreadDrain \/ EndThreadDrain \/ SendDownload
            \/ ReceiveLength \/ ReceiveData \/ ReceiveNothing \/ UpdateFileInfo

Tracker == LoginLoop \/ WhileLoop \/ ReceiveMetadata

User == \/ \E k \in Commands : HandleCommand(k)
        \/ SkipLogin \/ SendLogout

Next == \/ User \/ Main \/ Download \/ Tracker
        \/ HandleClient \/ Break
        \/ \E a \in Readers : Block(a)

\* Threads keep running.  Not so the user, nor a tracker whose pool is full,
\* where a connection waits for a thread.
Spec == /\ Init /\ [][Next]_vars
        /\ WF_vars(Main) /\ WF_vars(Download) /\ WF_vars(Tracker)

-----------------------------------------------------------------------------
\* Every variable has its type; only who was logged in logs in again, and only
\* who receives is inside a recv.
TypeOK ==
    /\ main \in {"idle", "draining", "sent", "asked", "relogout", "relogin"}
    /\ cmd \in Commands /\ turn \in 0..(MaxCommands + 2) /\ loggedIn \in BOOLEAN
    /\ thread \in {"none", "start", "clearing", "asking", "length", "data", "work",
                   "sweeping", "swept", "updated", "last"}
    /\ session \in {"hello", "login", "while", "metadata", "gone"}
    /\ up \in Seq(Ups) /\ down \in Seq(Downs)
    /\ nonblock \in BOOLEAN /\ saved \in [Readers -> BOOLEAN]
    /\ blocked \subseteq Readers /\ breaks \in 0..MaxBreaks
    /\ quiet \in BOOLEAN /\ sure \in BOOLEAN
    /\ main \in {"asked", "relogout"} => loggedIn
    /\ \A a \in blocked : Waits(a)

\* A command sent when nothing else was under way is answered by its own reply,
\* whatever earlier commands, uploads and downloads have left on the socket.
RepliesInStep ==
    quiet /\ Waits("main") => \A i \in 1..Len(down) : down[i].turn = turn

\* A client that takes itself for logged in talks to a session that is past
\* login_loop, through fail-overs too; unless its user declined to log in again
\* or the reply it believed came while a download ran.
BeliefHasSession ==
    /\ loggedIn /\ sure /\ session # "gone"
    /\ main \notin {"asked", "relogout"}
    => session \in {"while", "metadata"}

\* Client and tracker never wait for each other over such a command: there is a
\* reply to read, or something the tracker's loop can take for what it expects.
NeverBothWait ==
    main = "sent" /\ quiet /\ session # "gone" =>
        \/ down # <<>>
        \/ session \in {"login", "while"} /\ up # <<>>
        \/ session = "metadata" /\ up # <<>> /\ up[1].kind = "metadata"

\* A command sent when nothing else was under way is answered, unless the
\* connection breaks.
AnsweredAlone ==
    main = "sent" /\ quiet ~> main = "idle" \/ session \in {"gone", "hello"}

\* "Non-blocking command processing during downloads" (client/README_CLIENT.md:429):
\* a command sent to a session past login_loop while a download runs is not
\* waited for for ever.
AnsweredDuringDownload ==
    main = "sent" /\ thread # "none" /\ session = "while" ~> main # "sent" \/ session = "gone"
=============================================================================
