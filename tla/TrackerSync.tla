---------------------------- MODULE TrackerSync -----------------------------
(***************************************************************************)
(* The trackers and what they tell each other (ClientManager::notify_sync, *)
(* Tracker::start_sync, send_sync_message and handle_client).              *)
(*                                                                         *)
(* A tracker runs a command of one of its sessions, then starts a detached *)
(* thread for every other tracker.  Each thread makes its own connection,  *)
(* tries once, and gives up when it cannot connect; so messages overtake   *)
(* each other, and are lost when their sender or their receiver is down.   *)
(***************************************************************************)
EXTENDS TrackerReplica, Naturals

CONSTANTS
    Trackers,       \* the lines of tracker_info.txt
    Slow,           \* the trackers that may let a connection attempt time out
    MaxCommands     \* bound: how many commands and metadata the clients send

ASSUME SyncAssumption == Slow \subseteq Trackers /\ MaxCommands \in Nat

VARIABLES
    up,         \* the trackers that are running
    replica,    \* tracker -> the state of its managers
    sessions,   \* tracker -> the users in while_loop there
    uploads,    \* tracker -> the uploads its sessions are in the middle of
    net,        \* the messages whose threads have not finished
    issued,     \* how many of them came, which tells messages apart
    missed,     \* history: the trackers that missed a command or restarted
    registered  \* history: the names and passwords accepted from a client

vars == <<up, replica, sessions, uploads, net, issued, missed, registered>>

\* An upload whose metadata the tracker waits for, or whose client hung up before
\* it had sent all of it, which the session is yet to notice.
Awaited == [user : Users, key : Keys, broken : BOOLEAN]

Messages == [from : Trackers, to : Trackers, id : 0..MaxCommands, cmd : Commands]

-----------------------------------------------------------------------------
Init ==
    /\ up = Trackers
    /\ replica = [t \in Trackers |-> Fresh]
    /\ sessions = [t \in Trackers |-> {}]
    /\ uploads = [t \in Trackers |-> {}]
    /\ net = {}
    /\ issued = 0
    /\ missed = {}
    /\ registered = {}

Issue == issued < MaxCommands /\ issued' = issued + 1

Perform(t, m) == replica' = [replica EXCEPT ![t] = Apply(@, m)]

\* A slip: no thread is started for a command.
StayQuiet(t, m) == Issue /\ UNCHANGED net

\* start_sync: a thread for each other tracker.
Broadcast(t, m) ==
    /\ Issue
    /\ net' = net \cup {[from |-> t, to |-> p, id |-> issued, cmd |-> m] :
                           p \in Trackers \ {t}}

-----------------------------------------------------------------------------
(***************************************************************************)
(* The commands of a tracker's own clients.                                *)
(***************************************************************************)
CreateUser(t) ==
    \E u \in Users, p \in Passwords :
        LET m == [op |-> "create_user", user |-> u, password |-> p]
        IN  /\ t \in up /\ Accepts(replica[t], m)
            /\ Perform(t, m) /\ Broadcast(t, m)
            /\ registered' = registered \cup {<<u, p>>}
            /\ UNCHANGED <<up, sessions, uploads, missed>>

Login(t) ==
    \E u \in Users, p \in Passwords :
        LET m == [op |-> "login", user |-> u, password |-> p]
        IN  /\ t \in up /\ Accepts(replica[t], m)
            /\ Perform(t, m) /\ Broadcast(t, m)
            /\ sessions' = [sessions EXCEPT ![t] = @ \cup {u}]
            /\ UNCHANGED <<up, uploads, missed, registered>>

\* By any client in login_loop, of any name, and broadcast in any case; in
\* while_loop the session goes on, as module Session shows.
Logout(t) ==
    \E u \in Users :
        LET m == [op |-> "logout", user |-> u]
        IN  /\ t \in up
            /\ Perform(t, m) /\ Broadcast(t, m)
            /\ UNCHANGED <<up, sessions, uploads, missed, registered>>

\* exit, or recv reports that the client has hung up.  While metadata is awaited
\* nothing looks at what recv returns.
Disconnect(t) ==
    \E u \in sessions[t] :
        LET m == [op |-> "logout", user |-> u]
        IN  /\ t \in up
            /\ \A x \in uploads[t] : x.user = u => x.broken
            /\ Perform(t, m) /\ Broadcast(t, m)
            /\ sessions' = [sessions EXCEPT ![t] = @ \ {u}]
            /\ uploads' = [uploads EXCEPT ![t] = {x \in @ : x.user # u}]
            /\ UNCHANGED <<up, missed, registered>>

\* The session answers, and takes the next command, only when it is done.
Ready(t, u) == t \in up /\ u \in sessions[t] /\ \A x \in uploads[t] : x.user # u

\* Only a command that returned true is broadcast.
Command(t) ==
    \E m \in GroupCommands \cup FileCommands :
        /\ Ready(t, m.user) /\ Accepts(replica[t], m)
        /\ Perform(t, m) /\ Broadcast(t, m)
        /\ UNCHANGED <<up, sessions, uploads, missed, registered>>

\* What upload_file checks is what upload_file_data checks again.
Upload(u, k, seeders) == [op |-> "upload_file_data", user |-> u, key |-> k,
                          seeders |-> seeders]

\* upload_file is answered with send_all_data ...
BeginUpload(t) ==
    \E u \in Users, k \in Keys :
        /\ Ready(t, u) /\ Accepts(replica[t], Upload(u, k, {u}))
        /\ uploads' = [uploads EXCEPT ![t] = @ \cup
                          {[user |-> u, key |-> k, broken |-> FALSE]}]
        /\ Issue
        /\ UNCHANGED <<up, replica, sessions, net, missed, registered>>

\* ... and what arrives is broadcast whether upload_file_data accepts it or not.
FinishUpload(t) ==
    \E x \in uploads[t] :
        LET m == Upload(x.user, x.key, {x.user})
        IN  /\ t \in up /\ ~x.broken
            /\ Perform(t, m) /\ Broadcast(t, m)
            /\ uploads' = [uploads EXCEPT ![t] = @ \ {x}]
            /\ UNCHANGED <<up, sessions, missed, registered>>

Break(t, x) ==
    uploads' = [uploads EXCEPT ![t] = (@ \ {x}) \cup {[x EXCEPT !.broken = TRUE]}]

\* The client hangs up in the middle of the metadata, and what came of them is
\* stored and broadcast all the same.
CutOffUpload(t) ==
    \E x \in uploads[t], seeders \in SUBSET Users :
        LET m == Upload(x.user, x.key, seeders)
        IN  /\ t \in up /\ ~x.broken
            /\ m \in Uploads
            /\ Perform(t, m) /\ Broadcast(t, m)
            /\ Break(t, x)
            /\ UNCHANGED <<up, sessions, missed, registered>>

\* He hangs up so early that the text names neither owner nor group.  This
\* tracker knows them from the command, but no peer finds the group named in the
\* broadcast, which is therefore left out.
UnnamedUpload(t) ==
    \E x \in uploads[t] :
        /\ t \in up /\ ~x.broken
        /\ Perform(t, Upload(x.user, x.key, {})) /\ Issue
        /\ Break(t, x)
        /\ UNCHANGED <<up, sessions, net, missed, registered>>

\* Or before the length, which is uninitialised and may then be zero: "File data
\* is empty".
DropUpload(t) ==
    \E x \in uploads[t] :
        /\ t \in up /\ ~x.broken
        /\ Break(t, x)
        /\ UNCHANGED <<up, replica, sessions, net, issued, missed, registered>>

\* `sync' in while_loop hands any command to sync_handler, as if another tracker
\* had sent it.  No tracker is told of it, so that the others miss it.
SyncCommand(t) ==
    \E u \in sessions[t], m \in Commands :
        /\ Ready(t, u) /\ Accepts(replica[t], m)
        /\ Perform(t, m)
        /\ Issue
        /\ missed' = missed \cup (Trackers \ {t})
        /\ registered' = registered \cup
              (IF m.op = "create_user" THEN {<<m.user, m.password>>} ELSE {})
        /\ UNCHANGED <<up, sessions, uploads, net>>

-----------------------------------------------------------------------------
(***************************************************************************)
(* The messages.                                                           *)
(***************************************************************************)
\* A slip: SYNC create_user writes the password without asking isUser.
DeliverOverwriting(m) ==
    /\ m.to \in up
    /\ net' = net \ {m}
    /\ replica' = [replica EXCEPT ![m.to] =
          IF m.cmd.op = "create_user" THEN Effect(@, m.cmd) ELSE Apply(@, m.cmd)]
    /\ UNCHANGED <<up, sessions, uploads, issued, missed, registered>>

\* A slip: one recv is taken for the whole message, and the password is cut.
DeliverTruncated(m) ==
    /\ m.to \in up
    /\ net' = net \ {m}
    /\ \E p \in Passwords : Perform(m.to, IF m.cmd.op = "create_user"
                                           THEN [m.cmd EXCEPT !.password = p]
                                           ELSE m.cmd)
    /\ UNCHANGED <<up, sessions, uploads, issued, missed, registered>>

\* A slip: SYNC accept_request is trusted to have been checked by the sender.
DeliverTrusting(m) ==
    /\ m.to \in up
    /\ net' = net \ {m}
    /\ replica' = [replica EXCEPT ![m.to] =
          IF m.cmd.op = "accept_request" /\ m.cmd.group \in DOMAIN @.groups
          THEN Effect(@, m.cmd) ELSE Apply(@, m.cmd)]
    /\ UNCHANGED <<up, sessions, uploads, issued, missed, registered>>

\* handle_client takes the message in and sync_handler runs the command.
Deliver(m) ==
    /\ m.to \in up
    /\ net' = net \ {m}
    /\ Perform(m.to, m.cmd)
    /\ UNCHANGED <<up, sessions, uploads, issued, missed, registered>>

\* The connection cannot be made, or breaks; nobody tries again.
Lose(m) ==
    /\ m.to \notin up \/ m.to \in Slow
    /\ net' = net \ {m}
    /\ missed' = missed \cup {m.to}
    /\ UNCHANGED <<up, replica, sessions, uploads, issued, registered>>

\* The process ends, with its threads and all its state.
Crash(t) ==
    /\ t \in up
    /\ up' = up \ {t}
    /\ replica' = [replica EXCEPT ![t] = Fresh]
    /\ sessions' = [sessions EXCEPT ![t] = {}]
    /\ uploads' = [uploads EXCEPT ![t] = {}]
    /\ net' = {m \in net : m.from # t}
    /\ missed' = missed \cup {t} \cup {m.to : m \in net \ net'}
    /\ UNCHANGED <<issued, registered>>

Restart(t) ==
    /\ t \notin up
    /\ up' = up \cup {t}
    /\ UNCHANGED <<replica, sessions, uploads, net, issued, missed, registered>>

-----------------------------------------------------------------------------
Next ==
    \/ \E t \in Trackers :
          \/ CreateUser(t)
          \/ Login(t)
          \/ Logout(t)
          \/ Disconnect(t)
          \/ Command(t)
          \/ BeginUpload(t)
          \/ FinishUpload(t)
          \/ CutOffUpload(t)
          \/ UnnamedUpload(t)
          \/ DropUpload(t)
          \/ SyncCommand(t)
          \/ Crash(t)
          \/ Restart(t)
    \/ \E m \in net : Deliver(m) \/ Lose(m)

Spec == Init /\ [][Next]_vars

-----------------------------------------------------------------------------
Knows(t, u) == u \in DOMAIN replica[t].users

\* u's registration is on its way to t.
Coming(t, u) ==
    \E m \in net : m.to = t /\ m.cmd.op = "create_user" /\ m.cmd.user = u

\* Every variable has its type.
TypeOK ==
    /\ up \subseteq Trackers
    /\ \A t \in Trackers :
          /\ IsMap(replica[t].users, Users, Passwords)
          /\ replica[t].logged_in \subseteq Users
          /\ IsMap(replica[t].groups, Groups, [members : Seq(Users),
                                               pending : SUBSET Users])
          /\ IsMap(replica[t].files, Keys, SUBSET Users)
    /\ sessions \in [Trackers -> SUBSET Users]
    /\ uploads \in [Trackers -> SUBSET Awaited]
    /\ net \subseteq Messages
    /\ issued \in 0..MaxCommands
    /\ missed \subseteq Trackers
    /\ registered \subseteq Users \X Passwords

\* A name some tracker knows is known to every tracker, or on its way there, or
\* that tracker has missed a command: registrations, unlike what depends on
\* them, do not mind the order in which they arrive.
RegistrationsSpread ==
    \A t, p \in Trackers, u \in Users :
        Knows(t, u) => Knows(p, u) \/ Coming(p, u) \/ p \in missed

\* Two trackers hold different passwords for a name only if clients of two
\* trackers registered it with different ones: neither the order of the
\* messages nor a restart lets one registration end up as another.
PasswordsDifferByConflict ==
    \A t, p \in Trackers, u \in Users :
        Knows(t, u) /\ Knows(p, u)
            => \/ replica[t].users[u] = replica[p].users[u]
               \/ {<<u, replica[t].users[u]>>, <<u, replica[p].users[u]>>}
                     \subseteq registered

\* While a tracker runs, a name it knows keeps its password: the second of two
\* registrations changes nothing, whether it comes from a client or by SYNC.
PasswordsStay ==
    [][\A t \in up, u \in Users :
          Knows(t, u) /\ t \in up' =>
             Knows(t, u)' /\ replica'[t].users[u] = replica[t].users[u]]_vars

\* The accounts of every tracker.
Book == [t \in Trackers |-> replica[t].users]

Gossip == INSTANCE AccountGossip WITH book <- Book, opened <- registered

\* The trackers' accounts change only as those of AccountGossip do: whatever is
\* lost or overtaken, a message teaches a tracker only an account that a client
\* opened, under the password it was opened with, and overwrites none.
AccountsAreGossip == [][Gossip!Next]_<<Book, registered>>

\* At each tracker, whatever was done at the others and in whatever order their
\* messages come, groups have distinct members, none of whom waits to be let in.
ReplicasSound ==
    \A t \in Trackers : \A g \in DOMAIN replica[t].groups :
       LET r == replica[t].groups[g]
       IN  /\ r.members # <<>>
           /\ IsInjective(r.members)
           /\ r.pending \cap ToSet(r.members) = {}

-----------------------------------------------------------------------------
\* README_TRACKER.md:713, "Automatic conflict resolution and data consistency":
\* when no command was missed and no message is on its way the trackers agree.
TrackersConverge ==
    missed = {} /\ net = {} => \A t, p \in Trackers : replica[t] = replica[p]
=============================================================================
