--------------------------- MODULE TrackerReplica ---------------------------
(***************************************************************************)
(* The ten commands that trackers broadcast, as functions of the state of  *)
(* one tracker (CommandManager::sync_handler and the commands it calls).   *)
(*                                                                         *)
(* The calls of one command are run together here: that they may be, for   *)
(* the groups and the files, is what GroupManager and FileManager show.    *)
(* Addresses and the owner of a file entry, which no other command asks    *)
(* for, are left out.                                                      *)
(***************************************************************************)
EXTENDS HashMap, SequencesExt

CONSTANTS Users, Passwords, Groups, Files

Keys == Groups \X Files

\* A tracker that has just started: nothing is read from disk.
Fresh == [users |-> EmptyMap, logged_in |-> {}, groups |-> EmptyMap,
          files |-> EmptyMap]

UserCommands ==
    [op : {"create_user", "login"}, user : Users, password : Passwords]
        \cup [op : {"logout"}, user : Users]

GroupCommands ==
    [op : {"create_group", "join_group", "leave_group"}, user : Users,
     group : Groups]
        \cup [op : {"accept_request"}, user : Users, subject : Users,
              group : Groups]

\* The seeders are what the text of the FileInfo names: the uploader, or nobody
\* if his client hung up before it had sent that part.
Uploads == {m \in [op : {"upload_file_data"}, user : Users, key : Keys,
                   seeders : SUBSET Users] : m.seeders \subseteq {m.user}}

FileCommands == [op : {"update_file_info", "stop_share"}, user : Users, key : Keys]

Commands == UserCommands \cup GroupCommands \cup Uploads \cup FileCommands

-----------------------------------------------------------------------------
IsMember(r, g, u) == g \in DOMAIN r.groups /\ u \in ToSet(r.groups[g].members)

IsOwner(r, g, u) == g \in DOMAIN r.groups /\ u = Head(r.groups[g].members)

IsPending(r, g, u) == g \in DOMAIN r.groups /\ u \in r.groups[g].pending

\* The command returns true in state r; a logout always does.
Accepts(r, m) ==
    \/ m.op = "create_user" /\ m.user \notin DOMAIN r.users
    \/ /\ m.op = "login"
       /\ m.user \notin r.logged_in
       /\ m.user \in DOMAIN r.users /\ r.users[m.user] = m.password
    \/ m.op = "logout"
    \/ m.op = "create_group" /\ m.group \notin DOMAIN r.groups
    \/ /\ m.op = "join_group"
       /\ m.group \in DOMAIN r.groups /\ ~IsMember(r, m.group, m.user)
    \/ /\ m.op = "accept_request"
       /\ IsOwner(r, m.group, m.user) /\ IsPending(r, m.group, m.subject)
       /\ ~IsMember(r, m.group, m.subject)
    \/ m.op = "leave_group" /\ IsMember(r, m.group, m.user)
    \/ /\ m.op = "upload_file_data"
       /\ IsMember(r, m.key[1], m.user) /\ m.key \notin DOMAIN r.files
    \/ /\ m.op = "update_file_info"
       /\ IsMember(r, m.key[1], m.user) /\ m.key \in DOMAIN r.files
    \/ /\ m.op = "stop_share"
       /\ IsMember(r, m.key[1], m.user)
       /\ m.key \in DOMAIN r.files /\ m.user \in r.files[m.key]

\* A slip: the tokens of the SYNC message are taken in the wrong order.
RegisterSwapped(r, u, p) == [r EXCEPT !.users = Put(@, p, u)]

Register(r, u, p) == [r EXCEPT !.users = Put(@, u, p)]

Depart(r, g, u) ==
    LET rest == RemoveFirst(r.groups[g].members, u)
    IN  [r EXCEPT !.groups = IF rest = <<>> THEN Drop(@, g)
                             ELSE [@ EXCEPT ![g].members = rest]]

Withdraw(r, k, u) ==
    [r EXCEPT !.files = IF @[k] = {u} THEN Drop(@, k)
                        ELSE [r.files EXCEPT ![k] = @ \ {u}]]

\* What an accepted command makes of r.
Effect(r, m) ==
    CASE m.op = "create_user"      -> Register(r, m.user, m.password)
      [] m.op = "login" ->
            [r EXCEPT !.logged_in = @ \cup {m.user}]
      [] m.op = "logout" ->
            [r EXCEPT !.logged_in = @ \ {m.user}]
      [] m.op = "create_group" ->
            [r EXCEPT !.groups = Put(@, m.group, [members |-> <<m.user>>,
                                                  pending |-> {}])]
      [] m.op = "join_group" ->
            [r EXCEPT !.groups[m.group].pending = @ \cup {m.user}]
      [] m.op = "accept_request" ->
            [r EXCEPT !.groups[m.group] =
                [members |-> Append(@.members, m.subject),
                 pending |-> @.pending \ {m.subject}]]
      [] m.op = "leave_group"      -> Depart(r, m.group, m.user)
      [] m.op = "upload_file_data" ->
            [r EXCEPT !.files = Put(@, m.key, m.seeders)]
      [] m.op = "update_file_info" ->
            [r EXCEPT !.files[m.key] = @ \cup {m.user}]
      [] m.op = "stop_share"       -> Withdraw(r, m.key, m.user)

Apply(r, m) == IF Accepts(r, m) THEN Effect(r, m) ELSE r
=============================================================================
