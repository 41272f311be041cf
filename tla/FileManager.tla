---------------------------- MODULE FileManager -----------------------------
(***************************************************************************)
(* The shared files of one tracker (managers/file_manager.cpp and the file *)
(* commands of managers/command_manager.cpp), whose groups may change in   *)
(* the middle of a command.                                                *)
(*                                                                         *)
(* The groups are those of GroupRegistry, which GroupManager is proved to  *)
(* implement: a file command sees of them only the answers of              *)
(* isGroupAvailabel, isMemberOfGroup and isGroupOwner.  Of a FileInfo the  *)
(* model keeps the owner, the users in seeder_users, and the users to whom *)
(* user_file_map gives a path: addresses, paths and hashes are left out.   *)
(***************************************************************************)
EXTENDS HashMap

CONSTANTS
    Handlers,   \* the pool threads that run file commands
    Users, Groups, Files,
    NoUser      \* what is left of an owner whose name was cut off

ASSUME NoUserAssumption == NoUser \notin Users

VARIABLES
    registry,   \* the groups, as in GroupRegistry
    files,      \* <<group, file name>> -> FileInfo
    frame       \* handler -> the command it is in the middle of, or Idle

vars == <<registry, files, frame>>

Registry == INSTANCE GroupRegistry

-----------------------------------------------------------------------------
Checks == {"isGroupAvailabel", "isMemberOfGroup", "isGroupOwner", "isFileExist"}

\* The calls of each command; the data of an upload is waited for by upload_file
\* and stored by upload_file_data, which starts with the checks again.
CallsOf == [upload_file      |-> Checks \cup {"receive_data"},
            upload_file_data |-> Checks \cup {"addFile"},
            update_file_info |-> Checks \cup {"add_new_seeder"},
            stop_share       |-> Checks \cup {"remove_seeder"}]

Commands == DOMAIN CallsOf

Keys == Groups \X Files

FileInfos == [owner : Users \cup {NoUser}, seeder_users : SUBSET Users,
              user_file_map : SUBSET Users]

\* How far the metadata of an upload came before its client hung up.  The
\* fields stand in one order in the text; the rest of the buffer stays zero.
Extents == {"nothing", "no owner", "owner", "seeder", "path"}

\* What fromString makes of it.
FromString(u, got) ==
    [owner         |-> IF got = "no owner" THEN NoUser ELSE u,
     seeder_users  |-> IF got \in {"seeder", "path"} THEN {u} ELSE {},
     user_file_map |-> IF got = "path" THEN {u} ELSE {}]

Idle == [cmd |-> "none"]

Frames == {f \in [cmd : Commands, call : UNION {CallsOf[c] : c \in Commands},
                  user : Users, key : Keys, got : Extents] :
               f.call \in CallsOf[f.cmd]}

At(h, f) == frame[h] # Idle /\ frame[h].call = f

Goto(h, f) == frame' = [frame EXCEPT ![h].call = f]

Return(h) == frame' = [frame EXCEPT ![h] = Idle]

\* The next call if the answer lets the command go on, else an early return.
Check(h, answer, f) == IF answer THEN Goto(h, f) ELSE Return(h)

Group(h) == frame[h].key[1]

-----------------------------------------------------------------------------
Init ==
    /\ Registry!Init
    /\ files = EmptyMap
    /\ frame = [h \in Handlers |-> Idle]

\* The other commands of the tracker, as far as the files can tell.
GroupStep == Registry!Next /\ UNCHANGED <<files, frame>>

\* A session issues the command, or a SYNC message brings it.  An upload comes
\* by SYNC with its data, and only if they name the owner and the group: they
\* are the user and the group of the command there.
Receive(h) ==
    /\ frame[h] = Idle
    /\ \E cmd \in Commands, u \in Users, k \in Keys, got \in Extents :
          /\ IF cmd = "upload_file_data" THEN got \in {"owner", "seeder", "path"}
             ELSE got = "nothing"
          /\ frame' = [frame EXCEPT ![h] =
                          [cmd |-> cmd, user |-> u, key |-> k, got |-> got,
                           call |-> "isGroupAvailabel"]]
    /\ UNCHANGED <<registry, files>>

IsGroupAvailabel(h) ==
    /\ At(h, "isGroupAvailabel")
    /\ Check(h, Group(h) \in DOMAIN registry, "isMemberOfGroup")
    /\ UNCHANGED <<registry, files>>

IsMemberOfGroup(h) ==
    /\ At(h, "isMemberOfGroup")
    /\ Goto(h, IF /\ Group(h) \in DOMAIN registry
                  /\ frame[h].user \in Registry!Members(Group(h))
               THEN "isFileExist" ELSE "isGroupOwner")
    /\ UNCHANGED <<registry, files>>

IsGroupOwner(h) ==
    /\ At(h, "isGroupOwner")
    /\ Check(h, /\ Group(h) \in DOMAIN registry
                /\ frame[h].user = Registry!Owner(Group(h)), "isFileExist")
    /\ UNCHANGED <<registry, files>>

\* An upload goes on if the file is not there, the others if it is.
IsFileExist(h) ==
    LET cmd   == frame[h].cmd
        there == frame[h].key \in DOMAIN files
    IN  /\ At(h, "isFileExist")
        /\ \/ cmd = "upload_file" /\ Check(h, ~there, "receive_data")
           \/ cmd = "upload_file_data" /\ Check(h, ~there, "addFile")
           \/ cmd = "update_file_info" /\ Check(h, there, "add_new_seeder")
           \/ cmd = "stop_share" /\ Check(h, there, "remove_seeder")
        /\ UNCHANGED <<registry, files>>

\* A slip: the metadata is stored without checking the command again.
ReceiveDataUnchecked(h) ==
    /\ At(h, "receive_data")
    /\ Goto(h, "addFile") \/ Return(h)
    /\ UNCHANGED <<registry, files>>

\* The handler waits for the metadata, which upload_file_data checks all over
\* again; empty data ends the command, and neither recv is checked, so that a
\* client who hangs up leaves the part of it that he has sent.
ReceiveData(h) ==
    /\ At(h, "receive_data")
    /\ \E got \in Extents :
          IF got = "nothing" THEN Return(h)
          ELSE frame' = [frame EXCEPT ![h] = [cmd  |-> "upload_file_data",
                                              call |-> "isGroupAvailabel",
                                              user |-> @.user, key |-> @.key,
                                              got  |-> got]]
    /\ UNCHANGED <<registry, files>>

\* A slip: addFile trusts the command's isFileExist and does not look again.
AddFileUnchecked(h) ==
    /\ At(h, "addFile")
    /\ Return(h)
    /\ files' = Put(files, frame[h].key, FromString(frame[h].user, frame[h].got))
    /\ UNCHANGED registry

\* The FileInfo is stored as it was parsed: whole, it names the uploader as
\* owner and only seeder, and cut off it may name nobody.
AddFile(h) ==
    LET k == frame[h].key
    IN  /\ At(h, "addFile")
        /\ Return(h)
        /\ files' = IF k \in DOMAIN files THEN files
                    ELSE Put(files, k, FromString(frame[h].user, frame[h].got))
        /\ UNCHANGED registry

AddNewSeeder(h) ==
    LET k == frame[h].key
        u == frame[h].user
    IN  /\ At(h, "add_new_seeder")
        /\ Return(h)
        /\ files' = IF k \notin DOMAIN files THEN files
                    ELSE [files EXCEPT ![k] =
                             [owner         |-> @.owner,
                              seeder_users  |-> @.seeder_users \cup {u},
                              user_file_map |-> @.user_file_map \cup {u}]]
        /\ UNCHANGED registry

\* A slip: the seeder's path stays in user_file_map.
PassOnKeepingPath(k, u, left) ==
    \E first \in left :
        files' = [files EXCEPT ![k] = [owner         |-> first,
                                       seeder_users  |-> left,
                                       user_file_map |-> @.user_file_map]]

\* The first of the remaining seeders in the order of their names, an order the
\* model leaves open, becomes the owner; for an heir without a path
\* user_file_map[owner] inserts an empty one, which is none.
PassOn(k, u, left) ==
    \E first \in left :
        files' = [files EXCEPT ![k] =
                     [owner         |-> first,
                      seeder_users  |-> left,
                      user_file_map |-> @.user_file_map \ {u}]]

\* A slip: the file goes when the user who owns the entry stops sharing it.
RemoveSeederWithOwner(h) ==
    LET k    == frame[h].key
        u    == frame[h].user
        left == files[k].seeder_users \ {u}
    IN  /\ At(h, "remove_seeder")
        /\ Return(h)
        /\ IF k \notin DOMAIN files \/ u \notin files[k].seeder_users
           THEN UNCHANGED files
           ELSE IF u = files[k].owner THEN files' = Drop(files, k)
           ELSE PassOn(k, u, left)
        /\ UNCHANGED registry

RemoveSeeder(h) ==
    LET k    == frame[h].key
        u    == frame[h].user
        left == files[k].seeder_users \ {u}
    IN  /\ At(h, "remove_seeder")
        /\ Return(h)
        /\ IF k \notin DOMAIN files \/ u \notin files[k].seeder_users
           THEN UNCHANGED files
           ELSE IF left = {} THEN files' = Drop(files, k)
           ELSE PassOn(k, u, left)
        /\ UNCHANGED registry

-----------------------------------------------------------------------------
Next ==
    \/ GroupStep
    \/ \E h \in Handlers :
          \/ Receive(h)
          \/ IsGroupAvailabel(h)
          \/ IsMemberOfGroup(h)
          \/ IsGroupOwner(h)
          \/ IsFileExist(h)
          \/ ReceiveData(h)
          \/ AddFile(h)
          \/ AddNewSeeder(h)
          \/ RemoveSeeder(h)

Spec == Init /\ [][Next]_vars

-----------------------------------------------------------------------------
\* Every variable of the file commands has its type.
TypeOK ==
    /\ IsMap(files, Keys, FileInfos)
    /\ frame \in [Handlers -> Frames \cup {Idle}]

\* Only the seeders of a file have a path in user_file_map, from which a
\* downloader learns what to ask a seeder for, and at most one of them has none,
\* the one whose upload was cut off: no join, stop_share or hand-over of the
\* entry leaves a path behind or makes a second seeder nobody can ask.
PathsOfSeeders ==
    \A k \in DOMAIN files :
       /\ files[k].user_file_map \subseteq files[k].seeder_users
       /\ \E u \in Users : files[k].seeder_users \ files[k].user_file_map \subseteq {u}

\* README.md:683, "Files removed only when no active seeders remain": a file
\* goes only with the one seeder it has left, and in his own stop_share,
\* though the command looked the file up before it reached remove_seeder.  (An
\* entry that a cut-off upload left without seeders is therefore never removed
\* before somebody joins it.)
RemovedOnlyByLastSeeder ==
    [][\A k \in DOMAIN files : k \notin DOMAIN files' =>
          \E h \in Handlers : /\ At(h, "remove_seeder")
                              /\ frame[h].key = k
                              /\ files[k].seeder_users = {frame[h].user}]_vars

\* The entries, seen without the handlers and the paths, behave as FileCatalogue
\* says: of two uploads of one name the first is kept and the second changes
\* nothing, and a late update_file_info never brings back a removed file.
View(m) == [k \in DOMAIN m |-> [owner   |-> m[k].owner,
                                seeders |-> m[k].seeder_users]]

Catalogue == INSTANCE FileCatalogue WITH shares <- View(files)

RefinesCatalogue == Catalogue!Spec
=============================================================================
