------------------------- MODULE FileManagerProofs --------------------------
(***************************************************************************)
(* Proofs about FileManager, for any number of handlers, users, groups and *)
(* files, and whatever the groups do meanwhile.                            *)
(*                                                                         *)
(* As in GroupManager the invariant does not speak of what a command has   *)
(* checked: addFile, add_new_seeder and remove_seeder look the file up     *)
(* again in their own critical section, so each is proved from the map.    *)
(***************************************************************************)
EXTENDS FileManager, SequenceFacts

\* What holds of one entry, whatever the others are.
EntryOK(r) ==
    /\ r.user_file_map \subseteq r.seeder_users
    /\ \E u \in Users : r.seeder_users \ r.user_file_map \subseteq {u}

EntriesOK == \A k \in DOMAIN files : EntryOK(files[k])

Inv == TypeOK /\ EntriesOK

LEMMA EntriesOKMeaning == EntriesOK <=> PathsOfSeeders
BY DEF EntriesOK, EntryOK, PathsOfSeeders

-----------------------------------------------------------------------------
(***************************************************************************)
(* The frames.                                                             *)
(***************************************************************************)
AllCalls == UNION {CallsOf[c] : c \in Commands}

LEMMA CallsInAllCalls ==
    /\ \A c \in Commands : CallsOf[c] \subseteq AllCalls
    /\ \A c \in Commands : Checks \subseteq CallsOf[c]
    /\ Commands = {"upload_file", "upload_file_data", "update_file_info",
                   "stop_share"}
BY DEF AllCalls, Commands, CallsOf, Checks

LEMMA FrameType ==
    ASSUME TypeOK, NEW h \in Handlers, frame[h] # Idle
    PROVE  /\ frame[h] \in [cmd : Commands, call : AllCalls, user : Users,
                            key : Keys, got : Extents]
           /\ frame[h].call \in CallsOf[frame[h].cmd]
BY DEF TypeOK, Frames, AllCalls

LEMMA ReturnType ==
    ASSUME TypeOK, NEW h \in Handlers, Return(h)
    PROVE  frame' \in [Handlers -> Frames \cup {Idle}]
BY DEF TypeOK, Return

LEMMA GotoType ==
    ASSUME TypeOK, NEW h \in Handlers, frame[h] # Idle,
           NEW f \in CallsOf[frame[h].cmd], Goto(h, f)
    PROVE  frame' \in [Handlers -> Frames \cup {Idle}]
<1> DEFINE r == [frame[h] EXCEPT !.call = f]
<1>1. f \in AllCalls
  BY FrameType, CallsInAllCalls
<1>2. /\ r \in [cmd : Commands, call : AllCalls, user : Users, key : Keys,
               got : Extents]
      /\ r.call \in CallsOf[r.cmd]
  BY <1>1, FrameType
<1>3. r \in Frames
  BY <1>2 DEF Frames, AllCalls
<1>4. frame' = [frame EXCEPT ![h] = r]
  BY DEF Goto
<1> HIDE DEF r
<1> QED BY <1>3, <1>4 DEF TypeOK

LEMMA CheckType ==
    ASSUME TypeOK, NEW h \in Handlers, frame[h] # Idle, NEW answer,
           NEW f \in CallsOf[frame[h].cmd], Check(h, answer, f)
    PROVE  frame' \in [Handlers -> Frames \cup {Idle}]
<1>1. CASE answer
  BY <1>1, GotoType DEF Check
<1>2. CASE ~answer
  BY <1>2, ReturnType DEF Check
<1> QED BY <1>1, <1>2

-----------------------------------------------------------------------------
(***************************************************************************)
(* The entries: every change is a Put of a good entry, or a Drop.          *)
(***************************************************************************)
FilesOK == IsMap(files, Keys, FileInfos) /\ EntriesOK

LEMMA EntryType ==
    ASSUME Inv, NEW k \in DOMAIN files
    PROVE  /\ files[k] \in FileInfos
           /\ EntryOK(files[k])
           /\ k \in Keys
BY DEF Inv, TypeOK, EntriesOK, IsMap

LEMMA PutEntry ==
    ASSUME Inv, NEW k \in Keys, NEW r \in FileInfos, EntryOK(r),
           files' = Put(files, k, r)
    PROVE  FilesOK'
<1>1. IsMap(files, Keys, FileInfos)'
  BY PutType DEF Inv, TypeOK
<1>2. EntriesOK'
  BY DEF Inv, EntriesOK, Put
<1> QED BY <1>1, <1>2 DEF FilesOK

LEMMA DropEntry ==
    ASSUME Inv, NEW k, files' = Drop(files, k)
    PROVE  FilesOK'
<1>1. IsMap(files, Keys, FileInfos)'
  BY DropType DEF Inv, TypeOK
<1>2. EntriesOK'
  BY DEF Inv, EntriesOK, Drop
<1> QED BY <1>1, <1>2 DEF FilesOK

LEMMA ReplaceEntry ==
    ASSUME Inv, NEW k \in DOMAIN files, NEW r \in FileInfos, EntryOK(r),
           files' = [files EXCEPT ![k] = r]
    PROVE  FilesOK'
<1>1. files' = Put(files, k, r)
  BY ExceptIsPut DEF Inv, TypeOK
<1> QED BY <1>1, PutEntry, EntryType

-----------------------------------------------------------------------------
(***************************************************************************)
(* The three calls that change an entry.                                   *)
(***************************************************************************)
\* However far the metadata came, what is made of it is an entry.
LEMMA FromStringOK ==
    ASSUME NEW u \in Users, NEW got
    PROVE  FromString(u, got) \in FileInfos /\ EntryOK(FromString(u, got))
<1> DEFINE seeders == IF got \in {"seeder", "path"} THEN {u} ELSE {}
           paths   == IF got = "path" THEN {u} ELSE {}
           owner   == IF got = "no owner" THEN NoUser ELSE u
<1>1. /\ owner \in Users \cup {NoUser}
      /\ seeders \subseteq {u}
      /\ paths \subseteq seeders
  OBVIOUS
<1>2. FromString(u, got) = [owner |-> owner, seeder_users |-> seeders,
                            user_file_map |-> paths]
  BY DEF FromString
<1> HIDE DEF seeders, paths, owner
<1>3. FromString(u, got) \in FileInfos
  BY <1>1, <1>2 DEF FileInfos
<1>4. EntryOK(FromString(u, got))
  BY <1>1, <1>2 DEF EntryOK
<1> QED BY <1>3, <1>4

LEMMA AddFileEntries ==
    ASSUME Inv, NEW h \in Handlers, AddFile(h)
    PROVE  FilesOK'
<1> DEFINE k == frame[h].key
           r == FromString(frame[h].user, frame[h].got)
<1>1. k \in Keys /\ frame[h].user \in Users
  BY FrameType DEF Inv, AddFile, At
<1>2. r \in FileInfos /\ EntryOK(r)
  BY <1>1, FromStringOK
<1>3. CASE k \in DOMAIN files
  BY <1>3 DEF AddFile, FilesOK, Inv, TypeOK, EntriesOK
<1>4. CASE k \notin DOMAIN files
  <2>1. files' = Put(files, k, r)
    BY <1>4 DEF AddFile
  <2> HIDE DEF r, k
  <2> QED BY <1>1, <1>2, <2>1, PutEntry
<1> QED BY <1>3, <1>4

LEMMA AddNewSeederEntries ==
    ASSUME Inv, NEW h \in Handlers, AddNewSeeder(h)
    PROVE  FilesOK'
<1> DEFINE k == frame[h].key
           u == frame[h].user
           r == [owner         |-> files[k].owner,
                 seeder_users  |-> files[k].seeder_users \cup {u},
                 user_file_map |-> files[k].user_file_map \cup {u}]
<1>1. u \in Users
  BY FrameType DEF Inv, AddNewSeeder, At
<1>2. CASE k \notin DOMAIN files
  BY <1>2 DEF AddNewSeeder, FilesOK, Inv, TypeOK, EntriesOK
<1>3. CASE k \in DOMAIN files
  <2>1. r \in FileInfos /\ EntryOK(r)
    BY <1>1, <1>3, EntryType DEF FileInfos, EntryOK
  <2>2. files' = [files EXCEPT ![k] = r]
    BY <1>3 DEF AddNewSeeder
  <2> HIDE DEF r, k
  <2> QED BY <1>3, <2>1, <2>2, ReplaceEntry
<1> QED BY <1>2, <1>3

\* What remove_seeder does to a file that has the seeder.
LEMMA PassOnEntry ==
    ASSUME Inv, NEW k \in DOMAIN files, NEW u \in files[k].seeder_users,
           NEW left, left = files[k].seeder_users \ {u}, PassOn(k, u, left)
    PROVE  \E first \in left, r \in FileInfos :
              /\ r = [owner         |-> first,
                      seeder_users  |-> left,
                      user_file_map |-> files[k].user_file_map \ {u}]
              /\ EntryOK(r)
              /\ files' = [files EXCEPT ![k] = r]
<1> DEFINE paths == files[k].user_file_map \ {u}
<1>1. PICK first \in left :
         files' = [files EXCEPT ![k] = [owner         |-> first,
                                        seeder_users  |-> left,
                                        user_file_map |-> paths]]
  BY DEF PassOn
<1> DEFINE r == [owner |-> first, seeder_users |-> left, user_file_map |-> paths]
<1>2. left \subseteq Users /\ paths \subseteq Users
  BY EntryType DEF FileInfos
<1>3. r \in FileInfos
  BY <1>1, <1>2 DEF FileInfos
<1>4. /\ paths \subseteq left
      /\ left \ paths \subseteq files[k].seeder_users \ files[k].user_file_map
  BY EntryType DEF EntryOK
<1>5. EntryOK(r)
  BY <1>4, EntryType DEF EntryOK
<1> QED BY <1>1, <1>3, <1>5

LEMMA RemoveSeederEntries ==
    ASSUME Inv, NEW h \in Handlers, RemoveSeeder(h)
    PROVE  FilesOK'
<1> DEFINE k    == frame[h].key
           u    == frame[h].user
           left == files[k].seeder_users \ {u}
<1>1. CASE k \notin DOMAIN files \/ u \notin files[k].seeder_users
  BY <1>1 DEF RemoveSeeder, FilesOK, Inv, TypeOK, EntriesOK
<1>2. CASE k \in DOMAIN files /\ u \in files[k].seeder_users /\ left = {}
  <2>1. files' = Drop(files, k)
    BY <1>2 DEF RemoveSeeder
  <2> QED BY <2>1, DropEntry
<1>3. CASE k \in DOMAIN files /\ u \in files[k].seeder_users /\ left # {}
  <2>1. PassOn(k, u, left)
    BY <1>3 DEF RemoveSeeder
  <2> HIDE DEF k, u
  <2> QED BY <1>3, <2>1, PassOnEntry, ReplaceEntry
<1> QED BY <1>1, <1>2, <1>3

-----------------------------------------------------------------------------
(***************************************************************************)
(* The invariant.                                                          *)
(***************************************************************************)
\* A step that leaves the files alone and types the frames.
LEMMA FrameStep ==
    ASSUME Inv, UNCHANGED files,
           frame' \in [Handlers -> Frames \cup {Idle}]
    PROVE  Inv'
BY DEF Inv, TypeOK, EntriesOK

\* A step that changes the files as it should.
LEMMA FilesStep ==
    ASSUME Inv, FilesOK',
           frame' \in [Handlers -> Frames \cup {Idle}]
    PROVE  Inv'
BY DEF Inv, TypeOK, FilesOK

LEMMA InitInv == Init => Inv
BY DEF Init, Inv, TypeOK, EntriesOK, IsMap, EmptyMap

LEMMA IsFileExistType ==
    ASSUME Inv, NEW h \in Handlers, IsFileExist(h)
    PROVE  frame' \in [Handlers -> Frames \cup {Idle}]
<1> DEFINE cmd   == frame[h].cmd
           there == frame[h].key \in DOMAIN files
<1>1. frame[h] # Idle /\ TypeOK
  BY DEF Inv, IsFileExist, At
<1>2. CASE cmd = "upload_file" /\ Check(h, ~there, "receive_data")
  <2>1. "receive_data" \in CallsOf[cmd]
    BY <1>2 DEF CallsOf
  <2> QED BY <1>1, <1>2, <2>1, CheckType
<1>3. CASE cmd = "upload_file_data" /\ Check(h, ~there, "addFile")
  <2>1. "addFile" \in CallsOf[cmd]
    BY <1>3 DEF CallsOf
  <2> QED BY <1>1, <1>3, <2>1, CheckType
<1>4. CASE cmd = "update_file_info" /\ Check(h, there, "add_new_seeder")
  <2>1. "add_new_seeder" \in CallsOf[cmd]
    BY <1>4 DEF CallsOf
  <2> QED BY <1>1, <1>4, <2>1, CheckType
<1>5. CASE cmd = "stop_share" /\ Check(h, there, "remove_seeder")
  <2>1. "remove_seeder" \in CallsOf[cmd]
    BY <1>5 DEF CallsOf
  <2> QED BY <1>1, <1>5, <2>1, CheckType
<1> QED BY <1>2, <1>3, <1>4, <1>5 DEF IsFileExist

LEMMA ReceiveDataType ==
    ASSUME Inv, NEW h \in Handlers, ReceiveData(h)
    PROVE  frame' \in [Handlers -> Frames \cup {Idle}]
<1>1. frame[h] # Idle /\ TypeOK
  BY DEF Inv, ReceiveData, At
<1>2. CASE Return(h)
  BY <1>1, <1>2, ReturnType
<1>3. ASSUME NEW got \in Extents,
             frame' = [frame EXCEPT ![h] = [cmd  |-> "upload_file_data",
                                            call |-> "isGroupAvailabel",
                                            user |-> frame[h].user,
                                            key  |-> frame[h].key,
                                            got  |-> got]]
      PROVE  frame' \in [Handlers -> Frames \cup {Idle}]
  <2> DEFINE r == [cmd  |-> "upload_file_data", call |-> "isGroupAvailabel",
                   user |-> frame[h].user, key |-> frame[h].key, got |-> got]
  <2>1. r \in Frames
    BY <1>1, FrameType, CallsInAllCalls DEF Frames, AllCalls, Checks
  <2> HIDE DEF r
  <2> QED BY <1>1, <1>3, <2>1 DEF TypeOK, r
<1> QED BY <1>2, <1>3 DEF ReceiveData

LEMMA ReceiveType ==
    ASSUME Inv, NEW h \in Handlers, Receive(h)
    PROVE  frame' \in [Handlers -> Frames \cup {Idle}]
<1>1. PICK cmd \in Commands, u \in Users, k \in Keys, got \in Extents :
         frame' = [frame EXCEPT ![h] = [cmd |-> cmd, user |-> u, key |-> k,
                                        got |-> got,
                                        call |-> "isGroupAvailabel"]]
  BY DEF Receive
<1> DEFINE r == [cmd |-> cmd, user |-> u, key |-> k, got |-> got,
                 call |-> "isGroupAvailabel"]
<1>2. r \in Frames
  BY CallsInAllCalls DEF Frames, AllCalls, Checks
<1> HIDE DEF r
<1> QED BY <1>1, <1>2 DEF Inv, TypeOK, r

LEMMA NextInv == Inv /\ [Next]_vars => Inv'
<1> SUFFICES ASSUME Inv, [Next]_vars PROVE Inv'
  OBVIOUS
<1>0. TypeOK
  BY DEF Inv
<1>1. CASE UNCHANGED vars
  BY <1>1 DEF vars, Inv, TypeOK, EntriesOK
<1>2. CASE GroupStep
  BY <1>2 DEF GroupStep, Inv, TypeOK, EntriesOK
<1>4. ASSUME NEW h \in Handlers, Receive(h) PROVE Inv'
  BY <1>4, ReceiveType, FrameStep DEF Receive
<1>5. ASSUME NEW h \in Handlers, IsGroupAvailabel(h) PROVE Inv'
  <2>1. frame[h] # Idle /\ "isMemberOfGroup" \in CallsOf[frame[h].cmd]
    BY <1>0, <1>5, FrameType, CallsInAllCalls DEF IsGroupAvailabel, At, Checks
  <2> QED BY <1>0, <1>5, <2>1, CheckType, FrameStep DEF IsGroupAvailabel
<1>6. ASSUME NEW h \in Handlers, IsMemberOfGroup(h) PROVE Inv'
  <2>1. /\ frame[h] # Idle
        /\ {"isFileExist", "isGroupOwner"} \subseteq CallsOf[frame[h].cmd]
    BY <1>0, <1>6, FrameType, CallsInAllCalls DEF IsMemberOfGroup, At, Checks
  <2>2. PICK f \in {"isFileExist", "isGroupOwner"} : Goto(h, f)
    BY <1>6 DEF IsMemberOfGroup
  <2> QED BY <1>0, <1>6, <2>1, <2>2, GotoType, FrameStep DEF IsMemberOfGroup
<1>7. ASSUME NEW h \in Handlers, IsGroupOwner(h) PROVE Inv'
  <2>1. frame[h] # Idle /\ "isFileExist" \in CallsOf[frame[h].cmd]
    BY <1>0, <1>7, FrameType, CallsInAllCalls DEF IsGroupOwner, At, Checks
  <2> QED BY <1>0, <1>7, <2>1, CheckType, FrameStep DEF IsGroupOwner
<1>8. ASSUME NEW h \in Handlers, IsFileExist(h) PROVE Inv'
  BY <1>8, IsFileExistType, FrameStep DEF IsFileExist
<1>9. ASSUME NEW h \in Handlers, ReceiveData(h) PROVE Inv'
  BY <1>9, ReceiveDataType, FrameStep DEF ReceiveData
<1>10. ASSUME NEW h \in Handlers, AddFile(h) PROVE Inv'
  BY <1>0, <1>10, AddFileEntries, ReturnType, FilesStep DEF AddFile
<1>11. ASSUME NEW h \in Handlers, AddNewSeeder(h) PROVE Inv'
  BY <1>0, <1>11, AddNewSeederEntries, ReturnType, FilesStep DEF AddNewSeeder
<1>12. ASSUME NEW h \in Handlers, RemoveSeeder(h) PROVE Inv'
  BY <1>0, <1>12, RemoveSeederEntries, ReturnType, FilesStep DEF RemoveSeeder
<1> QED
  BY <1>1, <1>2, <1>4, <1>5, <1>6, <1>7, <1>8, <1>9, <1>10, <1>11, <1>12
     DEF Next

\* The invariant holds in every reachable state.
THEOREM Invariant == Spec => []Inv
BY InitInv, NextInv, PTL DEF Spec

\* The entries and the handlers' frames keep their types.
THEOREM TypeCorrect == Spec => []TypeOK
<1>1. Inv => TypeOK
  BY DEF Inv
<1> QED BY <1>1, Invariant, PTL

\* Nobody but a seeder has a path, and all seeders but one have theirs.
THEOREM PathsFollowSeeders == Spec => []PathsOfSeeders
<1>1. Inv => PathsOfSeeders
  BY EntriesOKMeaning DEF Inv
<1> QED BY <1>1, Invariant, PTL

-----------------------------------------------------------------------------
(***************************************************************************)
(* Steps.                                                                  *)
(***************************************************************************)
\* Only the three calls touch the files.
LEMMA FilesChange ==
    ASSUME [Next]_vars
    PROVE  \/ UNCHANGED files
           \/ \E h \in Handlers : AddFile(h) \/ AddNewSeeder(h) \/ RemoveSeeder(h)
BY DEF Next, vars, GroupStep, Receive, IsGroupAvailabel,
       IsMemberOfGroup, IsGroupOwner, IsFileExist, ReceiveData

\* A file goes only in the stop_share of the one seeder it has left.
THEOREM LastSeederRemoves == Spec => RemovedOnlyByLastSeeder
<1>1. ASSUME Inv, [Next]_vars, NEW k \in DOMAIN files, k \notin DOMAIN files'
      PROVE  \E h \in Handlers : /\ At(h, "remove_seeder")
                                 /\ frame[h].key = k
                                 /\ files[k].seeder_users = {frame[h].user}
  <2>1. PICK h \in Handlers : AddFile(h) \/ AddNewSeeder(h) \/ RemoveSeeder(h)
    BY <1>1, FilesChange
  <2>2. CASE AddFile(h)
    BY <1>1, <2>2 DEF AddFile, Put
  <2>3. CASE AddNewSeeder(h)
    BY <1>1, <2>3 DEF AddNewSeeder
  <2>4. CASE RemoveSeeder(h)
    <3> DEFINE u    == frame[h].user
               x    == frame[h].key
               left == files[x].seeder_users \ {u}
    <3>1. x \in DOMAIN files /\ u \in files[x].seeder_users
      BY <1>1, <2>4 DEF RemoveSeeder
    <3>2. left = {}
      <4>1. PassOn(x, u, left) => DOMAIN files' = DOMAIN files
        BY DEF PassOn
      <4> QED BY <1>1, <2>4, <3>1, <4>1 DEF RemoveSeeder
    <3>3. files' = Drop(files, x)
      BY <2>4, <3>1, <3>2 DEF RemoveSeeder
    <3>4. x = k
      BY <1>1, <3>3 DEF Drop
    <3>5. files[k].seeder_users = {u}
      BY <3>1, <3>2, <3>4
    <3> QED BY <2>4, <3>4, <3>5 DEF RemoveSeeder
  <2> QED BY <2>1, <2>2, <2>3, <2>4
<1>2. Inv /\ [Next]_vars =>
         \A k \in DOMAIN files : k \notin DOMAIN files' =>
            \E h \in Handlers : /\ At(h, "remove_seeder")
                                /\ frame[h].key = k
                                /\ files[k].seeder_users = {frame[h].user}
  BY <1>1
<1> QED BY <1>2, Invariant, PTL DEF Spec, RemovedOnlyByLastSeeder

-----------------------------------------------------------------------------
(***************************************************************************)
(* FileManager implements FileCatalogue.                                   *)
(***************************************************************************)
Entry(r) == [owner |-> r.owner, seeders |-> r.seeder_users]

LEMMA ViewPut ==
    ASSUME NEW m, NEW k, NEW r
    PROVE  View(Put(m, k, r)) = Put(View(m), k, Entry(r))
BY DEF View, Put, Entry

LEMMA ViewDrop ==
    ASSUME NEW m, NEW k
    PROVE  View(Drop(m, k)) = Drop(View(m), k)
BY DEF View, Drop

LEMMA ViewReplace ==
    ASSUME NEW k \in DOMAIN files, NEW r, files' = [files EXCEPT ![k] = r],
           Inv
    PROVE  View(files)' = [View(files) EXCEPT ![k] = Entry(r)]
<1>1. files' = Put(files, k, r)
  BY ExceptIsPut DEF Inv, TypeOK
<1>2. View(files)' = Put(View(files), k, Entry(r))
  BY <1>1, ViewPut
<1>3. [View(files) EXCEPT ![k] = Entry(r)] = Put(View(files), k, Entry(r))
  <2> DEFINE e == Entry(r)
  <2> HIDE DEF e
  <2>1. [View(files) EXCEPT ![k] = e] = Put(View(files), k, e)
    BY DEF View, Put
  <2> QED BY <2>1 DEF e
<1> QED BY <1>2, <1>3

\* The instance's copies of the map operators are the operators.
LEMMA SameOperators ==
    /\ \A m, k, v : Catalogue!Put(m, k, v) = Put(m, k, v)
    /\ \A m, k : Catalogue!Drop(m, k) = Drop(m, k)
BY DEF Catalogue!Put, Put, Catalogue!Drop, Drop

CatalogueStep == Catalogue!Next \/ UNCHANGED View(files)

LEMMA AddFileRefines ==
    ASSUME Inv, NEW h \in Handlers, AddFile(h)
    PROVE  CatalogueStep
<1> DEFINE k   == frame[h].key
           u   == frame[h].user
           got == frame[h].got
           r   == FromString(u, got)
<1>1. k \in Keys /\ u \in Users
  BY FrameType DEF Inv, AddFile, At
<1>2. CASE k \in DOMAIN files
  BY <1>2 DEF AddFile, CatalogueStep
<1>3. CASE k \notin DOMAIN files
  <2>1. files' = Put(files, k, r)
    BY <1>3 DEF AddFile
  <2>2. View(files)' = Put(View(files), k, Entry(r))
    <3> HIDE DEF r
    <3> QED BY <2>1, ViewPut
  <2>3. k \notin DOMAIN View(files)
    BY <1>3 DEF View
  <2>4. CASE got \in {"seeder", "path"}
    <3>1. Entry(r) = [owner |-> u, seeders |-> {u}]
      BY <2>4 DEF Entry, FromString
    <3>2. Catalogue!Publish(k, u)
      BY <2>2, <2>3, <3>1, SameOperators DEF Catalogue!Publish
    <3> QED BY <1>1, <3>2 DEF CatalogueStep, Catalogue!Next
  <2>5. CASE got \notin {"seeder", "path"}
    <3>1. PICK o \in {u, NoUser} : Entry(r) = [owner |-> o, seeders |-> {}]
      BY <2>5 DEF Entry, FromString
    <3>2. Catalogue!Abandon(k, u)
      BY <2>2, <2>3, <3>1, SameOperators DEF Catalogue!Abandon
    <3> QED BY <1>1, <3>2 DEF CatalogueStep, Catalogue!Next
  <2> QED BY <2>4, <2>5
<1> QED BY <1>2, <1>3

LEMMA AddNewSeederRefines ==
    ASSUME Inv, NEW h \in Handlers, AddNewSeeder(h)
    PROVE  CatalogueStep
<1> DEFINE k == frame[h].key
           u == frame[h].user
           r == [owner         |-> files[k].owner,
                 seeder_users  |-> files[k].seeder_users \cup {u},
                 user_file_map |-> files[k].user_file_map \cup {u}]
<1>1. k \in Keys /\ u \in Users
  BY FrameType DEF Inv, AddNewSeeder, At
<1>2. CASE k \notin DOMAIN files
  BY <1>2 DEF AddNewSeeder, CatalogueStep
<1>3. CASE k \in DOMAIN files
  <2>1. files' = [files EXCEPT ![k] = r]
    BY <1>3 DEF AddNewSeeder
  <2>2. View(files)' = [View(files) EXCEPT ![k] = Entry(r)]
    <3> HIDE DEF r, k
    <3> QED BY <1>3, <2>1, ViewReplace
  <2>3. k \in DOMAIN View(files) /\ View(files)[k] = Entry(files[k])
    BY <1>3 DEF View, Entry
  <2>4. Entry(r) = [owner   |-> View(files)[k].owner,
                    seeders |-> View(files)[k].seeders \cup {u}]
    BY <2>3 DEF Entry
  <2>5. Catalogue!Join(k, u)
    BY <2>2, <2>3, <2>4 DEF Catalogue!Join
  <2> QED BY <1>1, <2>5 DEF CatalogueStep, Catalogue!Next
<1> QED BY <1>2, <1>3

LEMMA RemoveSeederRefines ==
    ASSUME Inv, NEW h \in Handlers, RemoveSeeder(h)
    PROVE  CatalogueStep
<1> DEFINE k    == frame[h].key
           u    == frame[h].user
           left == files[k].seeder_users \ {u}
<1>1. k \in Keys /\ u \in Users
  BY FrameType DEF Inv, RemoveSeeder, At
<1>2. CASE k \notin DOMAIN files \/ u \notin files[k].seeder_users
  BY <1>2 DEF RemoveSeeder, CatalogueStep
<1>3. CASE k \in DOMAIN files /\ u \in files[k].seeder_users
  <2>1. /\ k \in DOMAIN View(files)
        /\ View(files)[k].seeders = files[k].seeder_users
    BY <1>3 DEF View
  <2>2. CASE left = {}
    <3>1. files' = Drop(files, k)
      BY <1>3, <2>2 DEF RemoveSeeder
    <3>2. View(files)' = Drop(View(files), k)
      BY <3>1, ViewDrop
    <3>3. Catalogue!Withdraw(k, u)
      BY <1>3, <2>1, <2>2, <3>2, SameOperators DEF Catalogue!Withdraw
    <3> QED BY <1>1, <3>3 DEF CatalogueStep, Catalogue!Next
  <2>3. CASE left # {}
    <3>1. PassOn(k, u, left)
      BY <1>3, <2>3 DEF RemoveSeeder
    <3>2. PICK first \in left, r \in FileInfos :
             /\ r = [owner         |-> first,
                     seeder_users  |-> left,
                     user_file_map |-> files[k].user_file_map \ {u}]
             /\ files' = [files EXCEPT ![k] = r]
      <4> HIDE DEF k, u
      <4> QED BY <1>3, <3>1, PassOnEntry
    <3>3. View(files)' = [View(files) EXCEPT ![k] = Entry(r)]
      <4> HIDE DEF k
      <4> QED BY <1>3, <3>2, ViewReplace
    <3>4. Entry(r) = [owner |-> first, seeders |-> left]
      BY <3>2 DEF Entry
    <3>5. Catalogue!Withdraw(k, u)
      BY <1>3, <2>1, <2>3, <3>3, <3>4 DEF Catalogue!Withdraw
    <3> QED BY <1>1, <3>5 DEF CatalogueStep, Catalogue!Next
  <2> QED BY <2>2, <2>3
<1> QED BY <1>2, <1>3

\* Every step of the file commands is a step of the catalogue or changes
\* nothing the catalogue speaks of.
THEOREM Refinement == Spec => RefinesCatalogue
<1>1. Init => Catalogue!Init
  <2>1. ASSUME Init PROVE View(files) = Catalogue!EmptyMap
    BY <2>1 DEF Init, View, EmptyMap, Catalogue!EmptyMap
  <2> QED BY <2>1 DEF Catalogue!Init
<1>2. Inv /\ [Next]_vars => [Catalogue!Next]_(View(files))
  <2> SUFFICES ASSUME Inv, [Next]_vars PROVE CatalogueStep
    BY DEF CatalogueStep
  <2>1. CASE UNCHANGED files
    BY <2>1 DEF CatalogueStep, View
  <2>2. ASSUME NEW h \in Handlers, AddFile(h) PROVE CatalogueStep
    BY <2>2, AddFileRefines
  <2>3. ASSUME NEW h \in Handlers, AddNewSeeder(h) PROVE CatalogueStep
    BY <2>3, AddNewSeederRefines
  <2>4. ASSUME NEW h \in Handlers, RemoveSeeder(h) PROVE CatalogueStep
    BY <2>4, RemoveSeederRefines
  <2> QED BY <2>1, <2>2, <2>3, <2>4, FilesChange
<1> QED BY <1>1, <1>2, Invariant, PTL DEF Spec, RefinesCatalogue, Catalogue!Spec
=============================================================================
