# A verification development for the P2P file-sharing system

The system is a set of **trackers**, which keep users, groups and the list of
shared files in memory and tell each other what their clients do, and of
**clients**, which talk to one tracker and fetch file pieces from each other.
The modules here model the tracker (what its threads do to its maps, what a
session is, what the trackers' replication keeps and does not keep), the client
(its conversation with the tracker, its downloads, the peers it serves) and the
thread pool both are built on. TLC checks them on small instances; every
invariant and step property the runs check, and that five modules implement
their abstract specifications, is proved with TLAPS for every number of
threads, users, groups, files, trackers, clients, pieces and commands.

Paths below are relative to the repository.

## 1. Inventory

| component | source | state | operations | hard because | correct when |
|---|---|---|---|---|---|
| accounts and sessions | `tracker/managers/user_manager.cpp`, `client_manager.cpp` | `users`, `logged_in`; per connection `username`, `logged_in`, the loop it is in | create_user, login, logout, exit, hang-up | a check and a change take the lock separately; the session's name is set before the command succeeds | nobody acts under a name whose password he did not give; a left session leaves no entry |
| groups | `group_manager.cpp`, `command_manager.cpp` | `groups` (owner, members, requests), `owner_groups` | create, join, accept, leave, list_requests | three to five critical sections per command; two maps for one fact; `operator[]` inserts | members distinct, owner senior, the maps agree, only the owner admits |
| shared files | `file_manager.cpp`, `command_manager.cpp` | `group_files`: owner, seeders, their paths | upload, update_file_info, stop_share, list_files, download_file | as for groups; an upload waits for its client in the middle, and keeps what came if he hangs up | first upload wins, only seeders have paths, last seeder removes |
| replication | `tracker_sckelton.cpp`, `client_manager.cpp` | `other_trackers`; messages in sockets of detached threads | notify_sync, start_sync, send_sync_message, handle_client, sync_handler | no order, no retry, no recovery; everything is lost in a crash | registrations spread, passwords stay, each replica is sound |
| thread pools | `tracker_threads.cpp`, `client_threads.cpp`, `assign_task_to_thread`, `assign_download_task` | slots: flag, `std::thread` object, task | take, start, store, detach, release, wake, join | the slot is used after the lock is given up; a task can end before its thread is detached; a client assigns from two threads | flag and task agree; no `std::terminate`; nobody sleeps beside a free slot |
| tracker start, log, utilities | `tracker.cpp`, `tracker_logger.cpp`, `tracker_utils.cpp` | files | read tracker list, bind, log | no | |
| client commands, fail-over, upload | `client/headers/client_skelton.cpp` | `logged_in`, `tracker_sock` and its O_NONBLOCK flag | handle_command, handle_upload_file_command, reset_tracker, drain_socket | two threads on one socket, one of which takes the mutex; one recv is taken for one reply | a reply answers its own command; a client that takes itself for logged in has a session |
| client download | same | offer, piece results, destination file | file_download_command, download_piece, write_content, join_all_threads | detached threads that nobody joins; the destination may be an older file, or be removed under a writer, or be written by the threads of an earlier download of another file | a download reported complete is and stays complete, as far as its own pieces go; no good seeder is passed over |
| peer server | same | backlog of the listening socket, slots | server_listener, assign_task_to_thread, handle_client (get_piece) | downloads and serving share the slots | downloads end; peers do not wait for each other for ever |

Components interact by **shared state** (the three managers are shared by all
pool threads of a tracker, each manager with one mutex held for one call), by
**calls** (ClientManager to CommandManager to the managers), by **messages**
(client commands and replies on one socket, SYNC messages on a connection each,
`get_piece` between clients), and not by callbacks. `PROJECT.json` lists every
component with its status and every hazard with its line.

## 2. Modules

| module | models | kind |
|---|---|---|
| `HashMap` | `std::unordered_map` as a function on its keys | data |
| `GroupRegistry` | what the group commands promise | abstract |
| `GroupManager` | the group commands, call by call | detailed, implements `GroupRegistry` |
| `FileCatalogue` | what the file commands promise | abstract |
| `FileManager` | the file commands, call by call, over a `GroupRegistry` that changes meanwhile | detailed, implements `FileCatalogue`, uses `GroupRegistry` |
| `AccessControl` | what accounts and logins promise | abstract |
| `Session` | accounts, logins, the two loops of a connection | detailed, implements `AccessControl` |
| `TrackerReplica` | the ten broadcast commands as functions of one tracker's state | data |
| `AccountGossip` | what replication promises of accounts | abstract |
| `TrackerSync` | trackers, sessions, messages, crashes | composes `TrackerReplica`, implements `AccountGossip` |
| `SlotCounter` | what a pool promises whoever uses it | abstract |
| `ThreadPool` | the pool of a tracker and of a client, slot by slot | detailed, implements `SlotCounter` |
| `ClientLink` | a client's command loop, its background download and the tracker's session at the other end of the byte stream | composes client and tracker |
| `Swarm` | clients that download pieces from each other, with one pool each | composes downloads, pools and peer servers |
| `SequenceFacts`, `GroupManagerProofs`, `FileManagerProofs`, `SessionProofs`, `ThreadPoolProofs`, `TrackerSyncProofs`, `ClientLinkProofs`, `SwarmProofs` | theorems | proofs |
| `MCGroupManager`, `MCFileManager`, `MCTrackerSync`, `MCSwarm` | symmetry, initial states for TLC | instances |

How they fit: `GroupManager` is proved to implement `GroupRegistry`; `FileManager`
then needs of the groups only the registry, whose steps are its environment; both
show that a command takes effect in a single critical section, which is what lets
`TrackerReplica` run a whole command at once. `Session` is one connection's
automaton against the maps, `ClientLink` the same two loops against a client.
`Session` is proved to implement `AccessControl`, in which a connection acts for an
account or for nobody; `TrackerSync` knows a tracker's sessions only as the users
they act for. `ThreadPool` is proved to implement `SlotCounter`, a number, which is
what lets `Swarm` count the slots of a client (`busy`) instead of following them.

**One action is one critical section.** In `GroupManager` and `FileManager` a
handler (a pool thread) is in the middle of at most one command; `frame[h]`
says which command, for whom, and which call comes next. A command is a list of
calls with the answers under which it goes on (`Script`, `CallsOf`); every call
is one action, with everything the C++ function does under its lock:
`IsMemberOfGroup` inserts the group `operator[]` inserts, `LeaveGroup` dissolves
or hands over, `RemoveSeeder` passes the entry on. A command may name any user:
a session names its own, a SYNC message (or the `sync` command of a session)
any.

**Uploads that break off.** Neither `recv` of an upload is checked
(`client_manager.cpp:373` and `:377`), and the buffer is zeroed beforehand. A client
that hangs up in the middle of its metadata leaves a prefix padded with zeros,
which `trim_whitespace` does not empty, which `fromString` reads as far as it goes,
and which is stored and broadcast; the hang-up is noticed at the next `recv`. The
fields stand in one order in the text (owner, group, sizes, hashes, seeders, paths),
so what is left depends on one number, how far it came. `FileManager` has it as
`got` in the command's frame (`Extents`), chosen by `ReceiveData` or, for a SYNC
message, by `Receive`, and `AddFile` stores `FromString(u, got)`: owner, seeder and
path, or owner and seeder, or the owner only, or none of them. A name that was cut
ends in zeros and is nobody's (`NoUser`). `FileCatalogue` says it in one action,
`Abandon`. By SYNC the user and the group of the command are those of the text,
so that a text without them does nothing at a peer. A text that ends
before a size or a port makes `stoull` or `stoi` throw, and the process ends: that is
`Crash` in `TrackerSync` and left out of `FileManager`.

**Session.** `session[c]` is the `ClientManager` of connection `c`: its loop, the
call its thread is at, `username`, `password`, the flag `logged_in` that
`login_loop` loops on, and whether the command ends the session. `gone` holds
the connections whose client has hung up, which the thread notices at its next
`recv`. `while_loop`'s logout calls `login_loop`, which returns at once because
the flag is still set: the model keeps that (`AfterLogout`), and proves it
never does anything else.

**TrackerSync.** `replica[t]` is the state of `t`'s managers, `net` the sender
threads that have not finished, one message each. `Deliver` is `handle_client`
with `sync_handler`; `Lose` is a connection that cannot be made: to a tracker
that is down, or, for the trackers in `Slow`, one that times out. `Crash` takes
the process, its sender threads and all its state; `Restart` begins empty. An
upload is two commands, `BeginUpload` and `FinishUpload`, between which other
commands run. In place of the second, the client may hang up: with part of the
metadata sent, which is stored and broadcast (`CutOffUpload`), or too little of it
for the peers (`UnnamedUpload`), or none (`DropUpload`); the upload is then `broken`,
and only then may `Disconnect` end the session, because while the metadata are
awaited nothing looks at what `recv` returns. `SyncCommand` is the undocumented
`sync` command of `while_loop`. `missed` and `registered` are history variables: no
action reads them. Left out of a replica are addresses and the owner of a file
entry, which no other command asks about, and groups without members, whose life is the subject of
`GroupManager`.

The accounts alone obey something simpler, `AccountGossip`: a tracker's book of
names and passwords grows by what clients open there and by what it learns of
elsewhere, and is lost as a whole. `Book` takes it from `replica`; what clients
opened is `registered`. Messages, sessions, groups and files are not in it.

**ThreadPool.** A slot is three pieces of state: `available` (the flag, under
`thread_mutex`), `object` (whose thread `thread_pool[idx]` holds, written with
no lock) and `running` (the task). An assigner takes a slot, starts the thread,
stores it and detaches it, in steps that the thread's own `Release` may come
between; `notices` are `notify_one` calls still to be made, which the code makes
after giving up the lock. `dead` says that `std::terminate` was called: a thread
was assigned over one still joinable, or detach or join found no thread.
`active` is the set of assigners of the program at hand: a tracker has one, its
accept loop; a client has two, the loop that accepts peers and a download, which
ends with `join_all_threads`.

**ClientLink.** `main` and `thread` are where the command loop and the download
are, `session` where the tracker's thread is, `up` and `down` what was sent and
not yet received, `nonblock` the socket's O_NONBLOCK, `saved` the flags the two
calls of drain_socket will restore, `blocked` who is inside a recv that waits
already, which the flag no longer affects. A recv takes any nonempty prefix of
what has come, so two replies can be read as one and a long one as two; where
the code compares eight bytes with a number (a length) the model takes one
message. `turn` numbers the commands, so that a reply can be traced to its
command; `quiet` and `sure` are history. Abstractions: a second download waits
for `tracker_comm_mutex`, so there is one at a time; the drains between pieces
and report are one; the rest of a garbled offer is dropped; a metadata length
made of a command's bytes ends the session, since it is too large to allocate.
Left out: exit, the `sync` command, commands the client answers itself.

**Swarm.** A task is a piece in a slot of its client's pool: connecting, queued in
a seeder's backlog, served in a slot of the seeder's pool, received, or done.
`phase[c]` is the download thread: assigning (it waits for slots), checking (the
join that joins nothing, the results), hashing, differs (the file has been read
and is not what was wanted), updating. `gen` tells the pieces of a judged download
from those of the next. `Connect` takes any seeder not yet tried, for the order
in the code depends on the piece. A client that quits closes its connections,
and its peers go on with the seeders left. `full` and `stray` are history.

A client downloads to one path, each time any of `Files`: another file, or another
version under the same name. `dest[c]` is what stands there, piece by piece: of
which file, or something else. All files have the same pieces at the same offsets,
because the client's piece size is a constant (512 KB); only the length of a last
piece may differ, which is why `Create` (`create_file`: make the file, or set its
length) may spoil pieces of other files (`Cut`) and a shorter piece over a longer
one may be part of both (`Over`, "mixed"). A late piece has its own file's hash,
passes it, and is written over whatever stands there now. `stray[c]` is the pieces
of other files that were under way when the latest download began. The hash of the
whole file is read piece by piece in order (`HashPiece`), while pieces may still be
written. `VanishedOffer` is the download of the default FileInfo of a file
removed between the tracker's two looks at it: it changes the destination's length
at once (`client_skelton.cpp:715`) and then goes through the phases of every
download, with no piece to assign, until its hash differs (`:792-797`).

Abstractions: one destination per client; files of equally many pieces; a seeder's
copies are good or changed as a whole; a piece of zeros only, which `create_file`
itself would make right, counts as "other" until it is written; the mutex under
which a peer handler reads its file is left out, since it is held for one read and
one send.

Definitions named as "a slip" in their comment are plausible bugs; no `Next`
uses them. Each is put in the place of the definition after it to see that the
property it is paired with in `PROJECT.json` notices.

## 3. What is checked

| run | instance | what it shows |
|---|---|---|
| `group_manager` | 2 handlers, 3 users, 1 group | `MembersDistinct`, `OwnerIsSenior`, `OwnerIndexAgrees`; every admission is by the owner of that moment (`AdmittedByOwner`); empty groups are permanent (`GhostsArePermanent`); `RefinesRegistry` |
| `session` | 2 connections, 2 users, 2 passwords | `Authenticated`, `RefinesAccess` and, under fairness, `HangUpLogsOut` (201,673 states) |
| `file_manager` | 2 handlers, 3 users, 1 group, 1 file, uploads cut off anywhere | `PathsOfSeeders` (only seeders have paths, and all but one have), `RemovedOnlyByLastSeeder`, `RefinesCatalogue` (1,571,383 states) |
| `tracker_sync` | 2 trackers, 2 users, 2 passwords, 1 group, 1 file, 4 commands | `RegistrationsSpread`, `PasswordsStay`, `ReplicasSound`, `AccountsAreGossip` (about 443,000 states) |
| `thread_pool` | 3 slots, none to 2 assigners, 2 late notices | `SlotAccounting`, `LoneAssignerSurvives`, `WakeUpsCoverFreeSlots`, `RefinesCounter` and, under fairness, `NoLostWakeup` (39,996 states) |
| `client_link` | 4 commands, 1 break | `RepliesInStep`, `BeliefHasSession`, `NeverBothWait` and, under fairness, `AnsweredAlone` (441,586 states) |
| `swarm` | 2 clients, 2 files of 2 pieces, 2 slots, backlog 1, 2 downloads | `CompletedIsWhole`, `OnlyTheRightPieces`, `RemovedStaysAway`, `KeptUntilFailure`, `EverySeederIsTried`, `OnlyACircleStops`, `WorkRunsOut` and, under fairness, `OneWayEnds` (1,013,589 states) |

Each also has one type invariant. Three invariants are in no run, since a refinement
that is checked contains them, but are proved (section 4): `PendingAreOutsiders` (in
`RefinesRegistry`: only an outsider requests, and admission uses the request up),
`EntriesHaveSessions` (`RefinesAccess`: nobody is dismissed while on the list) and
`PasswordsDifferByConflict` (`AccountsAreGossip`: every password was opened).
Deadlock is checked in all runs but those of `ThreadPool`, where the process may be
terminated or have no assigner, of `Swarm`, where clients may quit or have nothing
to do, and of `ClientLink`, where the user may stop and two threads may wait for a
reply that does not come.

### Disagreements

Five runs check a sentence of the documentation against the code and find it
violated. The traces are short and each is a behaviour of the code:

* `group_every_group_is_owned` ("Single owner per group", `README.md:358`): h1's
  leave_group passes `isGroupAvailabel`, h2's leave_group removes the group, h1's
  `isMemberOfGroup` re-creates it with no owner. By `GhostsStay` the name is lost.
* `session_login_after_logout` (`README_CLIENT.md:709-711`): logout, then login,
  is answered "You are already logged in".
* `sync_trackers_converge` (`README_TRACKER.md:713`): a login overtakes its
  create_user; nothing is lost and the trackers differ for good.
* `swarm_requests_end` ("Peer connection timeout handling", `README_CLIENT.md:497`,
  and `:539`): two clients that download from each other fill their pools with
  requests that only the other's pool could serve; no recv has a timeout.
* `link_answered_during_download` ("Non-blocking command processing during
  downloads", `README_CLIENT.md:429`): a command drains and reads the socket while
  a download asks for its offer; the download takes its reply, and the command
  loop waits for ever.

### Bounds, and why they are enough

* *Two handlers.* Every property is about a check of one command and a change by
  another; the changes are atomic, so a third handler adds only more changes
  between the same two steps, which the second can make one after the other.
  For the invariants this is proved for any number.
* *Three users* give a succession with somebody left behind, two requests at
  once, and a stranger; *one group* and *one file*, because a call touches one
  of each, except `owner_groups[u]`, whose set of several groups the proof covers.
* *Two connections, users and passwords* give two logins of one user, a name taken
  by both, and a wrong password.
* `MaxCommands` bounds how many commands the sessions of all trackers run. Four are
  needed for create_group, join_group, accept_request and a late duplicate at the
  other tracker; an upload that is finished or cut off takes two, one with its
  metadata. They would not suffice from the start, where users are first
  registered and logged in, so `ColdOrWarmSpec` begins either there or in
  `WarmInit`, which is reached when every user registers, the registrations arrive,
  every user logs in at both trackers before either login arrives by SYNC, and the
  logins then arrive. `WarmInit` is no initial state of `AccountGossip`, so
  `AccountsAreGossip` is about the steps; the theorem `Refinement` is about `Spec`
  and has the initial states too. The bound also ends the behaviours, hence no
  liveness is claimed in that run.
* *Three slots and two assigners* let both start, store and detach threads in
  different slots and in one, with a slot left over or none. `MaxNotices` bounds
  the late `notify_one` calls: a task ends only when fewer are under way, so a
  third release waits for one of them. A client has no more assigners than two;
  the safety properties are proved for any number of both.
* *Four commands and a break* are enough for a login, a download, and two commands
  beside it, or a login, a fail-over and the logout and login that follow it.
  `turn` goes two beyond `MaxCommands` because a fail-over adds two commands. Both
  safety properties are proved for any number.
* *Two clients, two files of two pieces, two slots, two downloads* let two pieces of a
  client be under way while it serves the other, a late piece meet the next download
  of the same file or of another at the same path, and pools fill with each
  other's requests. Two downloads are enough because a destination depends on what
  stands there, which the initial states give, and on pieces of an earlier download.
  The code listens with a backlog of three, which two clients could not fill; with
  1 a good seeder is passed over and the piece fails. `FewerInit` gives the first
  client good copies and the second changed ones, and both another file at the
  destination; that there is none is what a failed download leaves.
  `FirstOfOneFile` fixes which file is downloaded first, for no definition tells
  files apart: it keeps one of two behaviours that are alike, which SYMMETRY could
  not do beside liveness. All of `Init` and `Next` is what the proofs are about.
  `swarm_requests_end` needs only one piece and one slot. That is also where the
  circle `OnlyACircleStops` speaks of is closed: in `swarm` it cannot be, as only one of
  the two pieces that fill a pool fits into the other's queue, so that `swarm`
  shows of the property that the threads never stop with work left. The theorem is
  about every number of clients and size of pool and backlog; with a backlog of 2
  TLC finds the circle in `swarm`'s instance too, and nothing else that stops it.
* Symmetry is used for handlers, users, groups, files, trackers and passwords:
  no definition names one or orders them. Runs with liveness use none.

### Fairness

`Session`: weak fairness of each connection's thread on everything it does
without waiting (`Serve`), because a pool thread keeps running and the managers'
locks are held for one call; and of its `recv` once the client is gone, which
returns 0 or an error. Nothing makes a client send, log out or hang up.
`ThreadPool`: weak fairness of every assigner's steps that need nothing from
outside and of a `notify_one` once its slot is released, because threads keep
running. Nothing makes a task end: it may be the session of an idle client.
`Swarm`: weak fairness of what the threads do (`Work`); not of starting downloads
nor of quitting. There is only so much work between two downloads (`WorkRunsOut`),
so fairness of the whole is fairness of each part. `OneWayEnds` still has to assume that
nobody who serves a download runs one; `RequestsEnd` is what happens otherwise.
`ClientLink`: weak fairness of the command loop's own steps, of the download and
of the tracker's thread. None for the user, who need not answer reset_tracker's
question, and none for `HandleClient`: a tracker whose pool is full may never
serve a new connection. In `TrackerSync`, too, deliveries need a pool thread,
which idle sessions can hold for ever, so no liveness of replication is claimed.

## 4. What is proved

Assumptions: `NoUser \notin Users` (the empty string is not a user name, nor is one
that ends in zeros); for the pool at least one slot and one notice, a finite set of
assigners, joiners that are among them, and a `NoThread` that is not; `Slow` trackers
that are trackers; for `Swarm` finite sets of clients and of pieces, which are numbers,
files that are not called "other", "mixed", "wrong" or "none", at least one slot and
a backlog of at least one; bounds that are naturals. Nothing on the other constants.

* **GroupManagerProofs.** The invariants the run checks are not inductive one by
  one; together, with the type of `groups`, they are. `Inv` says of each group
  (`GroupOK`) that its members are distinct, none of them waits, and its owner is
  the first of them or `NoUser` if there are none, and that `owner_groups` is
  exactly the inverse of `owner`. Distinctness is what makes removing the first
  occurrence of a user remove the user (`SequenceFacts`), so that
  `PendingAreOutsiders` and succession survive a departure; the agreement of
  the maps is what makes `Dissolve` and `HandOver` leave nothing behind. One
  lemma per call shows that it keeps `Inv`; the calls that only read share one.
  `AdmittedByOwner` and `GhostsArePermanent` are step properties that follow from
  `Inv` and the shape of each call; `Refinement` maps groups with members to the
  registry and shows that every call is one registry step or a stutter.
* **SessionProofs.** `Authenticated` and `EntriesHaveSessions` need that the calls of
  a login or a registration happen only in `login_loop` with a real name, that
  a session in `while_loop` has its flag set (`SessionsOK`), and that a session
  about to close has no entry (`ClosingIsLoggedOut`), which holds because the
  call before removed the entry of its name, and by `EntriesHaveSessions` there
  is no other entry it could have. `Refinement` lets a connection act for an
  account exactly while it is in `while_loop` (`Acting`). The call of a login is
  the step that admits: the password it was checked with is still the account's,
  because none is ever changed. The call of a logout strikes off a name, that of
  whoever left, and `close` dismisses a connection, which by `ClosingIsLoggedOut`
  is on the list no more. All other calls are stutters.
* **FileManagerProofs.** `Inv` is the type and, of every entry, `PathsOfSeeders`
  (`EntriesOK`): an entry has it when `FromString` makes it, wherever the metadata broke
  off, and each call keeps it, since `AddNewSeeder` and `PassOn` change both maps by
  the same user. `LastSeederRemoves` and the refinement of `FileCatalogue` follow from the
  type and the shape of each call; what a cut-off upload stores is one `Publish` or
  one `Abandon`. The steps of the environment leave the files alone.
* **ThreadPoolProofs.** `SlotAccounting` is inductive with the type: only `Take`
  clears a flag, and with it makes its assigner the one that is launching there.
  `LoneAssignerSurvives` needs to know where thread objects are: a stored object
  belongs to the assigner that detaches it next (`StoredIsDetachedNext`), an
  assigner the program does not have does nothing (`OthersIdle`), and so, with
  one assigner, every other slot holds no thread when it stores or joins
  (`LoneIsUndisturbed`). With two, another may store into the slot that a task
  has already released and its assigner has not yet detached.
  `WakeUpsCoverFreeSlots` is inductive beside that: a release makes one slot free
  and owes one notice, a notice moves one sleeper to where it looks, and whoever
  looks and sleeps again found no free slot. `Refinement` counts as `taken` the
  threads that run and those about to be started (`Taken`); by `SlotAccounting` they
  are in bijection with the slots whose flag is cleared, so that only `Take` and
  `Release` change the count, by one, and it never passes `MaxThreads`.
* **TrackerSyncProofs.** The run's invariants say too little to be inductive.
  `Spread` also speaks of names that are only on their way: whoever knows or is
  about to know a name, every other tracker knows it, is about to, or missed
  something; a delivery then adds nothing that the others lack. `Registered` says
  that every password, in a replica or in a message, came from a client, from which
  `PasswordsDifferByConflict` follows. `ReplicasSound` is proved of the functions:
  `EffectFacts` shows for each of the ten commands, applied to any sound state, that
  the result is sound (of a file entry that is no more than its type, as an upload
  that was cut off has no seeders), because the SYNC handler checks again what its sender
  checked. The order, loss or duplication of messages is then of no account. The
  theorems are about `Spec`; `WarmInit` is only a shortcut into its states.
  `AccountsSpreadByGossip` needs `Registered` again: a delivered password was opened
  by some client, so what a tracker learns may be learnt; of the ten commands only
  create_user touches the accounts, and it enters a name that was not there.
* **ClientLinkProofs.** `InStep` says what is under way while the client waits for
  the reply to a command that was sent when all was quiet: no download, only that
  command and its replies, no leftover logout while it logs in again, and no
  "Login successful" from a session still in `login_loop`. It is the last two that
  make `BeliefHasSession` inductive: the one reply a quiet login can take for its
  own is its own. `NoMutualWait` follows from the stages a quiet command goes
  through (`Exchange`): it is on its way, or answered; an upload is then invited to
  send its metadata, which are on their way next, after which it is answered. In
  each stage it is known who has something to read and what. That every step leads
  from a stage to a stage rests on `InStep`, since nothing else may be under way.
* **SwarmProofs.** That no pool loses or doubles a slot (in `TypeOK`) needs
  `SlotsCounted`: `busy[c]` is the number of tasks in slots of `c`, its own and
  those it serves. For that a piece must be in one task of a download only
  (`OneTaskPerPiece`), or a step would change two slots; one lemma each says what
  replacing, adding and removing a task does to the count, and `QuitInv` that the
  tasks that survive a client are in bijection with what becomes of them.
  `EverySeederIsTried` needs an account of the good seeders (`NobodyMissed`): until
  a piece is done each of them has quit, had a full backlog, is still to be tried or
  is the one that serves it. `CompletedIsWhole`, `OnlyTheRightPieces` and the step
  properties rest on `DestOK`, of each destination: while it is hashed, the pieces
  already read are what is wanted, and from then on all of them, but for those in
  `stray`. That lasts because a piece of another file that is still to be written was
  under way when the download began, hence is in `stray` (the last line of
  `TaskOK`), while any other writes what is wanted. `KeptUntilFailure` needs besides
  that `Create` does not change a piece of the file wanted, and an offer of another
  file, or of none, changes `want`. `NobodyRetriesForEver` is about the steps that
  pieces and downloads have before them, sets to which only a new download adds, and from which every
  step but a client's quitting takes, and which are finite (`OnlySoMuchToDo`); a
  retry, the one step that begins again, begins with a seeder not yet tried. The file
  to be hashed is a third such set, from which each piece that is read is taken.
  `OnlyCirclesStop` takes a state in which no thread can go on; every task is then
  queued at a client whose slots are all taken, by `SlotsCounted` by its tasks or
  those it serves, and it serves none, since a served task can go on: the pieces in
  its slots are its own.

Only model-checked: liveness (`HangUpLogsOut`, `NoLostWakeup`, `OneWayEnds`,
`AnsweredAlone`), because the prover has no fairness. For three of the four the
part that is not about fairness is proved: that no wake-up is missing
(`WakeUpsCoverFreeSlots`), that the work of a download ends and that only a circle
stops it (`WorkRunsOut`, `OnlyACircleStops`), and that the two ends of a
connection do not wait for each other (`NeverBothWait`).

## 5. Not modelled

Not modelled because there is nothing to check: start-up, logging, tokenizing,
hashing, the textual form of `FileInfo` (but for where it is cut off), the progress counter and history a client
shows, build files. Of the modelled parts, reads that only build a reply
(list_groups, list_files, list_requests, the download offer) are left out; what
an offer can be, an empty one and the default `FileInfo` of a file just removed
included, are the inputs of `Swarm`.

Beyond what TLC and these models reach:

* that the trackers' accept loops wait for each other: `TrackerSync` lets every
  delivery be put off for ever instead, and `ThreadPool` lets a task last for ever;
* undefined behaviour that ends a process (SIGPIPE, `tokens[0]` of an empty message):
  a crash at any step, as `TrackerSync` has it, covers what it does to the others;
* a SYNC message with a field missing: messages are records here;
* the O_NONBLOCK flag that command loop and download both set and restore
  (`client_skelton.cpp:641`), and commands sent while a download or a half-finished
  upload is under way: `ClientLink` has them, but its safety properties and
  `AnsweredAlone` are about commands sent when nothing else was (`quiet`) and about logins
  believed on the reply to such a command (`sure`), so they say nothing of these.

Known of the code and shown by no run: two create_group commands of one name may
both report success (the loser's failure is ignored, see `RefinesRegistry`, which
allows it); a connection that tried a name with a wrong password logs its user
out when it drops; metadata that are cut off are stored, and when they name no
seeder the entry stays listed, with nobody to remove it, until somebody joins it;
cut off before a number they end the tracker's process; a late piece of an
earlier download spoils a file of another content that was downloaded to the same path and
reported complete, which is why `CompletedIsWhole` and `KeptUntilFailure` except `stray`;
a download of a file that has just been removed cuts the destination to an
arbitrary length long before it reports failure; a file whose seeders are all logged out stays listed; a
restarted tracker stays empty until commands reach it; and with both assigners of
a client `dead` is reached in `ThreadPool`, that is, serving a peer while a download
starts pieces can terminate the client.

What could be added: the tracker's pool between `ThreadPool` and `TrackerSync`, so
that deliveries wait for slots held by sessions; the offer of `download_file` read
under its three locks, joined to `FileManager`; files of different numbers of pieces in `Swarm`;
that each tracker by itself keeps a `GroupRegistry`, which needs one instance of it
per tracker, a form the prover does not take.
