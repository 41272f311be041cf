------------------------------- MODULE Swarm --------------------------------
(***************************************************************************)
(* Clients that download pieces from each other                            *)
(* (client/headers/client_skelton.cpp).                                    *)
(*                                                                         *)
(* Every client has one pool of threads (see ThreadPool), which both the   *)
(* pieces it downloads and the peers it serves occupy.  A download assigns *)
(* its pieces to the pool and then, since the threads are detached and     *)
(* join_all_threads finds nothing to join, judges the result while pieces  *)
(* may still be under way; those of a judged download go on beside the     *)
(* next one.  tracker_comm_mutex lets a client run one download at a time. *)
(*                                                                         *)
(* A client downloads to one path, each time any of the files.  These have *)
(* equally many pieces, and a piece has its offset in all of them, since   *)
(* the client's piece size is a constant of the program, but the last ones *)
(* may differ in length.  Each client has good or changed copies of what   *)
(* the others want.  Nobody returns after quitting.                        *)
(***************************************************************************)
EXTENDS Naturals, FiniteSets

CONSTANTS
    Clients,
    Files,          \* what may be downloaded, or an edited and re-uploaded version
    Pieces,         \* the pieces of a file, in their order
    MaxThreads,     \* MAX_THREADS
    Backlog,        \* connections that may wait, the one accepted included
    MaxDownloads    \* bound: downloads of all clients together

ASSUME SwarmAssumption ==
    /\ IsFiniteSet(Clients) /\ IsFiniteSet(Pieces) /\ Pieces \subseteq Nat
    /\ Files \cap {"other", "mixed", "wrong", "none"} = {}
    /\ MaxThreads \in Nat \ {0} /\ Backlog \in Nat \ {0} /\ MaxDownloads \in Nat

VARIABLES
    up,             \* the clients that run
    sound,          \* the clients whose copies are what was uploaded
    started,        \* how many downloads have been started
    phase,          \* client -> what its download thread does
    gen,            \* client -> the number of its latest download, or 0
    offer,          \* client -> the seeders the tracker offered
    want,           \* client -> the file of its latest download, or NoFile
    todo,           \* client -> the pieces not yet assigned
    unread,         \* client -> the pieces not yet hashed
    failed,         \* client -> the pieces whose download_results is false
    verdict,        \* client -> the verdict in its latest DownloadTask
    dest,           \* client -> the destination file
    busy,           \* client -> how many slots of its pool are taken
    tasks,          \* the pieces in the pools' slots
    full,           \* history: the clients whose backlog has turned a piece away
    stray           \* history: client -> the pieces of other files under way when
                    \* its latest download began

download == <<started, gen, offer, want, stray>>
vars == <<up, sound, started, phase, gen, offer, want, todo, unread, failed, verdict,
          dest, busy, tasks, full, stray>>

-----------------------------------------------------------------------------
NoFile == "none"
Absent == [p \in {} |-> "other"]

\* "mixed" is a piece of one file over a longer piece of another; "other" is
\* anything else, what ftruncate adds for example.
Contents == Files \cup {"other", "mixed", "wrong"}

Filled(x) == [p \in Pieces |-> x]
Whole(c)  == dest[c] = Filled(want[c])

\* What an ftruncate may leave of a piece.
Cut(x) == IF x = "mixed" THEN Contents \ {"wrong"} ELSE {x, "other"}

\* What writing a piece of f leaves of what was there.
Over(x, f) == IF x \in {"other", f} THEN {f} ELSE {f, "mixed"}

Phases == {"idle", "assigning", "checking", "hashing", "differs", "updating"}

\* The states of a connection that its seeder has not answered yet.
Waiting == {"queued", "served"}

(***************************************************************************)
(* A piece in a slot of client `by', of its download `gen', of `file'.  It *)
(* is connected to `from' (or to nobody: itself), has yet to try the       *)
(* seeders `left', and `read' is what it has received.                     *)
(***************************************************************************)
Tasks == [by : Clients, gen : 1..MaxDownloads, file : Files, piece : Pieces,
          at : Waiting \cup {"connect", "received", "ok", "no"},
          left : SUBSET Clients, from : Clients, read : {"right", "wrong"}]

Task(c, g, f, p, at, left) ==
    [by |-> c, gen |-> g, file |-> f, piece |-> p, at |-> at, left |-> left,
     from |-> c, read |-> "wrong"]

\* The connection of t is closed; t goes on with the seeders it has left.
Closed(t, at, left) == Task(t.by, t.gen, t.file, t.piece, at, left)

Replace(t, u) == tasks' = (tasks \ {t}) \cup {u}

\* A slip: the seeders that have been tried are tried again.
RetryFromTheStart(t) == Replace(t, Closed(t, "connect", offer[t.by]))

Retry(t) == Replace(t, Closed(t, "connect", t.left))
Succeed(t) == Replace(t, Closed(t, "ok", {}))
GiveUp(t) == Replace(t, Closed(t, "no", {}))

At(c, p) == c \in up /\ phase[c] = p

Goto(c, p) == phase' = [phase EXCEPT ![c] = p]

Decide(c, v) == verdict' = [verdict EXCEPT ![c] = v]

Put(c, f) == dest' = [dest EXCEPT ![c] = f]

Init ==
    /\ up = Clients
    /\ sound \in SUBSET Clients
    /\ started = 0
    /\ phase = [c \in Clients |-> "idle"]
    /\ gen = [c \in Clients |-> 0]
    /\ offer = [c \in Clients |-> {}]
    /\ want = [c \in Clients |-> NoFile]
    /\ todo = [c \in Clients |-> {}]
    /\ unread = [c \in Clients |-> {}]
    /\ failed = [c \in Clients |-> {}]
    /\ verdict = [c \in Clients |-> "none"]
    /\ dest \in [Clients -> {Absent, Filled("other")}]
    /\ busy = [c \in Clients |-> 0]
    /\ tasks = {} /\ full = {}
    /\ stray = [c \in Clients |-> {}]

-----------------------------------------------------------------------------
(***************************************************************************)
(* The download thread.                                                    *)
(***************************************************************************)
NewTask(c) ==
    /\ At(c, "idle")
    /\ started < MaxDownloads
    /\ started' = started + 1
    /\ gen' = [gen EXCEPT ![c] = started + 1]
    /\ failed' = [failed EXCEPT ![c] = {}]
    /\ Decide(c, "none")
    /\ UNCHANGED <<up, sound, full, unread, busy, tasks>>

\* The thread has the FileInfo of f, from the seeders S, with the pieces P.
Offered(c, f, S, P) ==
    /\ want' = [want EXCEPT ![c] = f]
    /\ offer' = [offer EXCEPT ![c] = S]
    /\ todo' = [todo EXCEPT ![c] = P]
    /\ stray' = [stray EXCEPT ![c] =
          {t.piece : t \in {u \in tasks : /\ u.by = c /\ u.file # f
                                          /\ u.at \notin {"ok", "no"}}}]
    /\ Goto(c, "assigning")

\* A slip: create_file truncates the file to nothing first.
CreateTruncated(c, f) == Put(c, Filled("other"))

\* create_file makes the file or sets its length, which is right where f is; it
\* keeps what is within.
Create(c, f) ==
    IF dest[c] = Absent THEN Put(c, Filled("other"))
    ELSE \E d \in [Pieces -> Contents] :
            /\ \A p \in Pieces :
                  IF dest[c][p] = f THEN d[p] = f ELSE d[p] \in Cut(dest[c][p])
            /\ Put(c, d)

\* The tracker offers a file and some seeders, of which it never counts the client.
StartDownload(c) ==
    /\ NewTask(c)
    /\ \E f \in Files, S \in SUBSET (Clients \ {c}) :
          Offered(c, f, S, Pieces) /\ Create(c, f)

\* An early return: no offer, or no destination, for which create_file may have
\* made an empty file; the task is never marked done.
Abandon(c) ==
    /\ NewTask(c)
    /\ \/ UNCHANGED dest
       \/ dest[c] = Absent /\ Put(c, Filled("other"))
    /\ UNCHANGED <<phase, offer, want, todo, stray>>

\* The file left the catalogue meanwhile: the default FileInfo, with no pieces,
\* no hash and any size.  The download goes on with it, and nothing to assign.
VanishedOffer(c) ==
    /\ NewTask(c)
    /\ Offered(c, NoFile, {}, {})
    /\ Create(c, NoFile)

\* A slip: get_available_thread is called without waiting for a slot.
AssignUnwaited(c, p) ==
    /\ At(c, "assigning") /\ p \in todo[c]
    /\ todo' = [todo EXCEPT ![c] = @ \ {p}]
    /\ busy' = [busy EXCEPT ![c] = @ + 1]
    /\ tasks' = tasks \cup {Task(c, gen[c], want[c], p, "connect", offer[c])}
    /\ UNCHANGED <<up, sound, full, download, phase, unread, failed, verdict, dest>>

\* The pieces are shuffled; each waits for a slot.
AssignDownloadTask(c, p) ==
    /\ At(c, "assigning") /\ p \in todo[c]
    /\ busy[c] < MaxThreads
    /\ todo' = [todo EXCEPT ![c] = @ \ {p}]
    /\ busy' = [busy EXCEPT ![c] = @ + 1]
    /\ tasks' = tasks \cup {Task(c, gen[c], want[c], p, "connect", offer[c])}
    /\ UNCHANGED <<up, sound, full, download, phase, unread, failed, verdict, dest>>

\* Threads that were detached are not joinable: this waits for nothing.
JoinAllThreads(c) ==
    /\ At(c, "assigning") /\ todo[c] = {}
    /\ Goto(c, "checking")
    /\ UNCHANGED <<up, sound, full, download, todo, unread, failed, verdict,
                   dest, busy, tasks>>

\* A false result removes the file; a result that is still missing counts as good.
CheckResults(c) ==
    /\ At(c, "checking")
    /\ \/ /\ failed[c] # {}
          /\ Decide(c, "F") /\ Put(c, Absent) /\ Goto(c, "idle")
          /\ failed' = [failed EXCEPT ![c] = {}]
          /\ UNCHANGED unread
       \/ /\ failed[c] = {}
          /\ Goto(c, "hashing") /\ unread' = [unread EXCEPT ![c] = Pieces]
          /\ UNCHANGED <<failed, verdict, dest>>
    /\ UNCHANGED <<up, sound, full, download, todo, busy, tasks>>

\* The file is read from its beginning, while pieces may still be written.
HashPiece(c) ==
    /\ At(c, "hashing")
    /\ \E p \in unread[c] :
          /\ \A q \in unread[c] : p <= q
          /\ \/ /\ dest[c][p] = want[c]
                /\ unread' = [unread EXCEPT ![c] = @ \ {p}]
                /\ UNCHANGED phase
             \/ /\ dest[c][p] # want[c]
                /\ unread' = [unread EXCEPT ![c] = {}]
                /\ Goto(c, "differs")
    /\ UNCHANGED <<up, sound, full, download, todo, failed, verdict, dest,
                   busy, tasks>>

\* A slip: the full hash is not compared.
SkipHash(c) ==
    /\ At(c, "hashing") \/ At(c, "differs")
    /\ unread[c] = {}
    /\ Goto(c, "updating")
    /\ UNCHANGED <<up, sound, full, download, todo, unread, failed, verdict, dest,
                   busy, tasks>>

\* The hash of what was read is compared; a file that differs is kept.
CheckHash(c) ==
    /\ \/ At(c, "hashing") /\ unread[c] = {} /\ Goto(c, "updating") /\ UNCHANGED verdict
       \/ At(c, "differs") /\ Goto(c, "idle") /\ Decide(c, "F")
    /\ UNCHANGED <<up, sound, full, download, todo, unread, failed, dest, busy,
                   tasks>>

\* What is read after update_file_info, rarely its reply, may contain "Failed".
UpdateFileInfo(c) ==
    /\ At(c, "updating")
    /\ Goto(c, "idle")
    /\ \/ Decide(c, "C") /\ UNCHANGED dest
       \/ Decide(c, "F") /\ Put(c, Absent)
    /\ UNCHANGED <<up, sound, full, download, todo, unread, failed, busy, tasks>>

-----------------------------------------------------------------------------
(***************************************************************************)
(* A piece: download_piece, and the end of its thread.                     *)
(***************************************************************************)
Queue(s) == {t \in tasks : t.from = s /\ t.at = "queued"}

\* A slip: a seeder all of whose slots are taken turns a piece away.
ConnectUnlessBusy(t) ==
    /\ t.at = "connect"
    /\ \/ t.left = {} /\ GiveUp(t) /\ UNCHANGED full
       \/ \E s \in t.left :
             IF s \in up /\ busy[s] < MaxThreads
             THEN Replace(t, [t EXCEPT !.at = "queued", !.from = s, !.left = @ \ {s}])
                  /\ UNCHANGED full
             ELSE Replace(t, [t EXCEPT !.left = @ \ {s}]) /\ UNCHANGED full
    /\ UNCHANGED <<up, sound, download, phase, todo, unread, failed, verdict,
                   dest, busy>>

\* The next seeder: it takes the connection, or is not there, or its backlog is
\* full until the attempt times out; with none left the piece has failed.
Connect(t) ==
    /\ t.at = "connect"
    /\ \/ t.left = {} /\ GiveUp(t) /\ UNCHANGED full
       \/ \E s \in t.left :
             \/ /\ s \in up /\ Cardinality(Queue(s)) < Backlog
                /\ Replace(t, [t EXCEPT !.at = "queued", !.from = s, !.left = @ \ {s}])
                /\ UNCHANGED full
             \/ /\ s \notin up \/ Cardinality(Queue(s)) >= Backlog
                /\ Replace(t, [t EXCEPT !.left = @ \ {s}])
                /\ full' = IF s \in up THEN full \cup {s} ELSE full
    /\ UNCHANGED <<up, sound, download, phase, todo, unread, failed, verdict,
                   dest, busy>>

\* A slip: the hash of the piece is not compared.
WriteUnchecked(t) ==
    /\ t.at = "received"
    /\ IF dest[t.by] = Absent
       THEN GiveUp(t) /\ UNCHANGED dest
       ELSE /\ Put(t.by, [dest[t.by] EXCEPT ![t.piece] =
                             IF t.read = "right" THEN t.file ELSE "wrong"])
            /\ Succeed(t)
    /\ UNCHANGED <<up, sound, full, download, phase, todo, unread, failed,
                   verdict, busy>>

\* A slip: write_content creates the file when it is not there.
WriteCreating(t) ==
    /\ t.at = "received"
    /\ IF t.read = "wrong"
       THEN Retry(t) /\ UNCHANGED dest
       ELSE /\ Put(t.by, [p \in Pieces |->
                             IF p = t.piece THEN t.file
                             ELSE IF dest[t.by] = Absent THEN "other"
                             ELSE dest[t.by][p]])
            /\ Succeed(t)
    /\ UNCHANGED <<up, sound, full, download, phase, todo, unread, failed,
                   verdict, busy>>

\* A piece with the wrong length or hash sends it to the next seeder.
\* write_content opens the file without creating it.
WriteContent(t) ==
    /\ t.at = "received"
    /\ \/ /\ t.read = "wrong"
          /\ Retry(t) /\ UNCHANGED dest
       \/ /\ t.read = "right" /\ dest[t.by] = Absent
          /\ GiveUp(t) /\ UNCHANGED dest
       \/ /\ t.read = "right" /\ dest[t.by] # Absent
          /\ \E x \in Over(dest[t.by][t.piece], t.file) :
                Put(t.by, [dest[t.by] EXCEPT ![t.piece] = x])
          /\ Succeed(t)
    /\ UNCHANGED <<up, sound, full, download, phase, todo, unread, failed,
                   verdict, busy>>

Fail(t) ==
    IF t.at = "no" /\ t.gen = gen[t.by] /\ phase[t.by] \in {"assigning", "checking"}
    THEN failed' = [failed EXCEPT ![t.by] = @ \cup {t.piece}]
    ELSE UNCHANGED failed

\* A slip: the slot of a failed piece is not given back.
RecordLeaking(t) ==
    /\ t.at \in {"ok", "no"}
    /\ tasks' = tasks \ {t}
    /\ busy' = IF t.at = "ok" THEN [busy EXCEPT ![t.by] = @ - 1] ELSE busy
    /\ Fail(t)
    /\ UNCHANGED <<up, sound, full, download, phase, todo, unread, verdict, dest>>

\* The result goes into the map of the piece's own download, which is read once;
\* then the slot is released.
RecordResult(t) ==
    /\ t.at \in {"ok", "no"}
    /\ tasks' = tasks \ {t}
    /\ busy' = [busy EXCEPT ![t.by] = @ - 1]
    /\ Fail(t)
    /\ UNCHANGED <<up, sound, full, download, phase, todo, unread, verdict, dest>>

-----------------------------------------------------------------------------
(***************************************************************************)
(* The peer server.                                                        *)
(***************************************************************************)
\* server_listener accepts a connection, and assign_task_to_thread waits for a
\* slot before the next is accepted.
AssignTaskToThread(t) ==
    /\ t.at = "queued"
    /\ busy[t.from] < MaxThreads
    /\ busy' = [busy EXCEPT ![t.from] = @ + 1]
    /\ Replace(t, [t EXCEPT !.at = "served"])
    /\ UNCHANGED <<up, sound, full, download, phase, todo, unread, failed,
                   verdict, dest>>

\* The piece is sent, if somebody is there to receive it.
HandleClient(t) ==
    /\ t.at = "served"
    /\ busy' = [busy EXCEPT ![t.from] = @ - 1]
    /\ IF t.by \in up
       THEN Replace(t, [t EXCEPT !.at = "received",
                            !.read = IF t.from \in sound THEN "right" ELSE "wrong"])
       ELSE tasks' = tasks \ {t}
    /\ UNCHANGED <<up, sound, full, download, phase, todo, unread, failed,
                   verdict, dest>>

\* The process ends: its pieces with it, and every connection to it.  What it
\* waited for stays with its seeders until they find nobody there.
Quit(c) ==
    /\ c \in up
    /\ up' = up \ {c}
    /\ tasks' = {IF t.at \in Waiting /\ t.from = c
                 THEN Closed(t, "connect", t.left) ELSE t :
                    t \in {u \in tasks : IF u.at \in Waiting /\ u.from # c
                                         THEN TRUE ELSE u.by \in up'}}
    /\ Goto(c, "idle")
    /\ todo' = [todo EXCEPT ![c] = {}]
    /\ unread' = [unread EXCEPT ![c] = {}]
    /\ failed' = [failed EXCEPT ![c] = {}]
    /\ UNCHANGED <<sound, full, download, verdict, dest, busy>>

-----------------------------------------------------------------------------
\* What threads do without waiting for a user.
Work ==
    \/ \E c \in Clients :
          \/ \E p \in Pieces : AssignDownloadTask(c, p)
          \/ JoinAllThreads(c) \/ CheckResults(c) \/ HashPiece(c) \/ CheckHash(c)
          \/ UpdateFileInfo(c)
    \/ \E t \in tasks :
          \/ Connect(t) \/ WriteContent(t) \/ RecordResult(t)
          \/ AssignTaskToThread(t) \/ HandleClient(t)

Next ==
    \/ Work
    \/ \E c \in Clients : StartDownload(c) \/ Abandon(c) \/ VanishedOffer(c)
    \/ \E c \in Clients : Quit(c)

\* Threads that can go on do.  There is only so much work between two
\* downloads, so this says it of each of them.
Spec == Init /\ [][Next]_vars /\ WF_vars(Work)

-----------------------------------------------------------------------------
\* Every variable has its type; no pool has more threads than slots.
TypeOK ==
    /\ up \subseteq Clients /\ sound \subseteq Clients
    /\ started \in 0..MaxDownloads
    /\ phase \in [Clients -> Phases]
    /\ gen \in [Clients -> 0..MaxDownloads]
    /\ offer \in [Clients -> SUBSET Clients]
    /\ want \in [Clients -> Files \cup {NoFile}]
    /\ stray \in [Clients -> SUBSET Pieces]
    /\ todo \in [Clients -> SUBSET Pieces]
    /\ unread \in [Clients -> SUBSET Pieces]
    /\ failed \in [Clients -> SUBSET Pieces]
    /\ verdict \in [Clients -> {"none", "F", "C"}]
    /\ dest \in [Clients -> [Pieces -> Contents] \cup {Absent}]
    /\ busy \in [Clients -> 0..MaxThreads]
    /\ tasks \subseteq Tasks /\ full \subseteq Clients

\* A download reported complete is complete and stays so, although the verdict
\* does not wait for the pieces and those of earlier downloads still write.
\* Excepted are, and must be, the pieces that an earlier download of another
\* file was still fetching when this one began: they spoil it at any time.
CompletedIsWhole ==
    \A c \in Clients : phase[c] = "updating" \/ verdict[c] = "C" =>
        \A p \in Pieces \ stray[c] : p \in DOMAIN dest[c] /\ dest[c][p] = want[c]

\* Nothing but what the tracker's hashes vouch for is ever written into a
\* destination, whatever copies the seeders serve.
OnlyTheRightPieces ==
    \A c \in Clients : \A p \in DOMAIN dest[c] : dest[c][p] # "wrong"

\* A file that a failed download has removed comes back only with another
\* download: the pieces that are still under way do not create it.
RemovedStaysAway ==
    [][\A c \in Clients :
          dest[c] = Absent /\ dest'[c] # Absent => gen'[c] # gen[c]]_vars

\* A file that is whole is touched by nobody until its download, or a later one
\* of the same file, has failed or another file is downloaded to its path:
\* starting one, and pieces that fail, leave it as it is.  The exception is that
\* of CompletedIsWhole.
KeptUntilFailure ==
    [][\A c \in Clients :
          Whole(c) /\ want'[c] = want[c] =>
              \/ verdict'[c] = "F"
              \/ \A p \in Pieces \ stray'[c] :
                    p \in DOMAIN dest'[c] /\ dest'[c][p] = want[c]]_vars

\* A piece of the download at hand fails, if its destination is there, only when
\* every seeder offered has quit, has a changed copy, or has a full backlog.
EverySeederIsTried ==
    [][\A t \in tasks : \A c \in Clients :
          /\ t.by = c /\ t.gen = gen[c] /\ dest[c] # Absent
          /\ t.at # "no" /\ Closed(t, "no", {}) \in tasks'
          => offer[c] \cap sound \cap up \subseteq full']_vars

(***************************************************************************)
(* What the threads have still to do, step by step.  A piece has to be     *)
(* assigned, to come to a result and to record it; and, with each seeder,  *)
(* to connect, to get a slot, to be sent and to be written.                *)
(***************************************************************************)
OwnSteps(at) == CASE at = "todo" -> 3 [] at \in {"ok", "no"} -> 1 [] OTHER -> 2

StepsWithSeeder(at) ==
    CASE at = "queued" -> 3 [] at = "served" -> 2 [] at = "received" -> 1 [] OTHER -> 0

StepsOf(t) ==
    ({t.by} \X (1..OwnSteps(t.at))) \cup ({t.from} \X (1..StepsWithSeeder(t.at)))
        \cup (t.left \X (1..4))

Unassigned(c) == {Task(c, gen[c], want[c], p, "todo", offer[c]) : p \in todo[c]}

PieceSteps ==
    UNION {{<<t.by, t.gen, t.piece>>} \X StepsOf(t) :
              t \in tasks \cup UNION {Unassigned(c) : c \in Clients}}

PhasesAhead(x) ==
    CASE x = "assigning" -> 4 [] x = "checking" -> 3
      [] x = "hashing" -> 2 [] x \in {"differs", "updating"} -> 1 [] OTHER -> 0

PhaseSteps == UNION {{c} \X (1..PhasesAhead(phase[c])) : c \in Clients}

ToHash(c) == IF phase[c] \in {"assigning", "checking"} THEN Pieces ELSE unread[c]

HashSteps == UNION {{c} \X ToHash(c) : c \in Clients}

\* Until a download is started nothing is added to what there is to do, and
\* each step but a client's quitting takes something from it: whatever seeders
\* fail or quit and in whatever order, nobody retries for ever.
WorkRunsOut ==
    [][started' = started =>
          /\ PieceSteps' \subseteq PieceSteps
          /\ PhaseSteps' \subseteq PhaseSteps
          /\ HashSteps' \subseteq HashSteps
          /\ up' = up => \/ PhaseSteps' # PhaseSteps \/ HashSteps' # HashSteps
                         \/ PieceSteps' # PieceSteps]_vars

\* Some thread has its next step before it and nobody to wait for.
SomebodyCanGoOn ==
    \/ \E c \in up :
          \/ phase[c] \notin {"idle", "assigning"}
          \/ phase[c] = "assigning" /\ (todo[c] = {} \/ busy[c] < MaxThreads)
    \/ \E t \in tasks : t.at # "queued" \/ busy[t.from] < MaxThreads

\* The pieces c downloads take all of its slots.
FullOfItsOwn(c) == Cardinality({t \in tasks : t.by = c}) = MaxThreads

\* Nothing but a circle of clients can stop the swarm: whoever is waited for has
\* filled its pool with pieces of its own, which wait in queues in their turn.
\* No slot is lost, and no other wait is without end.
OnlyACircleStops ==
    ~SomebodyCanGoOn =>
        /\ \A t \in tasks : t.at = "queued" /\ FullOfItsOwn(t.from)
        /\ \A c \in up : phase[c] # "idle" => FullOfItsOwn(c)

Ended(c) == phase[c] = "idle" /\ \A t \in tasks : t.by # c

\* As long as nobody who serves a download runs one himself, every download
\* ends and gives all its slots back, unless its client quits.
OneWayEnds ==
    [](\A c, d \in Clients : gen[c] # 0 /\ d \in offer[c] => gen[d] = 0)
    => \A c \in Clients : ~Ended(c) ~> Ended(c) \/ c \notin up

\* "Peer connection timeout handling" (client/README_CLIENT.md:497): a peer
\* that does not answer is not waited for for ever.
RequestsEnd ==
    \A c, s \in Clients : \A p \in Pieces :
        LET Waits == \E t \in tasks : /\ t.by = c /\ t.from = s /\ t.piece = p
                                      /\ t.at \in Waiting
        IN  Waits ~> ~Waits
=============================================================================
