---------------------------- MODULE SwarmProofs -----------------------------
(***************************************************************************)
(* Proofs about Swarm, for any finite sets of clients and pieces, any size *)
(* of pool and backlog and any number of downloads.  Liveness (OneWayEnds) *)
(* is left to TLC.                                                         *)
(*                                                                         *)
(* That no pool loses or doubles a slot (in TypeOK) needs the slots to be  *)
(* counted by the pieces and peers in them (SlotsCounted), and so that a   *)
(* piece is in one task of a download only (OneTaskPerPiece).  What is     *)
(* said of the destinations (DestOK) holds while they are read as well,    *)
(* and rests on who may write what: a piece of another file than its       *)
(* client's latest is among the strays (TaskOK).  That every seeder is     *)
(* tried needs an account of the good ones (NobodyMissed).                 *)
(* That the work runs out is shown of the steps each piece has before it   *)
(* (AllTasks, StepTaken), and that only a circle stops everybody from the  *)
(* count of the slots again.                                               *)
(***************************************************************************)
EXTENDS Swarm, FiniteSetTheorems, FunctionTheorems, TLAPS

SameKey(t, u) == t.by = u.by /\ t.gen = u.gen /\ t.piece = u.piece

OneTaskPerPiece == \A t, u \in tasks : SameKey(t, u) => t = u

\* What holds of a piece, whatever the others do.
TaskOK(t) ==
    /\ t.gen <= gen[t.by]
    /\ t.gen = gen[t.by] => t.piece \notin todo[t.by]
    /\ t.by \notin t.left /\ t.from \notin t.left
    /\ t.at \in Waiting => t.from \in up
    /\ t.at \in Waiting \cup {"received"} => t.from # t.by
    /\ t.by \notin up => t.at \in Waiting
    /\ t.at \notin {"ok", "no"} /\ t.file # want[t.by] => t.piece \in stray[t.by]

TasksOK ==
    /\ IsFiniteSet(tasks)
    /\ \A t \in tasks : TaskOK(t)
    /\ OneTaskPerPiece
    /\ \A c \in Clients : /\ gen[c] <= started /\ c \notin offer[c]
                          /\ todo[c] # {} => want[c] \in Files

\* A piece takes a slot of the client that downloads it, and of the one that
\* serves it.
Occupies(t, c) == t.by = c \/ (t.at = "served" /\ t.from = c)

Slots(c) == {t \in tasks : Occupies(t, c)}

SlotsCounted == \A c \in up : busy[c] = Cardinality(Slots(c))

\* Who may still give t what it asks for, or has.
Hope(t) ==
    t.left \cup (IF t.at \in Waiting \/ (t.at = "received" /\ t.read = "right")
                 THEN {t.from} ELSE {})

NoneMissed(t) ==
    t.gen = gen[t.by] /\ t.at \notin {"ok", "no"} =>
        offer[t.by] \cap sound \cap up \subseteq full \cup Hope(t)

NobodyMissed == \A t \in tasks : NoneMissed(t)

DownloadsNumbered == \A c \in Clients : phase[c] # "idle" => gen[c] # 0

\* The piece p of the destination is what c wants.
Has(c, p) == p \in DOMAIN dest[c] /\ dest[c][p] = want[c]

DestOK(c) ==
    /\ phase[c] # "idle" => dest[c] \in [Pieces -> Contents]
    /\ phase[c] = "hashing" => \A p \in Pieces \ (unread[c] \cup stray[c]) : Has(c, p)
    /\ phase[c] = "updating" \/ verdict[c] = "C" =>
           \A p \in Pieces \ stray[c] : Has(c, p)
    /\ \A p \in DOMAIN dest[c] : dest[c][p] # "wrong"

DestsOK == \A c \in Clients : DestOK(c)

Inv == TypeOK /\ TasksOK /\ DownloadsNumbered /\ SlotsCounted /\ DestsOK /\ NobodyMissed

USE SwarmAssumption DEF download

-----------------------------------------------------------------------------
(***************************************************************************)
(* Slots, when tasks are replaced, added and removed.                      *)
(***************************************************************************)
LEMMA SlotsType ==
    ASSUME Inv, NEW c \in Clients
    PROVE  IsFiniteSet(Slots(c)) /\ Cardinality(Slots(c)) \in Nat
<1>1. Slots(c) \in SUBSET tasks /\ IsFiniteSet(tasks)
  BY DEF Slots, Inv, TasksOK
<1> QED
  BY <1>1, FS_Subset, FS_CardinalityType

\* A slot that something is in is taken.
LEMMA SlotTaken ==
    ASSUME Inv, NEW t \in tasks, NEW c \in up, Occupies(t, c)
    PROVE  busy[c] \in 1..MaxThreads
<1>1. t \in Slots(c) /\ c \in Clients
  BY DEF Slots, Inv, TypeOK
<1>2. Cardinality(Slots(c)) # 0 /\ Cardinality(Slots(c)) \in Nat
  BY <1>1, SlotsType, FS_EmptySet
<1> QED
  BY <1>1, <1>2 DEF Inv, SlotsCounted, TypeOK

LEMMA SlotsReplaced ==
    ASSUME Inv, NEW t \in tasks, NEW u, SameKey(t, u), Replace(t, u),
           NEW c \in Clients
    PROVE  Cardinality(Slots(c)') =
               Cardinality(Slots(c)) + (IF Occupies(u, c) THEN 1 ELSE 0)
                                     - (IF Occupies(t, c) THEN 1 ELSE 0)
<1> DEFINE R == Slots(c) \ {t}
<1>1. u \notin R
  BY DEF Slots, Inv, TasksOK, OneTaskPerPiece, SameKey
<1>2. IsFiniteSet(Slots(c)) /\ Cardinality(Slots(c)) \in Nat
  BY SlotsType
<1>3. /\ IsFiniteSet(R)
      /\ Cardinality(R) = Cardinality(Slots(c)) - (IF Occupies(t, c) THEN 1 ELSE 0)
  <2>1. t \in Slots(c) <=> Occupies(t, c)
    BY DEF Slots
  <2> QED
    BY <1>2, <2>1, FS_RemoveElement
<1>4. Slots(c)' = IF Occupies(u, c) THEN R \cup {u} ELSE R
  BY DEF Slots, Replace, Occupies
<1>5. Cardinality(R \cup {u}) = Cardinality(R) + 1
  BY <1>1, <1>3, FS_AddElement
<1> HIDE DEF R
<1> QED
  BY <1>2, <1>3, <1>4, <1>5

LEMMA SlotsRemoved ==
    ASSUME Inv, NEW t \in tasks, tasks' = tasks \ {t}, NEW c \in Clients
    PROVE  Cardinality(Slots(c)') =
               Cardinality(Slots(c)) - (IF Occupies(t, c) THEN 1 ELSE 0)
<1>1. IsFiniteSet(Slots(c)) /\ Cardinality(Slots(c)) \in Nat
  BY SlotsType
<1>2. Slots(c)' = Slots(c) \ {t}
  BY DEF Slots, Occupies
<1>3. t \in Slots(c) <=> Occupies(t, c)
  BY DEF Slots
<1>4. Cardinality(Slots(c) \ {t}) = IF t \in Slots(c) THEN Cardinality(Slots(c)) - 1
                                     ELSE Cardinality(Slots(c))
  BY <1>1, FS_RemoveElement
<1> QED
  BY <1>1, <1>2, <1>3, <1>4

LEMMA SlotsAdded ==
    ASSUME Inv, NEW u, u \notin tasks, tasks' = tasks \cup {u}, NEW c \in Clients
    PROVE  Cardinality(Slots(c)') =
               Cardinality(Slots(c)) + (IF Occupies(u, c) THEN 1 ELSE 0)
<1>1. IsFiniteSet(Slots(c)) /\ Cardinality(Slots(c)) \in Nat /\ u \notin Slots(c)
  BY SlotsType DEF Slots
<1>2. Slots(c)' = IF Occupies(u, c) THEN Slots(c) \cup {u} ELSE Slots(c)
  BY DEF Slots, Occupies
<1>3. Cardinality(Slots(c) \cup {u}) = Cardinality(Slots(c)) + 1
  BY <1>1, FS_AddElement
<1> QED
  BY <1>1, <1>2, <1>3

-----------------------------------------------------------------------------
(***************************************************************************)
(* The parts of Inv, when one task changes and the downloads do not.       *)
(***************************************************************************)
LEMMA TaskReplaced ==
    ASSUME Inv, NEW t \in tasks, NEW u \in Tasks, SameKey(t, u), Replace(t, u),
           UNCHANGED <<up, sound, download, todo>>, full \subseteq full',
           TaskOK(u), NoneMissed(u)'
    PROVE  TasksOK' /\ NobodyMissed' /\ tasks' \subseteq Tasks
<1>1. IsFiniteSet(tasks')
  BY FS_RemoveElement, FS_AddElement DEF Inv, TasksOK, Replace
<1>2. \A x \in tasks' : TaskOK(x)'
  BY DEF Replace, Inv, TasksOK, TaskOK
<1>3. OneTaskPerPiece'
  BY DEF Replace, Inv, TasksOK, OneTaskPerPiece, SameKey
<1>4. \A x \in tasks' : NoneMissed(x)'
  <2> TAKE x \in tasks'
  <2>1. CASE x = u
    BY <2>1
  <2>2. CASE x \in tasks
    BY <2>2 DEF Inv, NobodyMissed, NoneMissed, Hope
  <2> QED
    BY <2>1, <2>2 DEF Replace
<1> QED
  BY <1>1, <1>2, <1>3, <1>4 DEF Inv, TasksOK, NobodyMissed, Replace, TypeOK

LEMMA TaskRemoved ==
    ASSUME Inv, NEW t \in tasks, tasks' = tasks \ {t},
           UNCHANGED <<up, sound, full, download, todo>>
    PROVE  TasksOK' /\ NobodyMissed' /\ tasks' \subseteq Tasks
<1>1. IsFiniteSet(tasks')
  BY FS_RemoveElement DEF Inv, TasksOK
<1> QED
  BY <1>1 DEF Inv, TasksOK, TaskOK, OneTaskPerPiece, NobodyMissed, NoneMissed, Hope,
              TypeOK

-----------------------------------------------------------------------------
(***************************************************************************)
(* The download thread.                                                    *)
(***************************************************************************)
\* Steps that leave the pools and the seeders alone.
LEMMA PoolsUntouched ==
    ASSUME Inv, UNCHANGED <<up, sound, full, download, todo, busy, tasks>>
    PROVE  TasksOK' /\ SlotsCounted' /\ NobodyMissed'
BY DEF Inv, TasksOK, TaskOK, OneTaskPerPiece, SlotsCounted, Slots, Occupies,
       NobodyMissed, NoneMissed, Hope

\* What is known of a download.
LEMMA DownloadFacts ==
    ASSUME Inv, NEW c \in Clients
    PROVE  /\ gen[c] <= started /\ c \notin offer[c]
           /\ todo[c] # {} => want[c] \in Files
           /\ busy[c] \in 0..MaxThreads
<1>1. TasksOK /\ TypeOK
  BY DEF Inv
<1>2. gen[c] <= started /\ c \notin offer[c] /\ (todo[c] # {} => want[c] \in Files)
  BY <1>1 DEF TasksOK
<1>3. busy[c] \in 0..MaxThreads
  BY <1>1 DEF TypeOK
<1> QED
  BY <1>2, <1>3

\* A new download: no piece of it is in a slot yet.
LEMMA NewTaskParts ==
    ASSUME Inv, NEW c \in Clients, NewTask(c),
           \A d \in Clients \ {c} : /\ offer'[d] = offer[d] /\ todo'[d] = todo[d]
                                    /\ want'[d] = want[d] /\ stray'[d] = stray[d],
           c \notin offer'[c], todo'[c] # {} => want'[c] \in Files,
           \A t \in tasks : t.by = c /\ t.at \notin {"ok", "no"} /\ t.file # want'[c] =>
               t.piece \in stray'[c]
    PROVE  /\ TasksOK' /\ SlotsCounted' /\ NobodyMissed'
           /\ started' \in 0..MaxDownloads /\ gen' \in [Clients -> 0..MaxDownloads]
           /\ gen'[c] # gen[c] /\ gen'[c] # 0 /\ started' # started
           /\ verdict' \in [Clients -> {"none", "F", "C"}] /\ verdict'[c] = "none"
           /\ \A d \in Clients \ {c} : verdict'[d] = verdict[d]
           /\ failed' \in [Clients -> SUBSET Pieces]
           /\ \A d \in Clients \ {c} : gen'[d] = gen[d]
<1> USE DEF NewTask
<1>1. /\ started \in 0..MaxDownloads /\ gen \in [Clients -> 0..MaxDownloads]
      /\ \A d \in Clients : gen[d] <= started
      /\ \A t \in tasks : t.by \in Clients /\ t.gen \in 1..MaxDownloads
  BY DownloadFacts DEF Inv, TypeOK, Tasks
<1>2. /\ started' = started + 1 /\ started' \in 0..MaxDownloads
      /\ gen' \in [Clients -> 0..MaxDownloads] /\ gen'[c] = started + 1
      /\ \A d \in Clients \ {c} : gen'[d] = gen[d]
  BY <1>1
<1>3. \A t \in tasks : t.by = c => t.gen < gen'[c]
  BY <1>1, <1>2 DEF Inv, TasksOK, TaskOK
<1>4. \A t \in tasks : TaskOK(t)' /\ NoneMissed(t)'
  <2> TAKE t \in tasks
  <2>1. TaskOK(t) /\ NoneMissed(t)
    BY DEF Inv, TasksOK, NobodyMissed
  <2>2. CASE t.by = c
    BY <1>1, <1>2, <1>3, <2>1, <2>2 DEF TaskOK, NoneMissed
  <2>3. CASE t.by # c
    BY <1>1, <1>2, <2>1, <2>3 DEF TaskOK, NoneMissed, Hope
  <2> QED
    BY <2>2, <2>3
<1>5. TasksOK'
  <2>1. \A d \in Clients : /\ gen'[d] <= started' /\ d \notin offer'[d]
                           /\ todo'[d] # {} => want'[d] \in Files
    BY <1>1, <1>2 DEF Inv, TasksOK
  <2> QED
    BY <1>4, <2>1 DEF Inv, TasksOK, OneTaskPerPiece
<1>6. SlotsCounted'
  BY DEF Inv, SlotsCounted, Slots, Occupies
<1>7. NobodyMissed'
  BY <1>4 DEF NobodyMissed
<1>8. /\ verdict' \in [Clients -> {"none", "F", "C"}] /\ verdict'[c] = "none"
      /\ \A d \in Clients \ {c} : verdict'[d] = verdict[d]
      /\ failed' \in [Clients -> SUBSET Pieces]
  BY DEF Decide, Inv, TypeOK
<1> QED
  BY <1>1, <1>2, <1>5, <1>6, <1>7, <1>8

LEMMA FillType ==
    ASSUME NEW x \in Contents
    PROVE  Filled(x) \in [Pieces -> Contents] /\ \A p \in DOMAIN Filled(x) : Filled(x)[p] = x
BY DEF Filled

\* Where f is, create_file leaves it; elsewhere it may cut.
LEMMA CreateParts ==
    ASSUME Inv, NEW c \in Clients, NEW f \in Files \cup {NoFile}, Create(c, f)
    PROVE  /\ dest' \in [Clients -> [Pieces -> Contents] \cup {Absent}]
           /\ dest'[c] \in [Pieces -> Contents]
           /\ \A p \in Pieces : dest'[c][p] # "wrong"
           /\ \A p \in Pieces : p \in DOMAIN dest[c] /\ dest[c][p] = f => dest'[c][p] = f
           /\ \A d \in Clients \ {c} : dest'[d] = dest[d]
<1>1. dest \in [Clients -> [Pieces -> Contents] \cup {Absent}]
  BY DEF Inv, TypeOK
<1>2. \A p \in DOMAIN dest[c] : dest[c][p] # "wrong"
  BY DEF Inv, DestsOK, DestOK
<1>3. CASE dest[c] = Absent
  <2>1. Filled("other") \in [Pieces -> Contents]
        /\ \A p \in Pieces : Filled("other")[p] = "other"
    BY FillType DEF Contents, Filled
  <2>2. dest' = [dest EXCEPT ![c] = Filled("other")]
    BY <1>3 DEF Create, Put
  <2>3. DOMAIN dest[c] = {}
    BY <1>3 DEF Absent
  <2> QED
    BY <1>1, <2>1, <2>2, <2>3
<1>4. CASE dest[c] # Absent
  <2>1. dest[c] \in [Pieces -> Contents]
    BY <1>1, <1>4
  <2>2. PICK d \in [Pieces -> Contents] :
           /\ \A p \in Pieces :
                 IF dest[c][p] = f THEN d[p] = f ELSE d[p] \in Cut(dest[c][p])
           /\ dest' = [dest EXCEPT ![c] = d]
    BY <1>4 DEF Create, Put
  <2>3. \A p \in Pieces : d[p] # "wrong"
    BY <1>2, <2>1, <2>2 DEF Cut, NoFile
  <2> QED
    BY <1>1, <2>1, <2>2, <2>3
<1> QED
  BY <1>3, <1>4

\* A download that goes on with the FileInfo of f, or with the default one.
LEMMA OfferedInv ==
    ASSUME Inv, NEW c \in Clients, NEW f \in Files \cup {NoFile},
           NEW S \in SUBSET (Clients \ {c}), NEW P \in SUBSET Pieces,
           P # {} => f \in Files, NewTask(c), Offered(c, f, S, P), Create(c, f)
    PROVE  /\ Inv' /\ gen'[c] # gen[c] /\ started' # started
           /\ want'[c] = f
           /\ \A p \in Pieces : Has(c, p) /\ want[c] = f => Has(c, p)'
           /\ \A d \in Clients \ {c} : dest'[d] = dest[d] /\ stray'[d] = stray[d]
<1> DEFINE strays == {t.piece : t \in {u \in tasks : /\ u.by = c /\ u.file # f
                                                     /\ u.at \notin {"ok", "no"}}}
<1>1. /\ offer \in [Clients -> SUBSET Clients] /\ todo \in [Clients -> SUBSET Pieces]
      /\ want \in [Clients -> Files \cup {NoFile}] /\ stray \in [Clients -> SUBSET Pieces]
      /\ phase \in [Clients -> Phases] /\ \A t \in tasks : t.piece \in Pieces
      /\ tasks \subseteq Tasks
  BY DEF Inv, TypeOK, Tasks
<1>2. /\ offer' = [offer EXCEPT ![c] = S] /\ todo' = [todo EXCEPT ![c] = P]
      /\ want' = [want EXCEPT ![c] = f] /\ stray' = [stray EXCEPT ![c] = strays]
      /\ phase' = [phase EXCEPT ![c] = "assigning"]
      /\ UNCHANGED <<up, sound, full, unread, busy, tasks>>
  BY DEF Offered, Goto, NewTask
<1>3. strays \in SUBSET Pieces
  BY <1>1
<1>4. \A t \in tasks : t.by = c /\ t.at \notin {"ok", "no"} /\ t.file # f => t.piece \in strays
  OBVIOUS
<1> HIDE DEF strays
<1>5. /\ offer' \in [Clients -> SUBSET Clients] /\ todo' \in [Clients -> SUBSET Pieces]
      /\ want' \in [Clients -> Files \cup {NoFile}] /\ stray' \in [Clients -> SUBSET Pieces]
      /\ phase' \in [Clients -> Phases] /\ phase'[c] = "assigning"
      /\ offer'[c] = S /\ todo'[c] = P /\ want'[c] = f /\ stray'[c] = strays
      /\ \A d \in Clients \ {c} : /\ offer'[d] = offer[d] /\ todo'[d] = todo[d]
                                  /\ want'[d] = want[d] /\ stray'[d] = stray[d]
                                  /\ phase'[d] = phase[d]
  BY <1>1, <1>2, <1>3 DEF Phases
<1>6. /\ TasksOK' /\ SlotsCounted' /\ NobodyMissed'
      /\ started' \in 0..MaxDownloads /\ gen' \in [Clients -> 0..MaxDownloads]
      /\ gen'[c] # gen[c] /\ gen'[c] # 0 /\ started' # started
      /\ verdict' \in [Clients -> {"none", "F", "C"}] /\ verdict'[c] = "none"
      /\ \A d \in Clients \ {c} : verdict'[d] = verdict[d] /\ gen'[d] = gen[d]
      /\ failed' \in [Clients -> SUBSET Pieces]
  BY <1>4, <1>5, NewTaskParts
<1>7. /\ dest' \in [Clients -> [Pieces -> Contents] \cup {Absent}]
      /\ dest'[c] \in [Pieces -> Contents]
      /\ \A p \in Pieces : dest'[c][p] # "wrong"
      /\ \A p \in Pieces : p \in DOMAIN dest[c] /\ dest[c][p] = f => dest'[c][p] = f
      /\ \A d \in Clients \ {c} : dest'[d] = dest[d]
  BY CreateParts
<1>8. TypeOK'
  BY <1>2, <1>5, <1>6, <1>7 DEF Inv, TypeOK
<1>9. DestsOK'
  <2>1. DestOK(c)'
    BY <1>5, <1>6, <1>7 DEF DestOK
  <2>2. \A d \in Clients \ {c} : DestOK(d)'
    BY <1>2, <1>5, <1>6, <1>7 DEF Inv, DestsOK, DestOK, Has
  <2> QED
    BY <2>1, <2>2 DEF DestsOK
<1>10. DownloadsNumbered'
  BY <1>5, <1>6 DEF Inv, DownloadsNumbered
<1> QED
  BY <1>5, <1>6, <1>7, <1>8, <1>9, <1>10 DEF Inv, Has

\* Every new download that has a FileInfo is one of these.
LEMMA StartInv ==
    ASSUME Inv, NEW c \in Clients, StartDownload(c) \/ VanishedOffer(c)
    PROVE  /\ Inv' /\ gen'[c] # gen[c] /\ started' # started
           /\ \A p \in Pieces : Has(c, p) /\ want'[c] = want[c] => Has(c, p)'
           /\ \A d \in Clients \ {c} : dest'[d] = dest[d] /\ stray'[d] = stray[d]
<1>1. PICK f \in Files \cup {NoFile}, S \in SUBSET (Clients \ {c}), P \in SUBSET Pieces :
         /\ P # {} => f \in Files
         /\ NewTask(c) /\ Offered(c, f, S, P) /\ Create(c, f)
  BY DEF StartDownload, VanishedOffer
<1> QED
  BY <1>1, OfferedInv

LEMMA AbandonInv ==
    ASSUME Inv, NEW c \in Clients, Abandon(c)
    PROVE  /\ Inv' /\ gen'[c] # gen[c] /\ started' # started
           /\ dest'[c] = dest[c] \/ (dest[c] = Absent /\ dest'[c] = Filled("other"))
           /\ \A d \in Clients \ {c} : dest'[d] = dest[d]
           /\ UNCHANGED <<want, stray>>
<1>1. /\ NewTask(c) /\ UNCHANGED <<phase, offer, want, todo, stray>>
      /\ \/ UNCHANGED dest
         \/ dest[c] = Absent /\ dest' = [dest EXCEPT ![c] = Filled("other")]
  BY DEF Abandon, Put
<1>2. /\ dest \in [Clients -> [Pieces -> Contents] \cup {Absent}] /\ c \notin offer[c]
      /\ todo[c] # {} => want[c] \in Files
      /\ \A t \in tasks : t.by = c /\ t.at \notin {"ok", "no"} /\ t.file # want[c] =>
             t.piece \in stray[c]
  <2>1. dest \in [Clients -> [Pieces -> Contents] \cup {Absent}]
    BY DEF Inv, TypeOK
  <2>2. \A t \in tasks : TaskOK(t)
    BY DEF Inv, TasksOK
  <2> QED
    BY <2>1, <2>2, DownloadFacts DEF TaskOK
<1>3. /\ TasksOK' /\ SlotsCounted' /\ NobodyMissed'
      /\ started' \in 0..MaxDownloads /\ gen' \in [Clients -> 0..MaxDownloads]
      /\ gen'[c] # gen[c] /\ gen'[c] # 0 /\ started' # started
      /\ verdict' \in [Clients -> {"none", "F", "C"}] /\ verdict'[c] = "none"
      /\ \A d \in Clients \ {c} : verdict'[d] = verdict[d] /\ gen'[d] = gen[d]
      /\ failed' \in [Clients -> SUBSET Pieces]
  BY <1>1, <1>2, NewTaskParts
<1>4. Filled("other") \in [Pieces -> Contents]
      /\ \A p \in DOMAIN Filled("other") : Filled("other")[p] = "other"
  BY FillType DEF Contents
<1>5. /\ dest' \in [Clients -> [Pieces -> Contents] \cup {Absent}]
      /\ dest'[c] = dest[c] \/ (dest[c] = Absent /\ dest'[c] = Filled("other"))
      /\ \A d \in Clients \ {c} : dest'[d] = dest[d]
  <2>1. CASE UNCHANGED dest
    BY <1>2, <2>1
  <2>2. CASE dest[c] = Absent /\ dest' = [dest EXCEPT ![c] = Filled("other")]
    BY <1>2, <1>4, <2>2
  <2> QED
    BY <1>1, <2>1, <2>2
<1>6. TypeOK'
  BY <1>1, <1>3, <1>5 DEF NewTask, Inv, TypeOK
<1>7. DestsOK'
  <2>1. phase[c] = "idle" /\ phase' = phase /\ unread' = unread
    BY <1>1 DEF NewTask, At
  <2>2. DestOK(c)'
    BY <1>3, <1>4, <1>5, <2>1 DEF Inv, DestsOK, DestOK
  <2>3. ASSUME NEW d \in Clients \ {c}
        PROVE  DestOK(d)'
    <3>1. DestOK(d) /\ dest'[d] = dest[d] /\ verdict'[d] = verdict[d]
          /\ UNCHANGED <<want, stray>>
      BY <1>1, <1>3, <1>5 DEF Inv, DestsOK
    <3> QED
      BY <2>1, <3>1 DEF DestOK, Has
  <2> QED
    BY <2>2, <2>3 DEF DestsOK
<1>8. DownloadsNumbered'
  BY <1>1, <1>3 DEF Inv, DownloadsNumbered
<1> QED
  BY <1>1, <1>3, <1>5, <1>6, <1>7, <1>8 DEF Inv

\* The steps between the last assignment and the report.
LEMMA JudgeInv ==
    ASSUME Inv, NEW c \in Clients,
           \/ JoinAllThreads(c) \/ CheckResults(c) \/ HashPiece(c) \/ CheckHash(c)
           \/ UpdateFileInfo(c)
    PROVE  /\ Inv' /\ UNCHANGED <<gen, want, stray>>
           /\ dest'[c] = dest[c] \/ (verdict'[c] = "F" /\ dest'[c] = Absent)
           /\ \A d \in Clients \ {c} : dest'[d] = dest[d]
<1> USE DEF JoinAllThreads, CheckResults, HashPiece, CheckHash, UpdateFileInfo, Decide, Put,
            Goto
<1>1. /\ verdict \in [Clients -> {"none", "F", "C"}]
      /\ phase \in [Clients -> Phases]
      /\ dest \in [Clients -> [Pieces -> Contents] \cup {Absent}]
      /\ failed \in [Clients -> SUBSET Pieces] /\ unread \in [Clients -> SUBSET Pieces]
  BY DEF Inv, TypeOK
<1>2. UNCHANGED <<up, sound, full, download, todo, busy, tasks>>
  OBVIOUS
<1>3. TasksOK' /\ SlotsCounted' /\ NobodyMissed'
  BY <1>2, PoolsUntouched
<1>4. \/ UNCHANGED dest
      \/ /\ dest' = [dest EXCEPT ![c] = Absent] /\ verdict' = [verdict EXCEPT ![c] = "F"]
         /\ phase' = [phase EXCEPT ![c] = "idle"]
  OBVIOUS
<1>5. /\ \E x \in Phases : phase' \in {phase, [phase EXCEPT ![c] = x]}
      /\ \E v \in {"F", "C"} : verdict' \in {verdict, [verdict EXCEPT ![c] = v]}
      /\ failed' \in {failed, [failed EXCEPT ![c] = {}]}
      /\ \E U \in SUBSET Pieces : unread' \in {unread, [unread EXCEPT ![c] = U]}
  <2>1. \A p : unread[c] \ {p} \in SUBSET Pieces
    BY <1>1
  <2> QED
    BY <2>1 DEF Phases
<1>6. phase[c] # "idle"
  BY DEF At
<1>7. dest[c] \in [Pieces -> Contents] /\ DestOK(c)
  BY <1>6 DEF Inv, DestsOK, DestOK
<1>8. phase'[c] = "hashing" => \A p \in Pieces \ (unread'[c] \cup stray[c]) : Has(c, p)
  <2>1. CASE JoinAllThreads(c) \/ CheckHash(c) \/ UpdateFileInfo(c)
    BY <1>1, <2>1 DEF At
  <2>2. CASE CheckResults(c)
    <3>1. phase'[c] = "hashing" => unread'[c] = Pieces
      BY <1>1, <2>2 DEF At
    <3> QED
      BY <3>1
  <2>3. CASE HashPiece(c)
    <3>1. PICK p \in unread[c] :
             \/ /\ dest[c][p] = want[c] /\ unread' = [unread EXCEPT ![c] = @ \ {p}]
                /\ UNCHANGED phase
             \/ phase' = [phase EXCEPT ![c] = "differs"]
      BY <2>3
    <3>2. CASE phase' = [phase EXCEPT ![c] = "differs"]
      BY <1>1, <3>2
    <3>3. CASE dest[c][p] = want[c] /\ unread' = [unread EXCEPT ![c] = @ \ {p}]
      <4>1. Has(c, p) /\ unread'[c] = unread[c] \ {p} /\ phase[c] = "hashing"
        BY <1>1, <1>7, <2>3, <3>3 DEF Has, At
      <4> QED
        BY <1>7, <4>1 DEF DestOK
    <3> QED
      BY <3>1, <3>2, <3>3
  <2> QED
    BY <2>1, <2>2, <2>3
<1>9. phase'[c] = "updating" \/ verdict'[c] = "C" =>
         \A p \in Pieces \ stray[c] : Has(c, p)
  <2>1. CASE phase[c] = "updating" \/ verdict[c] = "C"
    BY <1>7, <2>1 DEF DestOK
  <2>2. CASE ~(phase[c] = "updating" \/ verdict[c] = "C")
    <3>1. phase'[c] = "updating" \/ verdict'[c] = "C" =>
             phase[c] = "hashing" /\ unread[c] = {}
      BY <1>1, <2>2 DEF At
    <3> QED
      BY <1>7, <3>1 DEF DestOK
  <2> QED
    BY <2>1, <2>2
<1> HIDE DEF JoinAllThreads, CheckResults, HashPiece, CheckHash, UpdateFileInfo
<1>10. TypeOK'
  <2>1. /\ phase' \in [Clients -> Phases] /\ failed' \in [Clients -> SUBSET Pieces]
        /\ verdict' \in [Clients -> {"none", "F", "C"}]
        /\ unread' \in [Clients -> SUBSET Pieces]
        /\ dest' \in [Clients -> [Pieces -> Contents] \cup {Absent}]
    BY <1>1, <1>4, <1>5
  <2> QED
    BY <1>2, <2>1 DEF Inv, TypeOK
<1>11. DestsOK'
  <2>1. \A d \in Clients \ {c} : dest'[d] = dest[d] /\ verdict'[d] = verdict[d]
                                 /\ phase'[d] = phase[d] /\ unread'[d] = unread[d]
    BY <1>1, <1>4, <1>5
  <2>2. \A d \in Clients \ {c} : DestOK(d)'
    BY <1>2, <2>1 DEF Inv, DestsOK, DestOK, Has
  <2>3. CASE UNCHANGED dest
    <3>1. UNCHANGED <<want, stray>>
      BY <1>2
    <3>2. \A p : Has(c, p)' = Has(c, p)
      BY <2>3, <3>1 DEF Has
    <3>3. DestOK(c)'
      BY <1>7, <1>8, <1>9, <2>3, <3>1, <3>2 DEF DestOK
    <3> QED
      BY <2>2, <3>3 DEF DestsOK
  <2>4. CASE dest'[c] = Absent /\ verdict'[c] = "F" /\ phase'[c] = "idle"
    <3>1. DestOK(c)'
      BY <2>4 DEF DestOK, Absent
    <3> QED
      BY <2>2, <3>1 DEF DestsOK
  <2> QED
    BY <1>1, <1>4, <2>3, <2>4
<1>12. DownloadsNumbered'
  BY <1>1, <1>2, <1>5, <1>6 DEF Inv, DownloadsNumbered
<1>13. /\ dest'[c] = dest[c] \/ (verdict'[c] = "F" /\ dest'[c] = Absent)
       /\ \A d \in Clients \ {c} : dest'[d] = dest[d]
  BY <1>1, <1>4
<1> QED
  BY <1>2, <1>3, <1>10, <1>11, <1>12, <1>13 DEF Inv

\* The piece that is assigned gets a slot of its own.
LEMMA AssignInv ==
    ASSUME Inv, NEW c \in Clients, NEW p \in Pieces, AssignDownloadTask(c, p)
    PROVE  Inv'
<1> DEFINE u == Task(c, gen[c], want[c], p, "connect", offer[c])
<1> USE DEF AssignDownloadTask
<1>1. /\ tasks' = tasks \cup {u}
      /\ busy' = [busy EXCEPT ![c] = @ + 1] /\ busy[c] < MaxThreads
      /\ todo' = [todo EXCEPT ![c] = @ \ {p}] /\ p \in todo[c] /\ c \in up
      /\ UNCHANGED <<up, sound, full, download, phase, unread, failed, verdict, dest>>
  BY DEF At
<1> HIDE DEF AssignDownloadTask
<1>2. /\ u.by = c /\ u.gen = gen[c] /\ u.piece = p /\ u.at = "connect"
      /\ u.left = offer[c] /\ u.read = "wrong" /\ u.from = c /\ u.file = want[c]
  BY DEF Task
<1>3. /\ busy \in [Clients -> 0..MaxThreads] /\ todo \in [Clients -> SUBSET Pieces]
      /\ gen \in [Clients -> 0..MaxDownloads] /\ offer \in [Clients -> SUBSET Clients]
  BY DEF Inv, TypeOK
<1>4. \A x \in tasks : ~SameKey(x, u)
  BY <1>1, <1>2 DEF Inv, TasksOK, TaskOK, SameKey
<1>5. u \notin tasks
  BY <1>4 DEF SameKey
<1> HIDE DEF u
<1>6. \A d \in Clients : Cardinality(Slots(d)') =
         Cardinality(Slots(d)) + (IF d = c THEN 1 ELSE 0)
  BY <1>1, <1>2, <1>5, SlotsAdded DEF Occupies
<1>7. SlotsCounted'
  BY <1>1, <1>3, <1>6, SlotsType DEF Inv, SlotsCounted, TypeOK
<1>8. TasksOK'
  <2>1. IsFiniteSet(tasks')
    BY <1>1, FS_AddElement DEF Inv, TasksOK
  <2>2. \A x \in tasks' : TaskOK(x)'
    <3> TAKE x \in tasks'
    <3>1. CASE x \in tasks
      BY <1>1, <1>3, <3>1 DEF Inv, TasksOK, TaskOK, TypeOK, Tasks
    <3>2. CASE x = u
      BY <1>1, <1>2, <1>3, <3>2, DownloadFacts DEF TaskOK, Waiting
    <3> QED
      BY <1>1, <3>1, <3>2
  <2>3. OneTaskPerPiece'
    BY <1>1, <1>4 DEF Inv, TasksOK, OneTaskPerPiece, SameKey
  <2> QED
    BY <1>1, <1>3, <2>1, <2>2, <2>3 DEF Inv, TasksOK
<1>9. NobodyMissed'
  BY <1>1, <1>2 DEF Inv, NobodyMissed, NoneMissed, Hope
<1>10. gen[c] # 0 /\ DownloadsNumbered'
  BY <1>1 DEF Inv, DownloadsNumbered, AssignDownloadTask, At
<1>11. TypeOK'
  <2>1. u \in Tasks
    <3>1. gen[c] \in 1..MaxDownloads /\ want[c] \in Files
      BY <1>1, <1>3, <1>10, DownloadFacts
    <3> QED
      BY <1>3, <3>1 DEF u, Task, Tasks
  <2>2. busy' \in [Clients -> 0..MaxThreads] /\ todo' \in [Clients -> SUBSET Pieces]
    BY <1>1, <1>3
  <2> QED
    BY <1>1, <2>1, <2>2 DEF Inv, TypeOK
<1>12. DestsOK'
  BY <1>1 DEF Inv, DestsOK, DestOK, Has
<1> QED
  BY <1>7, <1>8, <1>9, <1>11, <1>12, <1>10 DEF Inv

-----------------------------------------------------------------------------
(***************************************************************************)
(* A piece, and who serves it.                                             *)
(***************************************************************************)
\* Only a right piece is written, and only into a file that is there.
Written(t) ==
    \/ UNCHANGED dest
    \/ /\ dest[t.by] # Absent /\ t.at \notin {"ok", "no"}
       /\ \E x \in Over(dest[t.by][t.piece], t.file) :
             dest' = [dest EXCEPT ![t.by] = [dest[t.by] EXCEPT ![t.piece] = x]]

LEMMA WrittenParts ==
    ASSUME Inv, NEW t \in tasks, Written(t), UNCHANGED <<phase, want, stray, unread, verdict>>
    PROVE  /\ dest' \in [Clients -> [Pieces -> Contents] \cup {Absent}]
           /\ DestsOK'
           /\ \A c \in Clients :
                 /\ \A p \in Pieces \ stray[c] : Has(c, p) => Has(c, p)'
                 /\ dest[c] = Absent => dest'[c] = Absent
<1>1. /\ dest \in [Clients -> [Pieces -> Contents] \cup {Absent}]
      /\ t.by \in Clients /\ t.piece \in Pieces /\ t.file \in Files
  BY DEF Inv, TypeOK, Tasks
<1>2. CASE UNCHANGED dest
  BY <1>1, <1>2 DEF Inv, DestsOK, DestOK, Has
<1>3. ASSUME dest[t.by] # Absent, t.at \notin {"ok", "no"},
             NEW x \in Over(dest[t.by][t.piece], t.file),
             dest' = [dest EXCEPT ![t.by] = [dest[t.by] EXCEPT ![t.piece] = x]]
      PROVE  /\ dest' \in [Clients -> [Pieces -> Contents] \cup {Absent}]
             /\ DestsOK'
             /\ \A c \in Clients :
                   /\ \A p \in Pieces \ stray[c] : Has(c, p) => Has(c, p)'
                   /\ dest[c] = Absent => dest'[c] = Absent
  <2>1. /\ dest[t.by] \in [Pieces -> Contents]
        /\ dest'[t.by] = [dest[t.by] EXCEPT ![t.piece] = x]
        /\ \A c \in Clients \ {t.by} : dest'[c] = dest[c]
    BY <1>1, <1>3
  <2>2. x \in {t.file, "mixed"} /\ x \in Contents /\ x # "wrong"
        /\ (dest[t.by][t.piece] = t.file => x = t.file)
    BY <1>1, <1>3 DEF Over, Contents
  <2>3. dest'[t.by] \in [Pieces -> Contents]
    BY <2>1, <2>2
  <2>4. dest' \in [Clients -> [Pieces -> Contents] \cup {Absent}]
    BY <1>1, <1>3, <2>1, <2>3
  <2>5. dest'[t.by] = [p \in Pieces |-> IF p = t.piece THEN x ELSE dest[t.by][p]]
    BY <2>1
  <2>6. t.piece \notin stray[t.by] => t.file = want[t.by]
    BY <1>3 DEF Inv, TasksOK, TaskOK
  <2>7. \A p \in Pieces \ stray[t.by] : Has(t.by, p) => Has(t.by, p)'
    BY <1>1, <2>1, <2>2, <2>5, <2>6 DEF Has
  <2>8. DestOK(t.by)'
    <3>1. DestOK(t.by)
      BY <1>1 DEF Inv, DestsOK
    <3>2. \A p \in DOMAIN dest'[t.by] : dest'[t.by][p] # "wrong"
      BY <2>1, <2>2, <2>5, <3>1 DEF DestOK
    <3> QED
      BY <2>3, <2>7, <3>1, <3>2 DEF DestOK
  <2>9. \A c \in Clients \ {t.by} : DestOK(c)'
    BY <2>1 DEF Inv, DestsOK, DestOK, Has
  <2> QED
    BY <1>3, <2>1, <2>4, <2>7, <2>8, <2>9 DEF DestsOK, Has
<1> QED
  BY <1>2, <1>3 DEF Written

\* The slots of t are given back and those of u taken.
Exchanged(t, u) ==
    /\ busy' \in [Clients -> 0..MaxThreads]
    /\ \A c \in up : busy'[c] = busy[c] + (IF Occupies(u, c) THEN 1 ELSE 0)
                                        - (IF Occupies(t, c) THEN 1 ELSE 0)

LEMMA ReplaceInv ==
    ASSUME Inv, NEW t \in tasks, NEW u \in Tasks, SameKey(t, u), Replace(t, u),
           UNCHANGED <<up, sound, download, phase, todo, unread, failed, verdict>>,
           full \subseteq full', full' \subseteq Clients,
           TaskOK(u), NoneMissed(u)', Exchanged(t, u), Written(t)
    PROVE  Inv'
<1>1. TasksOK' /\ NobodyMissed' /\ tasks' \subseteq Tasks
  BY TaskReplaced
<1>2. /\ dest' \in [Clients -> [Pieces -> Contents] \cup {Absent}]
      /\ DestsOK'
  BY WrittenParts
<1>3. SlotsCounted'
  <2> SUFFICES ASSUME NEW c \in up
               PROVE  busy'[c] = Cardinality(Slots(c)')
    BY DEF SlotsCounted
  <2>1. c \in Clients /\ busy[c] = Cardinality(Slots(c))
    BY DEF Inv, TypeOK, SlotsCounted
  <2> QED
    BY <2>1, SlotsReplaced DEF Exchanged
<1>4. TypeOK'
  BY <1>1, <1>2 DEF Inv, TypeOK, Exchanged
<1>5. DownloadsNumbered'
  BY DEF Inv, DownloadsNumbered
<1> QED
  BY <1>1, <1>2, <1>3, <1>4, <1>5 DEF Inv

LEMMA ClosedType ==
    ASSUME Inv, NEW t \in tasks, NEW at \in Waiting \cup {"connect", "received", "ok", "no"},
           NEW left \in SUBSET Clients
    PROVE  /\ Closed(t, at, left) \in Tasks /\ SameKey(t, Closed(t, at, left))
           /\ Closed(t, at, left).at = at /\ Closed(t, at, left).left = left
           /\ Closed(t, at, left).by = t.by /\ Closed(t, at, left).gen = t.gen
           /\ Closed(t, at, left).piece = t.piece /\ Closed(t, at, left).from = t.by
           /\ Closed(t, at, left).file = t.file
BY DEF Inv, TypeOK, Tasks, Closed, Task, SameKey

\* What is known of a piece.
LEMMA TaskFacts ==
    ASSUME Inv, NEW t \in tasks
    PROVE  t \in Tasks /\ TaskOK(t) /\ NoneMissed(t)
BY DEF Inv, TypeOK, TasksOK, NobodyMissed

LEMMA ConnectInv ==
    ASSUME Inv, NEW t \in tasks, Connect(t)
    PROVE  Inv'
<1>1. /\ t \in Tasks /\ TaskOK(t) /\ NoneMissed(t) /\ t.at = "connect"
      /\ UNCHANGED <<up, sound, download, phase, todo, unread, failed, verdict, dest, busy>>
      /\ up \subseteq Clients /\ full \subseteq Clients
      /\ busy \in [Clients -> 0..MaxThreads]
  BY TaskFacts DEF Connect, Inv, TypeOK
<1>2. t.by \in up
  BY <1>1 DEF TaskOK, Waiting
<1>3. CASE GiveUp(t) /\ UNCHANGED full
  <2> DEFINE u == Closed(t, "no", {})
  <2>1. /\ u \in Tasks /\ SameKey(t, u) /\ u.at = "no" /\ u.left = {}
        /\ u.by = t.by /\ u.gen = t.gen /\ u.piece = t.piece /\ u.file = t.file /\ u.from = t.by
    BY ClosedType
  <2>2. TaskOK(u) /\ NoneMissed(u)'
    BY <1>1, <1>2, <2>1 DEF TaskOK, NoneMissed, Waiting
  <2>3. Exchanged(t, u)
    BY <1>1, <2>1 DEF Exchanged, Occupies
  <2> QED
    BY <1>1, <1>3, <2>1, <2>2, <2>3, ReplaceInv DEF GiveUp, Written
<1>4. ASSUME NEW s \in t.left, s \in up, UNCHANGED full,
             Replace(t, [t EXCEPT !.at = "queued", !.from = s, !.left = @ \ {s}])
      PROVE  Inv'
  <2> DEFINE u == [t EXCEPT !.at = "queued", !.from = s, !.left = @ \ {s}]
  <2>1. /\ u \in Tasks /\ SameKey(t, u) /\ u.at = "queued" /\ u.left = t.left \ {s}
        /\ u.by = t.by /\ u.gen = t.gen /\ u.piece = t.piece /\ u.file = t.file /\ u.from = s
    BY <1>1 DEF Tasks, Waiting, SameKey
  <2> HIDE DEF u
  <2>2. TaskOK(u) /\ NoneMissed(u)'
    BY <1>1, <1>4, <2>1 DEF TaskOK, NoneMissed, Hope, Waiting
  <2>3. Exchanged(t, u)
    BY <1>1, <2>1 DEF Exchanged, Occupies
  <2> QED
    BY <1>1, <1>4, <2>1, <2>2, <2>3, ReplaceInv DEF u, Written
<1>5. ASSUME NEW s \in t.left, s \in up => s \in full', full \subseteq full',
             full' \subseteq full \cup {s},
             Replace(t, [t EXCEPT !.left = @ \ {s}])
      PROVE  Inv'
  <2> DEFINE u == [t EXCEPT !.left = @ \ {s}]
  <2>1. /\ u \in Tasks /\ SameKey(t, u) /\ u.at = "connect" /\ u.left = t.left \ {s}
        /\ u.by = t.by /\ u.gen = t.gen /\ u.piece = t.piece /\ u.file = t.file /\ s \in Clients
        /\ u.from = t.from
    BY <1>1 DEF Tasks, Waiting, SameKey
  <2> HIDE DEF u
  <2>2. TaskOK(u) /\ NoneMissed(u)'
    BY <1>1, <1>2, <1>5, <2>1 DEF TaskOK, NoneMissed, Hope, Waiting
  <2>3. Exchanged(t, u)
    BY <1>1, <2>1 DEF Exchanged, Occupies
  <2> QED
    BY <1>1, <1>5, <2>1, <2>2, <2>3, ReplaceInv DEF u, Written
<1> QED
  BY <1>3, <1>4, <1>5 DEF Connect

\* Closing the connection of a piece that nobody serves moves no slot.
LEMMA ClosedExchanged ==
    ASSUME Inv, NEW t \in tasks, t.at # "served", UNCHANGED <<up, busy>>,
           NEW at \in {"connect", "ok", "no"}, NEW left \in SUBSET Clients
    PROVE  Exchanged(t, Closed(t, at, left))
<1>1. at \in Waiting \cup {"connect", "received", "ok", "no"}
  OBVIOUS
<1>2. Closed(t, at, left).at = at /\ Closed(t, at, left).by = t.by
  BY <1>1, ClosedType
<1>3. busy \in [Clients -> 0..MaxThreads] /\ up \subseteq Clients
  BY DEF Inv, TypeOK
<1> QED
  BY <1>2, <1>3 DEF Exchanged, Occupies

LEMMA WriteContentInv ==
    ASSUME Inv, NEW t \in tasks, WriteContent(t)
    PROVE  Inv' /\ Written(t)
<1>1. /\ t \in Tasks /\ TaskOK(t) /\ NoneMissed(t) /\ t.at = "received"
      /\ t.by \in up /\ t.left \in SUBSET Clients
      /\ UNCHANGED <<up, sound, full, download, phase, todo, unread, failed, verdict, busy>>
      /\ full \subseteq Clients
  BY TaskFacts DEF WriteContent, Inv, TypeOK, TaskOK, Waiting, Tasks
<1>2. Written(t)
  BY DEF WriteContent, Written, Put
<1>3. CASE t.read = "wrong" /\ Retry(t)
  <2> DEFINE u == Closed(t, "connect", t.left)
  <2>1. /\ u \in Tasks /\ SameKey(t, u) /\ u.at = "connect" /\ u.left = t.left
        /\ u.by = t.by /\ u.gen = t.gen /\ u.piece = t.piece /\ u.file = t.file /\ u.from = t.by
    BY <1>1, ClosedType
  <2>2. Exchanged(t, u)
    BY <1>1, ClosedExchanged
  <2>3. Replace(t, u)
    BY <1>3 DEF Retry
  <2> HIDE DEF u
  <2>4. TaskOK(u) /\ NoneMissed(u)'
    BY <1>1, <1>3, <2>1 DEF TaskOK, NoneMissed, Hope, Waiting
  <2> QED
    BY <1>1, <1>2, <2>1, <2>2, <2>3, <2>4, ReplaceInv
<1>4. ASSUME NEW at \in {"ok", "no"}, Replace(t, Closed(t, at, {}))
      PROVE  Inv'
  <2> DEFINE u == Closed(t, at, {})
  <2>1. /\ u \in Tasks /\ SameKey(t, u) /\ u.at = at /\ u.left = {}
        /\ u.by = t.by /\ u.gen = t.gen /\ u.piece = t.piece /\ u.file = t.file /\ u.from = t.by
    BY <1>1, ClosedType
  <2>2. Exchanged(t, u)
    BY <1>1, ClosedExchanged
  <2>3. Replace(t, u)
    BY <1>4
  <2> HIDE DEF u
  <2>4. TaskOK(u) /\ NoneMissed(u)'
    BY <1>1, <2>1 DEF TaskOK, NoneMissed, Waiting
  <2> QED
    BY <1>1, <1>2, <2>1, <2>2, <2>3, <2>4, ReplaceInv
<1> QED
  BY <1>2, <1>3, <1>4 DEF WriteContent, GiveUp, Succeed

LEMMA AssignTaskToThreadInv ==
    ASSUME Inv, NEW t \in tasks, AssignTaskToThread(t)
    PROVE  Inv'
<1> DEFINE u == [t EXCEPT !.at = "served"]
<1>1. /\ t \in Tasks /\ TaskOK(t) /\ NoneMissed(t) /\ t.at = "queued"
      /\ t.from \in up /\ t.from # t.by /\ t.from \in Clients
      /\ busy[t.from] < MaxThreads /\ busy' = [busy EXCEPT ![t.from] = @ + 1]
      /\ Replace(t, u)
      /\ UNCHANGED <<up, sound, full, download, phase, todo, unread, failed, verdict, dest>>
      /\ up \subseteq Clients /\ full \subseteq Clients
      /\ busy \in [Clients -> 0..MaxThreads]
  BY TaskFacts DEF AssignTaskToThread, Inv, TypeOK, TaskOK, Waiting, Tasks
<1>2. /\ u \in Tasks /\ SameKey(t, u) /\ u.at = "served" /\ u.left = t.left
      /\ u.by = t.by /\ u.gen = t.gen /\ u.piece = t.piece /\ u.file = t.file /\ u.from = t.from
  BY <1>1 DEF Tasks, Waiting, SameKey
<1> HIDE DEF u
<1>3. TaskOK(u) /\ NoneMissed(u)'
  BY <1>1, <1>2 DEF TaskOK, NoneMissed, Hope, Waiting
<1>4. Exchanged(t, u)
  BY <1>1, <1>2 DEF Exchanged, Occupies
<1> QED
  BY <1>1, <1>2, <1>3, <1>4, ReplaceInv DEF Written

LEMMA HandleClientInv ==
    ASSUME Inv, NEW t \in tasks, HandleClient(t)
    PROVE  Inv'
<1>0. PICK read \in {"right", "wrong"} :
         read = IF t.from \in sound THEN "right" ELSE "wrong"
  OBVIOUS
<1> DEFINE u == [t EXCEPT !.at = "received", !.read = read]
<1>1. /\ t \in Tasks /\ TaskOK(t) /\ NoneMissed(t) /\ t.at = "served"
      /\ t.from \in up /\ t.from # t.by /\ t.from \in Clients
      /\ busy' = [busy EXCEPT ![t.from] = @ - 1]
      /\ UNCHANGED <<up, sound, full, download, phase, todo, unread, failed, verdict, dest>>
      /\ up \subseteq Clients /\ full \subseteq Clients
      /\ busy \in [Clients -> 0..MaxThreads]
  BY TaskFacts DEF HandleClient, Inv, TypeOK, TaskOK, Waiting, Tasks
<1>2. busy[t.from] \in 1..MaxThreads
  BY <1>1, SlotTaken DEF Occupies
<1>3. busy' \in [Clients -> 0..MaxThreads]
  BY <1>1, <1>2
<1>4. IF t.by \in up THEN Replace(t, u) ELSE tasks' = tasks \ {t}
  BY <1>0 DEF HandleClient
<1>5. CASE t.by \in up
  <2>1. /\ u \in Tasks /\ SameKey(t, u) /\ u.at = "received" /\ u.left = t.left
        /\ u.by = t.by /\ u.gen = t.gen /\ u.piece = t.piece /\ u.file = t.file /\ u.from = t.from
        /\ t.from \in sound => u.read = "right"
    BY <1>0, <1>1 DEF Tasks, Waiting, SameKey
  <2>2. Replace(t, u)
    BY <1>4, <1>5
  <2> HIDE DEF u
  <2>3. TaskOK(u) /\ NoneMissed(u)'
    BY <1>1, <1>5, <2>1 DEF TaskOK, NoneMissed, Hope, Waiting
  <2>4. Exchanged(t, u)
    BY <1>1, <1>2, <1>3, <2>1 DEF Exchanged, Occupies
  <2> QED
    BY <1>1, <2>1, <2>2, <2>3, <2>4, ReplaceInv DEF Written
<1>6. CASE t.by \notin up
  <2>1. tasks' = tasks \ {t}
    BY <1>4, <1>6
  <2>2. TasksOK' /\ NobodyMissed' /\ tasks' \subseteq Tasks
    BY <1>1, <2>1, TaskRemoved
  <2>3. SlotsCounted'
    <3> SUFFICES ASSUME NEW c \in up
                 PROVE  busy'[c] = Cardinality(Slots(c)')
      BY <1>1 DEF SlotsCounted
    <3>1. c \in Clients /\ busy[c] = Cardinality(Slots(c)) /\ c # t.by
      BY <1>6 DEF Inv, TypeOK, SlotsCounted
    <3>2. Cardinality(Slots(c)') =
             Cardinality(Slots(c)) - (IF Occupies(t, c) THEN 1 ELSE 0)
      BY <2>1, <3>1, SlotsRemoved
    <3>3. Occupies(t, c) <=> c = t.from
      BY <1>1, <3>1 DEF Occupies
    <3> QED
      BY <1>1, <1>2, <3>1, <3>2, <3>3
  <2> QED
    BY <1>1, <1>3, <2>2, <2>3
       DEF Inv, TypeOK, DestsOK, DestOK, Has, DownloadsNumbered
<1> QED
  BY <1>5, <1>6

LEMMA RecordResultInv ==
    ASSUME Inv, NEW t \in tasks, RecordResult(t)
    PROVE  Inv'
<1>1. /\ t \in Tasks /\ TaskOK(t) /\ t.at \in {"ok", "no"}
      /\ t.by \in up /\ t.by \in Clients /\ t.piece \in Pieces
      /\ busy' = [busy EXCEPT ![t.by] = @ - 1] /\ tasks' = tasks \ {t} /\ Fail(t)
      /\ UNCHANGED <<up, sound, full, download, phase, todo, unread, verdict, dest>>
      /\ up \subseteq Clients
      /\ busy \in [Clients -> 0..MaxThreads] /\ failed \in [Clients -> SUBSET Pieces]
  BY TaskFacts DEF RecordResult, Inv, TypeOK, TaskOK, Waiting, Tasks
<1>2. busy[t.by] \in 1..MaxThreads
  BY <1>1, SlotTaken DEF Occupies
<1>3. busy' \in [Clients -> 0..MaxThreads] /\ failed' \in [Clients -> SUBSET Pieces]
  BY <1>1, <1>2 DEF Fail
<1>4. TasksOK' /\ NobodyMissed' /\ tasks' \subseteq Tasks
  BY <1>1, TaskRemoved
<1>5. SlotsCounted'
  <2> SUFFICES ASSUME NEW c \in up
               PROVE  busy'[c] = Cardinality(Slots(c)')
    BY <1>1 DEF SlotsCounted
  <2>1. c \in Clients /\ busy[c] = Cardinality(Slots(c))
    BY DEF Inv, TypeOK, SlotsCounted
  <2>2. Cardinality(Slots(c)') =
           Cardinality(Slots(c)) - (IF Occupies(t, c) THEN 1 ELSE 0)
    BY <1>1, <2>1, SlotsRemoved
  <2>3. Occupies(t, c) <=> c = t.by
    BY <1>1 DEF Occupies
  <2> QED
    BY <1>1, <1>2, <2>1, <2>2, <2>3
<1> QED
  BY <1>1, <1>3, <1>4, <1>5
     DEF Inv, TypeOK, DestsOK, DestOK, Has, DownloadsNumbered

-----------------------------------------------------------------------------
(***************************************************************************)
(* The end of a process: many pieces change at once.                       *)
(***************************************************************************)
LEMMA SameSize ==
    ASSUME NEW S, NEW T, IsFiniteSet(S), NEW f \in [S -> T],
           \A x, y \in S : f[x] = f[y] => x = y, \A z \in T : \E x \in S : f[x] = z
    PROVE  IsFiniteSet(T) /\ Cardinality(T) = Cardinality(S)
<1>1. f \in Injection(S, T)
  BY Fun_IsInj
<1>2. f \in Surjection(S, T)
  BY Fun_IsSurj
<1> QED
  BY <1>1, <1>2, FS_Surjection

\* The tasks that outlive c, and what becomes of them.
Kept(c) == {t \in tasks : (t.at \in Waiting /\ t.from # c) \/ t.by \in up \ {c}}

Moved(t, c) ==
    IF t.at \in Waiting /\ t.from = c THEN Closed(t, "connect", t.left) ELSE t

LEMMA MovedFacts ==
    ASSUME Inv, NEW c \in up, NEW t \in Kept(c), up' = up \ {c},
           todo' = [todo EXCEPT ![c] = {}], UNCHANGED <<sound, full, download>>
    PROVE  /\ Moved(t, c) \in Tasks /\ SameKey(t, Moved(t, c))
           /\ TaskOK(Moved(t, c))' /\ NoneMissed(Moved(t, c))'
           /\ \A d \in Clients \ {c} : Occupies(Moved(t, c), d) <=> Occupies(t, d)
<1>1. /\ t \in tasks /\ t \in Tasks /\ TaskOK(t) /\ NoneMissed(t)
      /\ (t.at \in Waiting /\ t.from # c) \/ t.by \in up \ {c}
      /\ t.by \in Clients /\ t.left \in SUBSET Clients
      /\ todo \in [Clients -> SUBSET Pieces] /\ c \in Clients
  BY TaskFacts DEF Kept, Tasks, Inv, TypeOK
<1>2. \A d \in Clients : todo'[d] \subseteq todo[d]
  BY <1>1
<1>3. CASE ~(t.at \in Waiting /\ t.from = c)
  <2>1. Moved(t, c) = t
    BY <1>3 DEF Moved
  <2>2. TaskOK(t)'
    BY <1>1, <1>2, <1>3 DEF TaskOK
  <2>3. NoneMissed(t)'
    BY <1>1 DEF NoneMissed, Hope
  <2> HIDE DEF Moved
  <2> QED
    BY <1>1, <2>1, <2>2, <2>3 DEF SameKey
<1>4. CASE t.at \in Waiting /\ t.from = c
  <2> DEFINE u == Closed(t, "connect", t.left)
  <2>1. /\ u \in Tasks /\ SameKey(t, u) /\ u.at = "connect" /\ u.left = t.left
        /\ u.by = t.by /\ u.gen = t.gen /\ u.piece = t.piece /\ u.file = t.file /\ u.from = t.by
    BY <1>1, ClosedType
  <2>2. Moved(t, c) = u
    BY <1>4 DEF Moved
  <2> HIDE DEF u
  <2>3. TaskOK(u)'
    BY <1>1, <1>2, <1>4, <2>1 DEF TaskOK, Waiting
  <2>4. NoneMissed(u)'
    BY <1>1, <1>4, <2>1 DEF NoneMissed, Hope, Waiting
  <2>5. \A d \in Clients \ {c} : Occupies(u, d) <=> Occupies(t, d)
    BY <1>4, <2>1 DEF Occupies
  <2> QED
    BY <2>1, <2>2, <2>3, <2>4, <2>5
<1> QED
  BY <1>3, <1>4

LEMMA QuitInv ==
    ASSUME Inv, NEW c \in Clients, Quit(c)
    PROVE  Inv'
<1> DEFINE M(t) == Moved(t, c)
<1>1. /\ c \in up /\ up' = up \ {c}
      /\ phase' = [phase EXCEPT ![c] = "idle"]
      /\ todo' = [todo EXCEPT ![c] = {}] /\ failed' = [failed EXCEPT ![c] = {}]
      /\ unread' = [unread EXCEPT ![c] = {}]
      /\ UNCHANGED <<sound, full, download, verdict, dest, busy>>
  BY DEF Quit, Goto
<1>2. tasks' = {M(t) : t \in Kept(c)}
  <2>1. {u \in tasks : IF u.at \in Waiting /\ u.from # c
                       THEN TRUE ELSE u.by \in up'} = Kept(c)
    BY <1>1 DEF Kept
  <2> QED
    BY <2>1 DEF Quit, Moved
<1>3. Kept(c) \subseteq tasks
  BY DEF Kept
<1>4. \A t \in Kept(c) :
         /\ M(t) \in Tasks /\ SameKey(t, M(t))
         /\ TaskOK(M(t))' /\ NoneMissed(M(t))'
         /\ \A d \in Clients \ {c} : Occupies(M(t), d) <=> Occupies(t, d)
  BY <1>1, MovedFacts
<1>5. \A t, u \in Kept(c) : SameKey(M(t), M(u)) => t = u
  BY <1>3, <1>4 DEF Inv, TasksOK, OneTaskPerPiece, SameKey
<1> HIDE DEF M
<1>6. IsFiniteSet(tasks')
  <2> DEFINE f == [t \in Kept(c) |-> M(t)]
  <2>1. IsFiniteSet(Kept(c))
    BY <1>3, FS_Subset DEF Inv, TasksOK
  <2>2. /\ f \in [Kept(c) -> tasks']
        /\ \A t, u \in Kept(c) : f[t] = f[u] => t = u
        /\ \A z \in tasks' : \E t \in Kept(c) : f[t] = z
    BY <1>2, <1>5 DEF SameKey
  <2> HIDE DEF f
  <2> QED
    BY <2>1, <2>2, SameSize
<1>7. TasksOK'
  <2>1. OneTaskPerPiece'
    BY <1>2, <1>5 DEF OneTaskPerPiece, SameKey
  <2>2. \A t \in tasks' : TaskOK(t)'
    BY <1>2, <1>4
  <2> QED
    BY <1>1, <1>6, <2>1, <2>2 DEF TasksOK, Inv, TypeOK
<1>8. SlotsCounted'
  <2> SUFFICES ASSUME NEW d \in up \ {c}
               PROVE  busy[d] = Cardinality(Slots(d)')
    BY <1>1 DEF SlotsCounted
  <2> DEFINE f == [t \in Slots(d) |-> M(t)]
  <2>1. d \in Clients \ {c} /\ busy[d] = Cardinality(Slots(d)) /\ IsFiniteSet(Slots(d))
    BY SlotsType DEF Inv, TypeOK, SlotsCounted
  <2>2. Slots(d) \subseteq Kept(c)
    BY DEF Slots, Kept, Occupies, Waiting
  <2>3. Slots(d)' = {M(t) : t \in Slots(d)}
    <3>1. Slots(d)' = {u \in tasks' : Occupies(u, d)}
      BY DEF Slots, Occupies
    <3>2. \A t \in Kept(c) : Occupies(M(t), d) <=> t \in Slots(d)
      BY <1>3, <1>4, <2>1 DEF Slots
    <3> QED
      BY <1>2, <2>2, <3>1, <3>2
  <2>4. /\ f \in [Slots(d) -> Slots(d)']
        /\ \A t, u \in Slots(d) : f[t] = f[u] => t = u
        /\ \A z \in Slots(d)' : \E t \in Slots(d) : f[t] = z
    BY <1>5, <2>2, <2>3 DEF SameKey
  <2> HIDE DEF f
  <2> QED
    BY <2>1, <2>4, SameSize
<1>9. NobodyMissed'
  BY <1>2, <1>4 DEF NobodyMissed
<1>10. TypeOK'
  <2>1. /\ phase \in [Clients -> Phases] /\ todo \in [Clients -> SUBSET Pieces]
        /\ failed \in [Clients -> SUBSET Pieces] /\ unread \in [Clients -> SUBSET Pieces]
    BY DEF Inv, TypeOK
  <2>2. /\ phase' \in [Clients -> Phases] /\ todo' \in [Clients -> SUBSET Pieces]
        /\ failed' \in [Clients -> SUBSET Pieces] /\ unread' \in [Clients -> SUBSET Pieces]
    BY <1>1, <2>1 DEF Phases
  <2>3. tasks' \subseteq Tasks
    BY <1>2, <1>4
  <2> QED
    BY <1>1, <2>2, <2>3 DEF Inv, TypeOK
<1>11. DestsOK' /\ DownloadsNumbered'
  BY <1>1 DEF Inv, TypeOK, DestsOK, DestOK, Has, DownloadsNumbered
<1> QED
  BY <1>7, <1>8, <1>9, <1>10, <1>11 DEF Inv

-----------------------------------------------------------------------------
LEMMA InitInv == Init => Inv
<1> SUFFICES ASSUME Init
             PROVE  Inv
  OBVIOUS
<1>1. Filled("other") \in [Pieces -> Contents]
      /\ \A p \in DOMAIN Filled("other") : Filled("other")[p] = "other"
  BY FillType DEF Contents
<1>2. dest \in [Clients -> [Pieces -> Contents] \cup {Absent}]
      /\ \A c \in Clients : dest[c] \in {Absent, Filled("other")}
  BY <1>1 DEF Init
<1>3. TypeOK
  BY <1>2 DEF Init, TypeOK, Phases
<1>4. DestsOK
  BY <1>1, <1>2 DEF Init, DestsOK, DestOK, Absent
<1>5. TasksOK
  BY FS_EmptySet DEF Init, TasksOK, OneTaskPerPiece
<1>6. SlotsCounted
  <2>1. \A c \in Clients : Slots(c) = {}
    BY DEF Init, Slots
  <2> QED
    BY <2>1, FS_EmptySet DEF Init, SlotsCounted
<1>7. NobodyMissed /\ DownloadsNumbered
  BY DEF Init, NobodyMissed, DownloadsNumbered
<1> QED
  BY <1>3, <1>4, <1>5, <1>6, <1>7 DEF Inv

LEMMA NextInv ==
    ASSUME Inv, [Next]_vars
    PROVE  Inv'
<1>1. CASE Work
  BY <1>1, JudgeInv, AssignInv, ConnectInv, WriteContentInv, RecordResultInv,
     AssignTaskToThreadInv, HandleClientInv DEF Work
<1>2. CASE \E c \in Clients : StartDownload(c) \/ Abandon(c) \/ VanishedOffer(c)
  BY <1>2, StartInv, AbandonInv
<1>3. CASE \E c \in Clients : Quit(c)
  BY <1>3, QuitInv
<1>4. CASE UNCHANGED vars
  <2>1. TasksOK' /\ SlotsCounted' /\ NobodyMissed'
    BY <1>4, PoolsUntouched DEF vars
  <2> QED
    BY <1>4, <2>1
       DEF vars, Inv, TypeOK, DestsOK, DestOK, Has, DownloadsNumbered
<1> QED
  BY <1>1, <1>2, <1>3, <1>4 DEF Next

\* The inductive invariant holds in every reachable state: what connect, serve,
\* write_content and the removal of a destination keep among them.
THEOREM Invariant == Spec => []Inv
<1>1. Init => Inv
  BY InitInv
<1>2. Inv /\ [Next]_vars => Inv'
  BY NextInv
<1> QED
  BY <1>1, <1>2, PTL DEF Spec

\* In every reachable state the variables have their types; in particular no
\* pool takes more slots than it has, and none gives back a slot twice.
THEOREM TypeCorrect == Spec => []TypeOK
<1>1. Inv => TypeOK
  BY DEF Inv
<1> QED
  BY <1>1, Invariant, PTL

\* A destination whose verdict is "complete" has every piece of the file its
\* download was of, and keeps it, but for the places at which pieces of other
\* files were under way to it when that download began.
THEOREM CompletedDownloadsAreWhole == Spec => []CompletedIsWhole
<1>1. Inv => CompletedIsWhole
  BY DEF Inv, DestsOK, DestOK, Has, CompletedIsWhole
<1> QED
  BY <1>1, Invariant, PTL

\* No destination ever holds a piece that does not match the tracker's hash.
THEOREM OnlyRightPiecesAreWritten == Spec => []OnlyTheRightPieces
<1>1. Inv => OnlyTheRightPieces
  BY DEF Inv, DestsOK, DestOK, OnlyTheRightPieces
<1> QED
  BY <1>1, Invariant, PTL

-----------------------------------------------------------------------------
(***************************************************************************)
(* What a step may do.                                                     *)
(***************************************************************************)
\* A whole destination of d outlasts the step, but for strays, or its download
\* has failed or is one of another file now.
StaysWhole(d) ==
    Whole(d) /\ want'[d] = want[d] =>
        \/ verdict'[d] = "F"
        \/ \A p \in Pieces \ stray'[d] : p \in DOMAIN dest'[d] /\ dest'[d][p] = want[d]

\* Who changes the destination d, and how.
LEMMA DestinationStep ==
    ASSUME Inv, [Next]_vars, NEW d \in Clients
    PROVE  /\ dest[d] = Absent /\ dest'[d] # Absent => gen'[d] # gen[d]
           /\ StaysWhole(d)
<1>1. dest \in [Clients -> [Pieces -> Contents] \cup {Absent}]
  BY DEF Inv, TypeOK
<1>2. Whole(d) => \A p \in Pieces : Has(d, p)
  BY DEF Whole, Filled, Has
<1>3. ASSUME dest'[d] = dest[d]
      PROVE  /\ dest[d] = Absent /\ dest'[d] # Absent => gen'[d] # gen[d]
             /\ StaysWhole(d)
  BY <1>2, <1>3 DEF StaysWhole, Has
<1>4. ASSUME NEW c \in Clients, StartDownload(c) \/ VanishedOffer(c)
      PROVE  /\ dest[d] = Absent /\ dest'[d] # Absent => gen'[d] # gen[d]
             /\ StaysWhole(d)
  <2>1. CASE d = c
    BY <1>2, <1>4, <2>1, StartInv DEF StaysWhole, Has
  <2>2. CASE d # c
    BY <1>3, <1>4, <2>2, StartInv
  <2> QED
    BY <2>1, <2>2
<1>5. ASSUME NEW c \in Clients, Abandon(c)
      PROVE  /\ dest[d] = Absent /\ dest'[d] # Absent => gen'[d] # gen[d]
             /\ StaysWhole(d)
  <2>1. CASE dest'[d] = dest[d]
    BY <1>3, <2>1
  <2>2. CASE dest'[d] # dest[d]
    <3>1. dest[d] = Absent /\ gen'[d] # gen[d]
      BY <1>5, <2>2, AbandonInv
    <3>2. Whole(d) => Pieces = {}
      BY <3>1 DEF Whole, Filled, Absent
    <3> QED
      BY <3>1, <3>2 DEF StaysWhole
  <2> QED
    BY <2>1, <2>2
<1>6. ASSUME NEW c \in Clients,
             \/ JoinAllThreads(c) \/ CheckResults(c) \/ HashPiece(c) \/ CheckHash(c)
             \/ UpdateFileInfo(c)
      PROVE  /\ dest[d] = Absent /\ dest'[d] # Absent => gen'[d] # gen[d]
             /\ StaysWhole(d)
  <2>1. /\ dest'[c] = dest[c] \/ (verdict'[c] = "F" /\ dest'[c] = Absent)
        /\ \A e \in Clients \ {c} : dest'[e] = dest[e]
    BY <1>6, JudgeInv
  <2> QED
    BY <1>3, <2>1 DEF StaysWhole
<1>7. ASSUME NEW t \in tasks, WriteContent(t)
      PROVE  /\ dest[d] = Absent /\ dest'[d] # Absent => gen'[d] # gen[d]
             /\ StaysWhole(d)
  <2>1. Written(t) /\ UNCHANGED <<phase, want, stray, unread, verdict>>
    BY <1>7, WriteContentInv DEF WriteContent
  <2>2. /\ \A p \in Pieces \ stray[d] : Has(d, p) => Has(d, p)'
        /\ dest[d] = Absent => dest'[d] = Absent
    BY <2>1, WrittenParts
  <2> QED
    BY <1>2, <2>1, <2>2 DEF StaysWhole, Has
<1>8. ASSUME NEW t \in tasks,
             \/ Connect(t) \/ RecordResult(t) \/ AssignTaskToThread(t) \/ HandleClient(t)
      PROVE  UNCHANGED dest
  BY <1>8 DEF Connect, RecordResult, AssignTaskToThread, HandleClient
<1>9. ASSUME NEW c \in Clients, Quit(c) \/ \E p \in Pieces : AssignDownloadTask(c, p)
      PROVE  UNCHANGED dest
  BY <1>9 DEF Quit, AssignDownloadTask
<1> QED
  BY <1>3, <1>4, <1>5, <1>6, <1>7, <1>8, <1>9 DEF Next, Work, vars

\* A piece fails by its own doing: it has nobody left to ask, or no destination.
LEMMA NewFailure ==
    ASSUME Inv, [Next]_vars, NEW t \in tasks, t.at # "no",
           Closed(t, "no", {}) \in tasks'
    PROVE  dest[t.by] = Absent \/ (t.at = "connect" /\ t.left = {} /\ UNCHANGED full)
<1> DEFINE n == Closed(t, "no", {})
<1>1. n.at = "no" /\ SameKey(t, n)
  BY ClosedType
<1>2. n \notin tasks
  BY <1>1 DEF Inv, TasksOK, OneTaskPerPiece
<1> HIDE DEF n
<1>3. ASSUME NEW x \in tasks, NEW u, Replace(x, u), u.at = "no", SameKey(x, u)
      PROVE  x = t
  <2>1. n = u
    BY <1>2, <1>3 DEF Replace, n
  <2> QED
    BY <1>1, <1>3, <2>1 DEF Inv, TasksOK, OneTaskPerPiece, SameKey
<1>4. ASSUME NEW x \in tasks, Connect(x)
      PROVE  t.at = "connect" /\ t.left = {} /\ UNCHANGED full
  <2>1. CASE x.left = {} /\ GiveUp(x) /\ UNCHANGED full
    <3>1. x = t
      BY <1>3, <2>1, ClosedType DEF GiveUp
    <3> QED
      BY <1>4, <2>1, <3>1 DEF Connect
  <2>2. ASSUME NEW u, Replace(x, u), u.at # "no"
        PROVE  FALSE
    BY <1>1, <1>2, <2>2 DEF Replace, n
  <2>3. CASE \E s \in x.left :
                \/ Replace(x, [x EXCEPT !.at = "queued", !.from = s, !.left = @ \ {s}])
                \/ Replace(x, [x EXCEPT !.left = @ \ {s}])
    <3>1. x \in Tasks /\ x.at = "connect"
      BY <1>4, TaskFacts DEF Connect
    <3>2. \A s : /\ [x EXCEPT !.at = "queued", !.from = s, !.left = @ \ {s}].at # "no"
                 /\ [x EXCEPT !.left = @ \ {s}].at # "no"
      BY <3>1 DEF Tasks
    <3> QED
      BY <2>2, <2>3, <3>2
  <2> QED
    BY <1>4, <2>1, <2>3 DEF Connect
<1>5. ASSUME NEW x \in tasks, WriteContent(x)
      PROVE  dest[t.by] = Absent
  <2>1. x \in Tasks /\ x.left \in SUBSET Clients
    BY TaskFacts DEF Tasks
  <2>2. CASE dest[x.by] = Absent /\ GiveUp(x)
    <3>1. x = t
      BY <1>3, <2>2, ClosedType DEF GiveUp
    <3> QED
      BY <2>2, <3>1
  <2>3. CASE Retry(x) \/ Succeed(x)
    <3>1. Closed(x, "connect", x.left).at # "no" /\ Closed(x, "ok", {}).at # "no"
      BY <2>1, ClosedType
    <3> QED
      BY <1>1, <1>2, <2>3, <3>1 DEF Retry, Succeed, Replace, n
  <2> QED
    BY <1>5, <2>2, <2>3 DEF WriteContent
<1>6. ASSUME NEW x \in tasks, AssignTaskToThread(x) \/ HandleClient(x) \/ RecordResult(x)
      PROVE  FALSE
  <2>1. x \in Tasks
    BY TaskFacts
  <2>2. /\ [x EXCEPT !.at = "served"].at = "served"
        /\ \A r : [x EXCEPT !.at = "received", !.read = r].at = "received"
    BY <2>1 DEF Tasks
  <2>3. n \notin tasks' \/ n.at \in {"served", "received"}
    <3>1. CASE tasks' = tasks \ {x}
      BY <1>2, <3>1
    <3>2. CASE AssignTaskToThread(x)
      BY <1>2, <2>2, <3>2 DEF AssignTaskToThread, Replace
    <3>3. CASE \E r : Replace(x, [x EXCEPT !.at = "received", !.read = r])
      BY <1>2, <2>2, <3>3 DEF Replace
    <3> QED
      BY <1>6, <3>1, <3>2, <3>3 DEF HandleClient, RecordResult
  <2> QED
    BY <1>1, <2>3 DEF n
<1>7. ASSUME NEW c \in Clients, NEW p \in Pieces, AssignDownloadTask(c, p)
      PROVE  FALSE
  BY <1>1, <1>2, <1>7 DEF AssignDownloadTask, Task, n
<1>8. ASSUME NEW c \in Clients, Quit(c)
      PROVE  FALSE
  <2>1. \A y \in tasks' : \E x \in tasks : y = x \/ y = Closed(x, "connect", x.left)
    BY <1>8 DEF Quit
  <2>2. \A x \in tasks : Closed(x, "connect", x.left).at = "connect"
    BY TaskFacts, ClosedType DEF Tasks
  <2> QED
    BY <1>1, <1>2, <2>1, <2>2 DEF n
<1>9. CASE UNCHANGED tasks
  BY <1>2, <1>9 DEF n
<1>10. ASSUME NEW c \in Clients,
              \/ StartDownload(c) \/ Abandon(c) \/ VanishedOffer(c)
              \/ JoinAllThreads(c) \/ CheckResults(c) \/ HashPiece(c) \/ CheckHash(c)
              \/ UpdateFileInfo(c)
       PROVE  UNCHANGED tasks
  BY <1>10 DEF StartDownload, Abandon, VanishedOffer, NewTask, JoinAllThreads,
               CheckResults, HashPiece, CheckHash, UpdateFileInfo
<1> QED
  BY <1>4, <1>5, <1>6, <1>7, <1>8, <1>9, <1>10 DEF Next, Work, vars

\* A destination that is not there appears only with a new download, never by a
\* piece that is still under way.
THEOREM RemovedFilesStayAway == Spec => RemovedStaysAway
<1>1. Inv /\ [Next]_vars
      => \A c \in Clients : dest[c] = Absent /\ dest'[c] # Absent => gen'[c] # gen[c]
  BY DestinationStep
<1> QED
  BY <1>1, Invariant, PTL DEF Spec, RemovedStaysAway

\* A destination that is whole loses a piece, or goes, only when a download to
\* it is judged to have failed, when another file is downloaded to it, or to a
\* piece of another file that was under way before.
THEOREM WholeFilesAreKept == Spec => KeptUntilFailure
<1>1. Inv /\ [Next]_vars => \A c \in Clients : StaysWhole(c)
  BY DestinationStep
<1> QED
  BY <1>1, Invariant, PTL DEF Spec, KeptUntilFailure, StaysWhole

\* When a piece of the latest download fails and its destination is there, no
\* seeder it was offered could still have given it: all of them quit, hold a
\* changed copy, or had a full backlog.
THEOREM AllSeedersAreTried == Spec => EverySeederIsTried
<1>1. ASSUME Inv, [Next]_vars, NEW t \in tasks, NEW c \in Clients,
             t.by = c, t.gen = gen[c], dest[c] # Absent, t.at # "no",
             Closed(t, "no", {}) \in tasks'
      PROVE  offer[c] \cap sound \cap up \subseteq full'
  <2>1. t.at = "connect" /\ t.left = {} /\ UNCHANGED full
    BY <1>1, NewFailure
  <2> QED
    BY <1>1, <2>1, TaskFacts DEF NoneMissed, Hope, Waiting
<1>2. Inv /\ [Next]_vars
      => \A t \in tasks : \A c \in Clients :
            /\ t.by = c /\ t.gen = gen[c] /\ dest[c] # Absent
            /\ t.at # "no" /\ Closed(t, "no", {}) \in tasks'
            => offer[c] \cap sound \cap up \subseteq full'
  BY <1>1
<1> QED
  BY <1>2, Invariant, PTL DEF Spec, EverySeederIsTried

-----------------------------------------------------------------------------
(***************************************************************************)
(* What there is still to do.                                              *)
(***************************************************************************)
\* The pieces that are in a slot or will be, each of them once.
AllTasks == tasks \cup UNION {Unassigned(c) : c \in Clients}

KeyOf(t) == <<t.by, t.gen, t.piece>>

LEMMA UnassignedFacts ==
    ASSUME NEW c \in Clients, NEW u \in Unassigned(c)
    PROVE  /\ u.by = c /\ u.gen = gen[c] /\ u.piece \in todo[c] /\ u.at = "todo"
           /\ u = Task(c, gen[c], want[c], u.piece, "todo", offer[c])
BY DEF Unassigned, Task

LEMMA AllTasksFacts ==
    ASSUME Inv
    PROVE  /\ \A t, u \in AllTasks : SameKey(t, u) => t = u
           /\ \A t \in AllTasks : /\ t.by \in Clients /\ t.gen \in 0..MaxDownloads
                                  /\ t.piece \in Pieces
                                  /\ t.from \in Clients /\ t.left \in SUBSET Clients
<1>1. \A t, u \in tasks : SameKey(t, u) => t = u
  BY DEF Inv, TasksOK, OneTaskPerPiece
<1>2. \A t \in tasks, c \in Clients : \A u \in Unassigned(c) : ~SameKey(t, u)
  <2>1. \A t \in tasks : t.gen = gen[t.by] => t.piece \notin todo[t.by]
    BY DEF Inv, TasksOK, TaskOK
  <2> QED
    BY <2>1, UnassignedFacts DEF SameKey
<1>3. \A c, d \in Clients : \A t \in Unassigned(c), u \in Unassigned(d) :
         SameKey(t, u) => t = u
  BY UnassignedFacts DEF SameKey
<1>4. \A t, u \in AllTasks : SameKey(t, u) => t = u
  <2> SUFFICES ASSUME NEW t \in AllTasks, NEW u \in AllTasks, SameKey(t, u)
               PROVE  t = u
    OBVIOUS
  <2>1. SameKey(u, t)
    BY DEF SameKey
  <2> QED
    BY <1>1, <1>2, <1>3, <2>1 DEF AllTasks
<1>5. \A t \in tasks : /\ t.by \in Clients /\ t.gen \in 0..MaxDownloads
                       /\ t.piece \in Pieces
                       /\ t.from \in Clients /\ t.left \in SUBSET Clients
  BY DEF Inv, TypeOK, Tasks
<1>6. \A c \in Clients : \A t \in Unassigned(c) :
         /\ t.by \in Clients /\ t.gen \in 0..MaxDownloads /\ t.piece \in Pieces
         /\ t.from \in Clients /\ t.left \in SUBSET Clients
  BY DEF Unassigned, Task, Inv, TypeOK
<1> QED
  BY <1>4, <1>5, <1>6 DEF AllTasks

LEMMA InPieceSteps ==
    \A z : z \in PieceSteps <=> \E t \in AllTasks : \E e \in StepsOf(t) : z = <<KeyOf(t), e>>
BY DEF PieceSteps, AllTasks, KeyOf

LEMMA InPieceStepsNext ==
    \A z : z \in PieceSteps' <=> \E t \in AllTasks' : \E e \in StepsOf(t) : z = <<KeyOf(t), e>>
BY DEF PieceSteps, AllTasks, KeyOf, StepsOf

\* Every piece has a step less to do, or the same steps, or is gone.
LEMMA NothingAdded ==
    ASSUME \A y \in AllTasks' : \E x \in AllTasks :
              SameKey(x, y) /\ StepsOf(y) \subseteq StepsOf(x)
    PROVE  PieceSteps' \subseteq PieceSteps
<1> SUFFICES ASSUME NEW z \in PieceSteps'
             PROVE  z \in PieceSteps
  OBVIOUS
<1>1. PICK y \in AllTasks' : \E e \in StepsOf(y) : z = <<KeyOf(y), e>>
  BY InPieceStepsNext
<1>2. PICK x \in AllTasks : SameKey(x, y) /\ StepsOf(y) \subseteq StepsOf(x)
  OBVIOUS
<1> QED
  BY <1>1, <1>2, InPieceSteps DEF SameKey, KeyOf

\* Piece x has taken the step e, or is gone.
LEMMA StepTaken ==
    ASSUME Inv, NEW x \in AllTasks, NEW e \in StepsOf(x),
           \A y \in AllTasks' : \/ y \in AllTasks \ {x}
                                \/ SameKey(x, y) /\ StepsOf(y) \subseteq StepsOf(x) \ {e}
    PROVE  PieceSteps' \subseteq PieceSteps /\ PieceSteps' # PieceSteps
<1>1. PieceSteps' \subseteq PieceSteps
  BY NothingAdded DEF SameKey
<1>2. <<KeyOf(x), e>> \in PieceSteps
  BY InPieceSteps
<1>3. <<KeyOf(x), e>> \notin PieceSteps'
  <2> SUFFICES ASSUME NEW y \in AllTasks', NEW f \in StepsOf(y),
                      <<KeyOf(x), e>> = <<KeyOf(y), f>>
               PROVE  FALSE
    BY InPieceStepsNext
  <2>1. SameKey(x, y) /\ e \in StepsOf(y)
    BY DEF SameKey, KeyOf
  <2> QED
    BY <2>1, AllTasksFacts
<1> QED
  BY <1>1, <1>2, <1>3

LEMMA InStepsOf ==
    ASSUME NEW t, NEW x, NEW i
    PROVE  <<x, i>> \in StepsOf(t) <=>
              \/ x = t.by /\ i \in 1..OwnSteps(t.at)
              \/ x = t.from /\ i \in 1..StepsWithSeeder(t.at)
              \/ x \in t.left /\ i \in 1..4
BY DEF StepsOf

\* Of the steps of t, u has at most these, and not the step i with x.
LEMMA FewerSteps ==
    ASSUME NEW t, NEW u, NEW x, NEW i,
           1..OwnSteps(u.at) \subseteq 1..OwnSteps(t.at), u.by = t.by,
           \/ 1..StepsWithSeeder(u.at) = {}
           \/ u.from = t.from /\ 1..StepsWithSeeder(u.at) \subseteq 1..StepsWithSeeder(t.at)
           \/ u.from \in t.left /\ 1..StepsWithSeeder(u.at) \subseteq 1..4,
           u.left \subseteq t.left,
           <<x, i>> \notin StepsOf(u)
    PROVE  StepsOf(u) \subseteq StepsOf(t) \ {<<x, i>>}
BY DEF StepsOf

LEMMA TaskStep ==
    ASSUME Inv, NEW t \in tasks, NEW u, SameKey(t, u), Replace(t, u),
           UNCHANGED <<gen, offer, want, todo>>,
           NEW e \in StepsOf(t), StepsOf(u) \subseteq StepsOf(t) \ {e}
    PROVE  PieceSteps' \subseteq PieceSteps /\ PieceSteps' # PieceSteps
<1>1. t \in AllTasks
  BY DEF AllTasks
<1>2. \A c \in Clients : Unassigned(c)' = Unassigned(c) /\ t \notin Unassigned(c)
  BY UnassignedFacts DEF Unassigned, Inv, TypeOK, Tasks, Waiting
<1>3. \A y \in AllTasks' : y = u \/ y \in AllTasks \ {t}
  BY <1>2 DEF AllTasks, Replace
<1> QED
  BY <1>1, <1>3, StepTaken

LEMMA TaskGone ==
    ASSUME Inv, NEW t \in tasks, tasks' = tasks \ {t}, UNCHANGED <<gen, offer, want, todo>>
    PROVE  PieceSteps' \subseteq PieceSteps /\ PieceSteps' # PieceSteps
<1>1. t \in AllTasks
  BY DEF AllTasks
<1>2. \A c \in Clients : Unassigned(c)' = Unassigned(c) /\ t \notin Unassigned(c)
  BY UnassignedFacts DEF Unassigned, Inv, TypeOK, Tasks, Waiting
<1>3. \A y \in AllTasks' : y \in AllTasks \ {t}
  BY <1>2 DEF AllTasks
<1>4. <<t.by, 1>> \in StepsOf(t)
  BY InStepsOf DEF OwnSteps
<1> QED
  BY <1>1, <1>3, <1>4, StepTaken

LEMMA PieceStep ==
    ASSUME Inv, NEW t \in tasks,
           \/ Connect(t) \/ WriteContent(t) \/ RecordResult(t)
           \/ AssignTaskToThread(t) \/ HandleClient(t)
    PROVE  PieceSteps' \subseteq PieceSteps /\ PieceSteps' # PieceSteps
<1>1. t \in Tasks /\ TaskOK(t) /\ UNCHANGED <<gen, offer, want, todo>>
  BY TaskFacts DEF Connect, WriteContent, RecordResult, AssignTaskToThread, HandleClient
<1> USE DEF OwnSteps, StepsWithSeeder
<1>2. ASSUME t.at \in {"connect", "received"}, NEW at \in {"ok", "no"},
             Replace(t, Closed(t, at, {}))
      PROVE  PieceSteps' \subseteq PieceSteps /\ PieceSteps' # PieceSteps
  <2> DEFINE u == Closed(t, at, {})
  <2>1. SameKey(t, u) /\ u.at = at /\ u.left = {} /\ u.by = t.by
    BY ClosedType
  <2>2. Replace(t, u)
    BY <1>2
  <2> HIDE DEF u
  <2>3. <<t.by, 2>> \in StepsOf(t) /\ <<t.by, 2>> \notin StepsOf(u)
    BY <1>2, <2>1, InStepsOf
  <2>4. StepsOf(u) \subseteq StepsOf(t) \ {<<t.by, 2>>}
    BY <1>2, <2>1, <2>3, FewerSteps
  <2> QED
    BY <1>1, <2>1, <2>2, <2>3, <2>4, TaskStep
<1>3. CASE WriteContent(t) /\ Retry(t)
  <2> DEFINE u == Closed(t, "connect", t.left)
  <2>1. /\ SameKey(t, u) /\ u.at = "connect" /\ u.left = t.left /\ u.by = t.by
        /\ t.at = "received"
    BY <1>1, <1>3, ClosedType DEF Tasks, WriteContent
  <2>2. Replace(t, u)
    BY <1>3 DEF Retry
  <2> HIDE DEF u
  <2>3. <<t.from, 1>> \in StepsOf(t) /\ <<t.from, 1>> \notin StepsOf(u)
    BY <1>1, <2>1, InStepsOf DEF TaskOK
  <2>4. StepsOf(u) \subseteq StepsOf(t) \ {<<t.from, 1>>}
    BY <2>1, <2>3, FewerSteps
  <2> QED
    BY <1>1, <2>1, <2>2, <2>3, <2>4, TaskStep
<1>4. ASSUME t.at = "connect", NEW s \in t.left, NEW u, SameKey(t, u), Replace(t, u),
             u.left = t.left \ {s},
             u.at = "connect" \/ (u.at = "queued" /\ u.from = s)
      PROVE  PieceSteps' \subseteq PieceSteps /\ PieceSteps' # PieceSteps
  <2>1. u.by = t.by /\ s # t.by
    BY <1>1, <1>4 DEF SameKey, TaskOK
  <2>2. <<s, 4>> \in StepsOf(t) /\ <<s, 4>> \notin StepsOf(u)
    BY <1>4, <2>1, InStepsOf
  <2>3. StepsOf(u) \subseteq StepsOf(t) \ {<<s, 4>>}
    BY <1>4, <2>1, <2>2, FewerSteps
  <2> QED
    BY <1>1, <1>4, <2>2, <2>3, TaskStep
<1>5. CASE Connect(t)
  <2>1. ASSUME NEW s \in t.left,
               \/ Replace(t, [t EXCEPT !.at = "queued", !.from = s, !.left = @ \ {s}])
               \/ Replace(t, [t EXCEPT !.left = @ \ {s}])
        PROVE  PieceSteps' \subseteq PieceSteps /\ PieceSteps' # PieceSteps
    <3> DEFINE u == [t EXCEPT !.at = "queued", !.from = s, !.left = @ \ {s}]
               v == [t EXCEPT !.left = @ \ {s}]
    <3>1. /\ SameKey(t, u) /\ u.left = t.left \ {s} /\ u.at = "queued" /\ u.from = s
          /\ SameKey(t, v) /\ v.left = t.left \ {s} /\ v.at = t.at /\ t.at = "connect"
      BY <1>1, <1>5 DEF Tasks, SameKey, Connect
    <3>2. Replace(t, u) \/ Replace(t, v)
      BY <2>1
    <3> HIDE DEF u, v
    <3> QED
      BY <1>4, <3>1, <3>2
  <2> QED
    BY <1>2, <1>5, <2>1 DEF Connect, GiveUp
<1>6. CASE AssignTaskToThread(t) \/ (HandleClient(t) /\ t.by \in up)
  <2> DEFINE read == IF t.from \in sound THEN "right" ELSE "wrong"
             u == IF t.at = "queued" THEN [t EXCEPT !.at = "served"]
                  ELSE [t EXCEPT !.at = "received", !.read = read]
  <2>1. t.at \in Waiting /\ Replace(t, u)
    BY <1>6 DEF AssignTaskToThread, HandleClient, Waiting
  <2>2. /\ SameKey(t, u) /\ u.left = t.left /\ u.from = t.from /\ u.by = t.by
        /\ u.at = IF t.at = "queued" THEN "served" ELSE "received"
    BY <1>1 DEF Tasks, SameKey
  <2> HIDE DEF u
  <2>3. PICK i \in {2, 3} : i = StepsWithSeeder(t.at)
    BY <2>1 DEF Waiting
  <2>4. <<t.from, i>> \in StepsOf(t) /\ <<t.from, i>> \notin StepsOf(u)
    BY <1>1, <2>1, <2>2, <2>3, InStepsOf DEF TaskOK, Waiting
  <2>5. StepsOf(u) \subseteq StepsOf(t) \ {<<t.from, i>>}
    BY <2>1, <2>2, <2>4, FewerSteps DEF Waiting
  <2> QED
    BY <1>1, <2>1, <2>2, <2>4, <2>5, TaskStep
<1>7. CASE RecordResult(t) \/ (HandleClient(t) /\ t.by \notin up)
  BY <1>1, <1>7, TaskGone DEF RecordResult, HandleClient
<1> QED
  BY <1>2, <1>3, <1>5, <1>6, <1>7 DEF WriteContent, GiveUp, Succeed

LEMMA AssignStep ==
    ASSUME Inv, NEW c \in Clients, NEW p \in Pieces, AssignDownloadTask(c, p)
    PROVE  PieceSteps' \subseteq PieceSteps /\ PieceSteps' # PieceSteps
<1> DEFINE t == Task(c, gen[c], want[c], p, "todo", offer[c])
           u == Task(c, gen[c], want[c], p, "connect", offer[c])
<1>1. /\ p \in todo[c] /\ todo' = [todo EXCEPT ![c] = @ \ {p}]
      /\ tasks' = tasks \cup {u} /\ UNCHANGED <<gen, offer, want>>
      /\ todo \in [Clients -> SUBSET Pieces]
  BY DEF AssignDownloadTask, Inv, TypeOK
<1>2. /\ SameKey(t, u) /\ u.at = "connect" /\ u.left = t.left /\ u.by = t.by
      /\ t.at = "todo" /\ t.by = c /\ t.left = offer[c] /\ t.piece = p
  BY DEF Task, SameKey
<1>3. t \in Unassigned(c)
  BY <1>1 DEF Unassigned
<1> HIDE DEF t
<1>4. t \in AllTasks
  BY <1>3 DEF AllTasks
<1>5. t \notin tasks
  BY <1>2 DEF Inv, TypeOK, Tasks, Waiting
<1>6. \A d \in Clients : Unassigned(d)' \subseteq Unassigned(d) \ {t}
  <2> TAKE d \in Clients
  <2>1. Unassigned(d)' = {Task(d, gen[d], want[d], q, "todo", offer[d]) : q \in todo'[d]}
    BY <1>1 DEF Unassigned, Task
  <2>2. todo'[d] \subseteq todo[d] /\ (d = c => p \notin todo'[d])
    BY <1>1
  <2>3. \A q \in todo'[d] : Task(d, gen[d], want[d], q, "todo", offer[d]) # t
    BY <1>2, <2>2 DEF Task
  <2> QED
    BY <2>1, <2>2, <2>3 DEF Unassigned
<1> HIDE DEF u
<1>7. \A y \in AllTasks' : y = u \/ y \in AllTasks \ {t}
  BY <1>1, <1>5, <1>6 DEF AllTasks
<1>8. <<c, 3>> \in StepsOf(t) /\ <<c, 3>> \notin StepsOf(u)
  <2>1. c \notin offer[c]
    BY DownloadFacts
  <2> QED
    BY <1>2, <2>1, InStepsOf DEF OwnSteps, StepsWithSeeder
<1>9. StepsOf(u) \subseteq StepsOf(t) \ {<<c, 3>>}
  BY <1>2, <1>8, FewerSteps DEF OwnSteps, StepsWithSeeder
<1> QED
  BY <1>2, <1>4, <1>7, <1>8, <1>9, StepTaken

LEMMA SamePieceSteps ==
    ASSUME UNCHANGED <<gen, offer, want, todo, tasks>>
    PROVE  PieceSteps' = PieceSteps
BY DEF PieceSteps, Unassigned

LEMMA PhasesAheadFacts ==
    ASSUME NEW x
    PROVE  /\ x = "assigning" => PhasesAhead(x) = 4
           /\ x = "checking" => PhasesAhead(x) = 3
           /\ x = "hashing" => PhasesAhead(x) = 2
           /\ x \in {"differs", "updating"} => PhasesAhead(x) = 1
           /\ x = "idle" => PhasesAhead(x) = 0
<1>1. ASSUME x = "assigning" PROVE PhasesAhead(x) = 4
  BY <1>1 DEF PhasesAhead
<1>2. ASSUME x = "checking" PROVE PhasesAhead(x) = 3
  BY <1>2 DEF PhasesAhead
<1>3. ASSUME x = "hashing" PROVE PhasesAhead(x) = 2
  BY <1>3 DEF PhasesAhead
<1>4. ASSUME x \in {"differs", "updating"} PROVE PhasesAhead(x) = 1
  BY <1>4 DEF PhasesAhead
<1>5. ASSUME x = "idle" PROVE PhasesAhead(x) = 0
  BY <1>5 DEF PhasesAhead
<1> QED
  BY <1>1, <1>2, <1>3, <1>4, <1>5

LEMMA PhasesAheadType ==
    ASSUME NEW x \in Phases
    PROVE  PhasesAhead(x) \in 0..4
<1>1. PhasesAhead(x) = 0 \/ PhasesAhead(x) = 1 \/ PhasesAhead(x) = 2
      \/ PhasesAhead(x) = 3 \/ PhasesAhead(x) = 4
  BY PhasesAheadFacts, Zenon DEF Phases
<1> QED
  BY <1>1

\* A step of a download thread to its next phase.
LEMMA NextPhase ==
    ASSUME Inv, NEW c \in Clients, NEW x \in Phases, phase' = [phase EXCEPT ![c] = x],
           \/ phase[c] = "assigning" /\ x = "checking"
           \/ phase[c] = "checking" /\ x \in {"idle", "hashing"}
           \/ phase[c] = "hashing" /\ x \in {"differs", "updating"}
           \/ phase[c] \in {"differs", "updating"} /\ x = "idle"
    PROVE  PhaseSteps' \subseteq PhaseSteps /\ PhaseSteps' # PhaseSteps
<1>1. /\ phase \in [Clients -> Phases] /\ phase'[c] = x
      /\ \A d \in Clients \ {c} : phase'[d] = phase[d]
  BY DEF Inv, TypeOK
<1>2. \A d \in Clients : PhasesAhead(phase[d]) \in 0..4
  BY <1>1, PhasesAheadType
<1>3. PhasesAhead(x) \in 0..4 /\ PhasesAhead(x) < PhasesAhead(phase[c])
  <2>1. \/ PhasesAhead(phase[c]) = 4 /\ PhasesAhead(x) = 3
        \/ PhasesAhead(phase[c]) = 3 /\ PhasesAhead(x) \in {0, 2}
        \/ PhasesAhead(phase[c]) = 2 /\ PhasesAhead(x) = 1
        \/ PhasesAhead(phase[c]) = 1 /\ PhasesAhead(x) = 0
    BY PhasesAheadFacts, Zenon
  <2> QED
    BY <2>1
<1>4. \A z : z \in PhaseSteps <=> \E d \in Clients : z \in {d} \X (1..PhasesAhead(phase[d]))
  BY DEF PhaseSteps
<1>5. \A z : z \in PhaseSteps' <=>
             \E d \in Clients : z \in {d} \X (1..PhasesAhead(phase'[d]))
  BY DEF PhaseSteps, PhasesAhead
<1>6. \A d \in Clients : 1..PhasesAhead(phase'[d]) \subseteq 1..PhasesAhead(phase[d])
  BY <1>1, <1>2, <1>3
<1>7. PhaseSteps' \subseteq PhaseSteps
  BY <1>4, <1>5, <1>6
<1>8. <<c, PhasesAhead(phase[c])>> \in PhaseSteps
      /\ <<c, PhasesAhead(phase[c])>> \notin PhaseSteps'
  <2>1. /\ PhasesAhead(phase[c]) \in 1..PhasesAhead(phase[c])
        /\ PhasesAhead(phase[c]) \notin 1..PhasesAhead(phase'[c])
    BY <1>1, <1>2, <1>3
  <2> QED
    BY <1>4, <1>5, <2>1
<1> QED
  BY <1>7, <1>8

LEMMA SamePhaseSteps ==
    ASSUME UNCHANGED phase
    PROVE  PhaseSteps' = PhaseSteps
BY DEF PhaseSteps

LEMMA InHashSteps ==
    /\ \A z : z \in HashSteps <=> \E d \in Clients : z \in {d} \X ToHash(d)
    /\ \A z : z \in HashSteps' <=> \E d \in Clients : z \in {d} \X ToHash(d)'
BY DEF HashSteps, ToHash

LEMMA SameHashSteps ==
    ASSUME UNCHANGED <<phase, unread>>
    PROVE  HashSteps' = HashSteps
BY DEF HashSteps, ToHash

\* Steps of a download thread that assign nothing.
LEMMA PhaseStep ==
    ASSUME Inv, NEW c \in Clients,
           \/ JoinAllThreads(c) \/ CheckResults(c) \/ HashPiece(c) \/ CheckHash(c)
           \/ UpdateFileInfo(c)
    PROVE  /\ UNCHANGED <<gen, offer, want, todo, tasks>>
           /\ PhaseSteps' \subseteq PhaseSteps /\ HashSteps' \subseteq HashSteps
           /\ PhaseSteps' # PhaseSteps \/ HashSteps' # HashSteps
<1> USE DEF JoinAllThreads, CheckResults, HashPiece, CheckHash, UpdateFileInfo, Goto
<1>1. UNCHANGED <<gen, offer, want, todo, tasks>>
  OBVIOUS
<1>2. phase \in [Clients -> Phases] /\ unread \in [Clients -> SUBSET Pieces]
  BY DEF Inv, TypeOK
<1>3. HashSteps' \subseteq HashSteps
  <2>1. \A d \in Clients \ {c} : phase'[d] = phase[d] /\ unread'[d] = unread[d]
    BY <1>2
  <2>2. \/ phase[c] \in {"assigning", "checking"} /\ unread'[c] \in {unread[c], Pieces}
        \/ /\ unread'[c] \subseteq unread[c]
           /\ phase'[c] \notin {"assigning", "checking"}
    BY <1>2 DEF At
  <2>3. \A d \in Clients : ToHash(d)' \subseteq ToHash(d)
    BY <1>2, <2>1, <2>2 DEF ToHash
  <2> QED
    BY <2>3, InHashSteps
<1>4. CASE \E p \in unread[c] : /\ At(c, "hashing") /\ UNCHANGED phase
                                /\ unread' = [unread EXCEPT ![c] = @ \ {p}]
  <2>1. PICK p \in unread[c] : /\ phase[c] = "hashing" /\ UNCHANGED phase
                               /\ unread' = [unread EXCEPT ![c] = @ \ {p}]
    BY <1>4 DEF At
  <2>2. p \in ToHash(c) /\ p \notin ToHash(c)'
    BY <1>2, <2>1 DEF ToHash
  <2>3. <<c, p>> \in HashSteps /\ <<c, p>> \notin HashSteps'
    BY <2>2, InHashSteps
  <2> QED
    BY <1>1, <1>3, <2>1, <2>3, SamePhaseSteps
<1>5. CASE ~ \E p \in unread[c] : /\ At(c, "hashing") /\ UNCHANGED phase
                                  /\ unread' = [unread EXCEPT ![c] = @ \ {p}]
  <2>1. PICK x \in Phases :
           /\ phase' = [phase EXCEPT ![c] = x]
           /\ \/ phase[c] = "assigning" /\ x = "checking"
              \/ phase[c] = "checking" /\ x \in {"idle", "hashing"}
              \/ phase[c] = "hashing" /\ x \in {"differs", "updating"}
              \/ phase[c] \in {"differs", "updating"} /\ x = "idle"
    BY <1>5 DEF At, Phases
  <2> QED
    BY <1>1, <1>3, <2>1, NextPhase
<1> QED
  BY <1>4, <1>5

LEMMA WorkStep ==
    ASSUME Inv, Work
    PROVE  /\ started' = started
           /\ PieceSteps' \subseteq PieceSteps /\ PhaseSteps' \subseteq PhaseSteps
           /\ HashSteps' \subseteq HashSteps
           /\ PieceSteps' # PieceSteps \/ PhaseSteps' # PhaseSteps \/ HashSteps' # HashSteps
<1>1. started' = started
  BY DEF Work, AssignDownloadTask, JoinAllThreads, CheckResults, HashPiece, CheckHash,
         UpdateFileInfo, Connect, WriteContent, RecordResult, AssignTaskToThread, HandleClient
<1>2. ASSUME NEW c \in Clients, NEW p \in Pieces, AssignDownloadTask(c, p)
      PROVE  /\ PieceSteps' \subseteq PieceSteps /\ PieceSteps' # PieceSteps
             /\ PhaseSteps' = PhaseSteps /\ HashSteps' = HashSteps
  BY <1>2, AssignStep, SamePhaseSteps, SameHashSteps DEF AssignDownloadTask
<1>3. ASSUME NEW c \in Clients,
             \/ JoinAllThreads(c) \/ CheckResults(c) \/ HashPiece(c) \/ CheckHash(c)
             \/ UpdateFileInfo(c)
      PROVE  /\ PhaseSteps' \subseteq PhaseSteps /\ HashSteps' \subseteq HashSteps
             /\ PhaseSteps' # PhaseSteps \/ HashSteps' # HashSteps
             /\ PieceSteps' = PieceSteps
  BY <1>3, PhaseStep, SamePieceSteps
<1>4. ASSUME NEW t \in tasks,
             \/ Connect(t) \/ WriteContent(t) \/ RecordResult(t)
             \/ AssignTaskToThread(t) \/ HandleClient(t)
      PROVE  /\ PieceSteps' \subseteq PieceSteps /\ PieceSteps' # PieceSteps
             /\ PhaseSteps' = PhaseSteps /\ HashSteps' = HashSteps
  <2>1. UNCHANGED <<phase, unread>>
    BY <1>4 DEF Connect, WriteContent, RecordResult, AssignTaskToThread, HandleClient
  <2> QED
    BY <1>4, <2>1, PieceStep, SamePhaseSteps, SameHashSteps
<1> QED
  BY <1>1, <1>2, <1>3, <1>4 DEF Work

\* Whoever quits takes what he had to do with him, and who waited for him has
\* what there was to do with the seeders that are left.
LEMMA QuitStep ==
    ASSUME Inv, NEW c \in Clients, Quit(c)
    PROVE  /\ PieceSteps' \subseteq PieceSteps /\ PhaseSteps' \subseteq PhaseSteps
           /\ HashSteps' \subseteq HashSteps
<1>1. /\ phase' = [phase EXCEPT ![c] = "idle"] /\ todo' = [todo EXCEPT ![c] = {}]
      /\ unread' = [unread EXCEPT ![c] = {}] /\ unread \in [Clients -> SUBSET Pieces]
      /\ UNCHANGED <<gen, offer, want>>
      /\ phase \in [Clients -> Phases] /\ todo \in [Clients -> SUBSET Pieces]
  BY DEF Quit, Goto, Inv, TypeOK
<1>2. PhaseSteps' \subseteq PhaseSteps
  <2>0. PhasesAhead("idle") = 0
    BY PhasesAheadFacts, Zenon
  <2>1. \A d \in Clients : phase'[d] = phase[d] \/ 1..PhasesAhead(phase'[d]) = {}
    BY <1>1, <2>0
  <2>2. \A d \in Clients : 1..PhasesAhead(phase'[d]) \subseteq 1..PhasesAhead(phase[d])
    BY <2>1
  <2>3. PhaseSteps' = UNION {{d} \X (1..PhasesAhead(phase'[d])) : d \in Clients}
    BY DEF PhaseSteps, PhasesAhead
  <2> QED
    BY <2>2, <2>3 DEF PhaseSteps
<1>3. \A d \in Clients : Unassigned(d)' \subseteq Unassigned(d)
  <2> TAKE d \in Clients
  <2>1. todo'[d] \subseteq todo[d]
    BY <1>1
  <2>2. Unassigned(d)' = {Task(d, gen[d], want[d], q, "todo", offer[d]) : q \in todo'[d]}
    BY <1>1 DEF Unassigned, Task
  <2> QED
    BY <2>1, <2>2 DEF Unassigned
<1>4. \A y \in tasks' : \E x \in tasks : SameKey(x, y) /\ StepsOf(y) \subseteq StepsOf(x)
  <2>1. \A t \in tasks : t.left \in SUBSET Clients
    BY DEF Inv, TypeOK, Tasks
  <2>2. ASSUME NEW t \in tasks, t.at \in Waiting
        PROVE  /\ SameKey(t, Closed(t, "connect", t.left))
               /\ StepsOf(Closed(t, "connect", t.left)) \subseteq StepsOf(t)
    <3> DEFINE u == Closed(t, "connect", t.left)
    <3>0. t.left \in SUBSET Clients
      BY <2>1
    <3>1. SameKey(t, u) /\ u.at = "connect" /\ u.left = t.left /\ u.by = t.by
      BY <3>0, ClosedType
    <3> HIDE DEF u
    <3>2. StepsOf(u) \subseteq StepsOf(t)
      BY <2>2, <3>1 DEF StepsOf, OwnSteps, StepsWithSeeder, Waiting
    <3> QED
      BY <3>1, <3>2 DEF u
  <2>3. \A y \in tasks' : \E x \in tasks :
           y = x \/ (x.at \in Waiting /\ y = Closed(x, "connect", x.left))
    BY DEF Quit
  <2> QED
    BY <2>2, <2>3 DEF SameKey
<1>5. PieceSteps' \subseteq PieceSteps
  <2>1. \A y \in AllTasks' : \E x \in AllTasks :
           SameKey(x, y) /\ StepsOf(y) \subseteq StepsOf(x)
    BY <1>3, <1>4 DEF AllTasks, SameKey
  <2> QED
    BY <2>1, NothingAdded
<1>6. HashSteps' \subseteq HashSteps
  <2>1. \A d \in Clients : ToHash(d)' \subseteq ToHash(d)
    BY <1>1 DEF ToHash
  <2> QED
    BY <2>1, InHashSteps
<1> QED
  BY <1>2, <1>5, <1>6

\* There is only so much to do.
LEMMA FiniteWork ==
    ASSUME Inv
    PROVE  IsFiniteSet(PieceSteps) /\ IsFiniteSet(PhaseSteps) /\ IsFiniteSet(HashSteps)
<1>1. IsFiniteSet(0..MaxDownloads) /\ IsFiniteSet(1..4)
  <2>1. MaxDownloads \in Int /\ 0 \in Int /\ 1 \in Int /\ 4 \in Int
    OBVIOUS
  <2> QED
    BY <2>1, FS_Interval
<1>2. IsFiniteSet(Clients \X (1..4))
  BY <1>1, FS_Product
<1>3. IsFiniteSet(Clients \X (0..MaxDownloads) \X Pieces)
  <2> DEFINE S == (Clients \X (0..MaxDownloads)) \X Pieces
             T == Clients \X (0..MaxDownloads) \X Pieces
             f == [z \in S |-> <<z[1][1], z[1][2], z[2]>>]
  <2>1. IsFiniteSet(S)
    BY <1>1, FS_Product
  <2>2. f \in [S -> T] /\ \A x, y \in S : f[x] = f[y] => x = y
    OBVIOUS
  <2>3. \A z \in T : \E x \in S : f[x] = z
    <3> TAKE z \in T
    <3>1. <<<<z[1], z[2]>>, z[3]>> \in S /\ f[<<<<z[1], z[2]>>, z[3]>>] = z
      OBVIOUS
    <3> QED
      BY <3>1
  <2> HIDE DEF f, S, T
  <2>4. IsFiniteSet(T)
    BY <2>1, <2>2, <2>3, SameSize
  <2> QED
    BY <2>4 DEF T
<1> DEFINE All == (Clients \X (0..MaxDownloads) \X Pieces) \X (Clients \X (1..4))
<1>4. IsFiniteSet(All)
  BY <1>2, <1>3, FS_Product
<1>5. PieceSteps \in SUBSET All
  <2>1. \A t \in AllTasks : KeyOf(t) \in Clients \X (0..MaxDownloads) \X Pieces
    BY AllTasksFacts DEF KeyOf
  <2>2. \A t \in AllTasks : StepsOf(t) \subseteq Clients \X (1..4)
    BY AllTasksFacts DEF StepsOf, OwnSteps, StepsWithSeeder
  <2> QED
    BY <2>1, <2>2, InPieceSteps
<1>6. PhaseSteps \in SUBSET (Clients \X (1..4))
  <2>1. \A c \in Clients : PhasesAhead(phase[c]) \in 0..4
    BY PhasesAheadType DEF Inv, TypeOK
  <2>2. \A c \in Clients : {c} \X (1..PhasesAhead(phase[c])) \subseteq Clients \X (1..4)
    BY <2>1
  <2> QED
    BY <2>2 DEF PhaseSteps
<1>7. HashSteps \in SUBSET (Clients \X Pieces) /\ IsFiniteSet(Clients \X Pieces)
  <2>1. \A c \in Clients : ToHash(c) \subseteq Pieces
    BY DEF ToHash, Inv, TypeOK
  <2> QED
    BY <2>1, InHashSteps, FS_Product
<1> QED
  BY <1>2, <1>4, <1>5, <1>6, <1>7, FS_Subset

\* Between two downloads the threads come to an end of their steps, whatever
\* seeders fail or quit: what there is to do is finite ...
THEOREM OnlySoMuchToDo ==
    Spec => [](IsFiniteSet(PieceSteps) /\ IsFiniteSet(PhaseSteps) /\ IsFiniteSet(HashSteps))
<1>1. Inv => IsFiniteSet(PieceSteps) /\ IsFiniteSet(PhaseSteps) /\ IsFiniteSet(HashSteps)
  BY FiniteWork
<1> QED
  BY <1>1, Invariant, PTL

\* ... nothing is added to it but by a new download, and every step of a thread
\* takes something from it.
THEOREM NobodyRetriesForEver == Spec => WorkRunsOut
<1> DEFINE Less == started' = started =>
                      /\ PieceSteps' \subseteq PieceSteps
                      /\ PhaseSteps' \subseteq PhaseSteps
                      /\ HashSteps' \subseteq HashSteps
                      /\ up' = up => \/ PhaseSteps' # PhaseSteps \/ HashSteps' # HashSteps
                                     \/ PieceSteps' # PieceSteps
<1>1. ASSUME Inv, Next
      PROVE  Less
  <2>1. CASE Work
    BY <1>1, <2>1, WorkStep
  <2>2. ASSUME NEW c \in Clients, StartDownload(c) \/ Abandon(c) \/ VanishedOffer(c)
        PROVE  started' # started
    BY <1>1, <2>2, StartInv, AbandonInv
  <2>3. ASSUME NEW c \in Clients, Quit(c)
        PROVE  /\ PieceSteps' \subseteq PieceSteps /\ PhaseSteps' \subseteq PhaseSteps
               /\ HashSteps' \subseteq HashSteps /\ up' # up
    <3>1. up' # up
      BY <2>3 DEF Quit
    <3> QED
      BY <1>1, <2>3, <3>1, QuitStep
  <2> QED
    BY <1>1, <2>1, <2>2, <2>3 DEF Next
<1>2. Inv /\ [Next]_vars => [Less]_vars
  BY <1>1
<1> QED
  BY <1>2, Invariant, PTL DEF Spec, WorkRunsOut

-----------------------------------------------------------------------------
(***************************************************************************)
(* What can stop the swarm.                                                *)
(***************************************************************************)
\* If no thread can go on, everybody waits in the queue of a client whose slots
\* are all taken by pieces that it downloads itself, and that wait likewise.
THEOREM OnlyCirclesStop == Spec => []OnlyACircleStops
<1>1. ASSUME Inv, ~SomebodyCanGoOn
      PROVE  /\ \A t \in tasks : t.at = "queued" /\ FullOfItsOwn(t.from)
             /\ \A c \in up : phase[c] # "idle" => FullOfItsOwn(c)
  <2>1. \A t \in tasks : t.at = "queued" /\ ~(busy[t.from] < MaxThreads)
    BY <1>1 DEF SomebodyCanGoOn
  <2>2. \A c \in up : phase[c] # "idle" => ~(busy[c] < MaxThreads)
    BY <1>1 DEF SomebodyCanGoOn
  <2>3. ASSUME NEW c \in up, ~(busy[c] < MaxThreads)
        PROVE  FullOfItsOwn(c)
    <3>1. busy[c] = MaxThreads
      <4>1. c \in Clients
        BY <1>1 DEF Inv, TypeOK
      <4> QED
        BY <1>1, <2>3, <4>1, DownloadFacts
    <3>2. Slots(c) = {t \in tasks : t.by = c}
      BY <2>1 DEF Slots, Occupies
    <3> QED
      BY <1>1, <3>1, <3>2 DEF FullOfItsOwn, Inv, SlotsCounted
  <2>4. \A t \in tasks : t.from \in up
    BY <1>1, <2>1, TaskFacts DEF TaskOK, Waiting
  <2> QED
    BY <2>1, <2>2, <2>3, <2>4
<1>2. Inv => OnlyACircleStops
  BY <1>1 DEF OnlyACircleStops
<1> QED
  BY <1>2, Invariant, PTL
=============================================================================
