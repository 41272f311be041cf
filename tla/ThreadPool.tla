----------------------------- MODULE ThreadPool -----------------------------
(***************************************************************************)
(* The thread pool of a tracker and of a client (tracker_threads.cpp and   *)
(* client_threads.cpp, which are alike, with assign_task_to_thread and     *)
(* assign_download_task).                                                  *)
(*                                                                         *)
(* An assigner takes a slot under thread_mutex, and then, without it,      *)
(* starts a thread, stores it in thread_pool[idx] and detaches it; the     *)
(* thread gives the slot back when its task is done.  A tracker has one    *)
(* assigner, its accept loop; a client has two, the loop that serves peers *)
(* and a download, which calls join_all_threads after its last piece.      *)
(***************************************************************************)
EXTENDS Naturals, FiniteSets

CONSTANTS
    MaxThreads,     \* MAX_THREADS
    Assigners,      \* the threads that may assign tasks
    Joiners,        \* those of them that call join_all_threads
    NoThread,       \* the value of an std::thread that holds no thread
    MaxNotices      \* bound: notify_one calls that are late at the same time

ASSUME PoolAssumption ==
    /\ MaxThreads \in Nat \ {0} /\ MaxNotices \in Nat \ {0}
    /\ IsFiniteSet(Assigners) /\ Joiners \subseteq Assigners
    /\ NoThread \notin Assigners

VARIABLES
    active,         \* the assigners this program has
    available,      \* slot -> thread_available
    object,         \* slot -> whose thread thread_pool[slot] holds
    running,        \* slot -> whose task runs in it and has not released it
    notices,        \* notify_one calls still to be made
    pc,             \* assigner -> what it does next
    slot,           \* assigner -> its slot, or the one it joins
    dead            \* std::terminate was called

vars == <<active, available, object, running, notices, pc, slot, dead>>

Slots == 0..(MaxThreads - 1)

Steps == {"idle", "check", "asleep", "launch", "store", "detach", "joinable",
          "join"}

At(a, step) == ~dead /\ pc[a] = step

Goto(a, step) == pc' = [pc EXCEPT ![a] = step]

\* An exception nobody catches, or a thread destroyed without join or detach.
Terminate == dead' = TRUE /\ UNCHANGED <<object, pc>>

-----------------------------------------------------------------------------
Init ==
    /\ active \in SUBSET Assigners
    /\ available = [s \in Slots |-> TRUE]
    /\ object = [s \in Slots |-> NoThread]
    /\ running = [s \in Slots |-> NoThread]
    /\ notices = 0
    /\ pc = [a \in Assigners |-> "idle"]
    /\ slot = [a \in Assigners |-> 0]
    /\ dead = FALSE

-----------------------------------------------------------------------------
(***************************************************************************)
(* An assigner.                                                            *)
(***************************************************************************)
\* A connection was accepted, or there is a piece to download.
Assign(a) ==
    /\ At(a, "idle")
    /\ Goto(a, "check")
    /\ UNCHANGED <<active, available, object, running, notices, slot, dead>>

\* A slip: get_available_thread leaves the slot to the thread to mark.
TakeUnmarked(a) ==
    /\ At(a, "check")
    /\ \E s \in Slots :
          /\ available[s]
          /\ slot' = [slot EXCEPT ![a] = s]
    /\ Goto(a, "launch")
    /\ UNCHANGED <<active, available, object, running, notices, dead>>

\* is_any_thread_available and get_available_thread under one lock.
Take(a) ==
    /\ At(a, "check")
    /\ \E s \in Slots :
          /\ available[s] /\ \A r \in Slots : available[r] => s <= r
          /\ available' = [available EXCEPT ![s] = FALSE]
          /\ slot' = [slot EXCEPT ![a] = s]
    /\ Goto(a, "launch")
    /\ UNCHANGED <<active, object, running, notices, dead>>

\* A slip: the wait does not look at the slots again before it sleeps.
SleepUnchecked(a) ==
    /\ At(a, "check")
    /\ Goto(a, "asleep")
    /\ UNCHANGED <<active, available, object, running, notices, slot, dead>>

Sleep(a) ==
    /\ At(a, "check")
    /\ \A s \in Slots : ~available[s]
    /\ Goto(a, "asleep")
    /\ UNCHANGED <<active, available, object, running, notices, slot, dead>>

\* thread_cv.wait may return without a notice, and then looks again.
WakeSpuriously(a) ==
    /\ At(a, "asleep")
    /\ Goto(a, "check")
    /\ UNCHANGED <<active, available, object, running, notices, slot, dead>>

\* The new thread runs from here on, before it is stored.
Launch(a) ==
    /\ At(a, "launch")
    /\ running' = [running EXCEPT ![slot[a]] = a]
    /\ Goto(a, "store")
    /\ UNCHANGED <<active, available, object, notices, slot, dead>>

\* Assigning over a thread that is neither joined nor detached terminates.
Store(a) ==
    /\ At(a, "store")
    /\ IF object[slot[a]] # NoThread THEN Terminate
       ELSE /\ object' = [object EXCEPT ![slot[a]] = a]
            /\ Goto(a, "detach")
            /\ UNCHANGED dead
    /\ UNCHANGED <<active, available, running, notices, slot>>

\* A slip: the thread is not detached.
DetachForgotten(a) ==
    /\ At(a, "detach")
    /\ Goto(a, "idle")
    /\ UNCHANGED <<active, available, object, running, notices, slot, dead>>

\* detach throws when thread_pool[slot] holds no thread.
Detach(a) ==
    /\ At(a, "detach")
    /\ IF object[slot[a]] = NoThread THEN Terminate
       ELSE /\ object' = [object EXCEPT ![slot[a]] = NoThread]
            /\ Goto(a, "idle")
            /\ UNCHANGED dead
    /\ UNCHANGED <<active, available, running, notices, slot>>

-----------------------------------------------------------------------------
(***************************************************************************)
(* join_all_threads.                                                       *)
(***************************************************************************)
BeginJoin(a) ==
    /\ a \in Joiners /\ At(a, "idle")
    /\ Goto(a, "joinable")
    /\ slot' = [slot EXCEPT ![a] = 0]
    /\ UNCHANGED <<active, available, object, running, notices, dead>>

\* A slip: the loop runs up to MAX_THREADS inclusively.
NextSlotPastTheEnd(a) ==
    IF slot[a] \in Slots
    THEN slot' = [slot EXCEPT ![a] = @ + 1] /\ Goto(a, "joinable")
    ELSE Goto(a, "idle") /\ UNCHANGED slot

\* On to the next slot, or out of the loop.
NextSlot(a) ==
    IF slot[a] + 1 \in Slots
    THEN slot' = [slot EXCEPT ![a] = @ + 1] /\ Goto(a, "joinable")
    ELSE Goto(a, "idle") /\ UNCHANGED slot

Joinable(a) ==
    /\ At(a, "joinable")
    /\ IF object[slot[a]] = NoThread THEN NextSlot(a)
       ELSE Goto(a, "join") /\ UNCHANGED slot
    /\ UNCHANGED <<active, available, object, running, notices, dead>>

\* join throws when the thread was detached meanwhile; else it waits for its end.
Join(a) ==
    LET s == slot[a]
    IN  /\ At(a, "join")
        /\ \/ object[s] = NoThread /\ Terminate /\ UNCHANGED slot
           \/ /\ object[s] # NoThread /\ running[s] # object[s]
              /\ object' = [object EXCEPT ![s] = NoThread]
              /\ NextSlot(a)
              /\ UNCHANGED dead
        /\ UNCHANGED <<active, available, running, notices>>

-----------------------------------------------------------------------------
(***************************************************************************)
(* The threads of the pool.                                                *)
(***************************************************************************)
\* A slip: the slot is given back without telling anybody.
ReleaseQuietly(s) ==
    /\ ~dead /\ running[s] # NoThread
    /\ running' = [running EXCEPT ![s] = NoThread]
    /\ available' = [available EXCEPT ![s] = TRUE]
    /\ UNCHANGED <<active, object, notices, pc, slot, dead>>

\* The task is done, and release_thread marks the slot ...
Release(s) ==
    /\ ~dead /\ running[s] # NoThread
    /\ notices < MaxNotices
    /\ running' = [running EXCEPT ![s] = NoThread]
    /\ available' = [available EXCEPT ![s] = TRUE]
    /\ notices' = notices + 1
    /\ UNCHANGED <<active, object, pc, slot, dead>>

\* ... and, without the lock, wakes one assigner if any sleeps.
Notify ==
    /\ ~dead /\ notices > 0
    /\ notices' = notices - 1
    /\ \/ \E a \in active : At(a, "asleep") /\ Goto(a, "check")
       \/ (\A a \in active : ~At(a, "asleep")) /\ UNCHANGED pc
    /\ UNCHANGED <<active, available, object, running, slot, dead>>

-----------------------------------------------------------------------------
\* What an assigner does without waiting for work, a slot or a thread.
Advance(a) == Take(a) \/ Sleep(a) \/ Launch(a) \/ Store(a) \/ Detach(a)

Next ==
    \/ \E a \in active :
          \/ Assign(a)
          \/ Advance(a)
          \/ WakeSpuriously(a)
          \/ BeginJoin(a)
          \/ Joinable(a)
          \/ Join(a)
    \/ \E s \in Slots : Release(s)
    \/ Notify

\* Threads keep running; but a task, an idle session for one, may take for ever.
Fairness == WF_vars(Notify) /\ \A a \in Assigners : WF_vars(a \in active /\ Advance(a))

Spec == Init /\ [][Next]_vars /\ Fairness

-----------------------------------------------------------------------------
\* Every variable has its type.
TypeOK ==
    /\ active \subseteq Assigners
    /\ available \in [Slots -> BOOLEAN]
    /\ object \in [Slots -> Assigners \cup {NoThread}]
    /\ running \in [Slots -> Assigners \cup {NoThread}]
    /\ notices \in 0..MaxNotices
    /\ pc \in [Assigners -> Steps]
    /\ slot \in [Assigners -> Slots]
    /\ dead \in BOOLEAN

Launching(a, s) == pc[a] = "launch" /\ slot[a] = s

\* A slot is marked unavailable exactly while one assigner is about to start a
\* thread in it or one task runs in it, never two and never both, although the
\* thread is started after thread_mutex is given up: no slot is lost and no
\* slot is used twice.
SlotAccounting ==
    \A s \in Slots :
        /\ available[s] <=> /\ running[s] = NoThread
                            /\ \A a \in Assigners : ~Launching(a, s)
        /\ \A a, b \in Assigners : Launching(a, s) /\ Launching(b, s) => a = b
        /\ \A a \in Assigners : Launching(a, s) => running[s] = NoThread

\* A program with one assigner, the tracker, is never terminated by its pool,
\* though a thread may give its slot back before it is stored and detached.
LoneAssignerSurvives ==
    dead => \E a, b \in active : a # b

\* While an assigner sleeps there are no more free slots than wake-ups that are
\* still to come or whose assigner is about to look: notify_one may be late, or
\* wake another, but none is missing.
WakeUpsCoverFreeSlots ==
    (\E a \in active : pc[a] = "asleep") =>
        Cardinality({s \in Slots : available[s]})
            <= notices + Cardinality({a \in active : pc[a] = "check"})

\* The tasks in the pool, those of threads not yet started included.
Taken == Cardinality({a \in Assigners : pc[a] = "launch"})
             + Cardinality({s \in Slots : running[s] # NoThread})

Counter == INSTANCE SlotCounter WITH taken <- Taken

\* To its users the pool is a counter: each task takes one of MAX_THREADS slots
\* and gives one back, whatever lies between taking a slot and using it.
RefinesCounter == Counter!Spec

\* A wake-up is never lost: an assigner does not sleep on while a slot is free.
NoLostWakeup ==
    \A a \in Assigners :
        At(a, "asleep") /\ (\E s \in Slots : available[s])
            ~> ~At(a, "asleep") \/ \A s \in Slots : ~available[s]
=============================================================================
