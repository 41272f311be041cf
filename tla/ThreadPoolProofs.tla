-------------------------- MODULE ThreadPoolProofs --------------------------
(***************************************************************************)
(* The thread pool of any size, with any finite set of assigners: no slot  *)
(* is lost or used twice, a lone assigner does not terminate its program,  *)
(* there are wake-ups enough for the free slots, and so the pool is the    *)
(* counter SlotCounter.  Liveness (NoLostWakeup) is left to TLC.           *)
(***************************************************************************)
EXTENDS ThreadPool, FiniteSetTheorems, FunctionTheorems, TLAPS

\* A stored thread is about to be detached by the assigner who stored it.
StoredIsDetachedNext ==
    \A s \in Slots :
        object[s] # NoThread =>
            pc[object[s]] = "detach" /\ slot[object[s]] = s

\* An assigner the program does not have does nothing.
OthersIdle == \A a \in Assigners : a \notin active => pc[a] = "idle"

\* A lone assigner finds the thread it stored, and never a thread to join.
LoneIsUndisturbed ==
    (\A a, b \in active : a = b) =>
        \A a \in active :
            /\ pc[a] = "detach" => object[slot[a]] = a
            /\ pc[a] # "join"

Inv == /\ TypeOK /\ SlotAccounting /\ StoredIsDetachedNext /\ OthersIdle
       /\ LoneIsUndisturbed /\ LoneAssignerSurvives

-----------------------------------------------------------------------------
\* 0 is a slot.
LEMMA SlotZero == 0 \in Slots /\ Slots \subseteq Nat
BY PoolAssumption DEF Slots

LEMMA InitInv == Init => Inv
<1> SUFFICES ASSUME Init PROVE Inv  OBVIOUS
<1>1. TypeOK
  <2>1. 0 \in 0..MaxNotices  BY PoolAssumption
  <2> QED  BY <2>1, SlotZero DEF Init, TypeOK, Steps
<1>2. \A a \in Assigners, s \in Slots : ~Launching(a, s)
  BY DEF Init, Launching
<1>3. \A s \in Slots : available[s] = TRUE /\ running[s] = NoThread
  BY DEF Init
<1>4. SlotAccounting  BY <1>2, <1>3 DEF SlotAccounting
<1>5. StoredIsDetachedNext /\ OthersIdle
  BY DEF Init, StoredIsDetachedNext, OthersIdle
<1>6. LoneIsUndisturbed
  BY DEF Init, LoneIsUndisturbed
<1>7. LoneAssignerSurvives  BY DEF Init, LoneAssignerSurvives
<1> QED  BY <1>1, <1>4, <1>5, <1>6, <1>7 DEF Inv

\* Steps that keep the slots and start nothing keep the accounting.
LEMMA AccountingStep ==
    ASSUME SlotAccounting, UNCHANGED <<available, running>>,
           \A a \in Assigners, s \in Slots : Launching(a, s)' <=> Launching(a, s)
    PROVE  SlotAccounting'
BY DEF SlotAccounting

\* One assigner moves to another step, neither from nor to one that touches
\* a thread.
LEMMA MoveInv ==
    ASSUME Inv, NEW a \in active, NEW step \in {"idle", "check", "asleep"},
           pc[a] \in {"idle", "check", "asleep", "joinable"}, ~dead,
           Goto(a, step), notices' \in 0..MaxNotices,
           UNCHANGED <<active, available, object, running, slot, dead>>
    PROVE  Inv'
<1> USE DEF Inv, Goto
<1>1. a \in Assigners  BY DEF TypeOK
<1>2. TypeOK'  BY <1>1 DEF TypeOK, Steps
<1>3. \A b \in Assigners, s \in Slots : Launching(b, s)' <=> Launching(b, s)
  BY <1>1 DEF Launching, TypeOK
<1>4. SlotAccounting'  BY <1>3, AccountingStep
<1>5. StoredIsDetachedNext'  BY <1>1 DEF StoredIsDetachedNext, TypeOK
<1>6. OthersIdle'  BY <1>1 DEF OthersIdle, TypeOK
<1>7. LoneIsUndisturbed'  BY <1>1 DEF LoneIsUndisturbed, TypeOK
<1>8. LoneAssignerSurvives'  BY DEF LoneAssignerSurvives
<1> QED  BY <1>2, <1>4, <1>5, <1>6, <1>7, <1>8

-----------------------------------------------------------------------------
LEMMA TakeInv == ASSUME Inv, NEW a \in active, Take(a) PROVE Inv'
<1> USE DEF Inv, Goto, At
<1>1. a \in Assigners /\ pc[a] = "check"  BY DEF Take, TypeOK
<1>2. PICK s \in Slots : /\ available[s]
                         /\ available' = [available EXCEPT ![s] = FALSE]
                         /\ slot' = [slot EXCEPT ![a] = s]
  BY DEF Take
<1>3. /\ pc' = [pc EXCEPT ![a] = "launch"]
      /\ UNCHANGED <<active, object, running, notices, dead>>
  BY DEF Take
<1>4. TypeOK'  BY <1>1, <1>2, <1>3 DEF TypeOK, Steps
<1>5. SlotAccounting'
  <2>1. \A b \in Assigners, r \in Slots :
            Launching(b, r)' <=> Launching(b, r) \/ (b = a /\ r = s)
    BY <1>1, <1>2, <1>3 DEF Launching, TypeOK
  <2>2. \A r \in Slots : available'[r] = IF r = s THEN FALSE ELSE available[r]
    BY <1>2 DEF TypeOK
  <2>3. running[s] = NoThread /\ \A b \in Assigners : ~Launching(b, s)
    BY <1>2 DEF SlotAccounting
  <2>4. ~available'[s] /\ Launching(a, s)'  BY <1>1, <2>1, <2>2
  <2>5. ASSUME NEW r \in Slots, r # s
        PROVE  /\ available'[r] = available[r]
               /\ \A b \in Assigners : Launching(b, r)' <=> Launching(b, r)
    BY <2>1, <2>2, <2>5
  <2> QED  BY <1>1, <1>3, <2>1, <2>3, <2>4, <2>5 DEF SlotAccounting
<1>6. StoredIsDetachedNext'
  BY <1>1, <1>2, <1>3 DEF StoredIsDetachedNext, TypeOK
<1>7. OthersIdle'  BY <1>1, <1>3 DEF OthersIdle, TypeOK
<1>8. LoneIsUndisturbed'  BY <1>1, <1>2, <1>3 DEF LoneIsUndisturbed, TypeOK
<1>9. LoneAssignerSurvives'  BY <1>3 DEF LoneAssignerSurvives
<1> QED  BY <1>4, <1>5, <1>6, <1>7, <1>8, <1>9

LEMMA LaunchInv == ASSUME Inv, NEW a \in active, Launch(a) PROVE Inv'
<1> USE DEF Inv, Goto, At
<1>1. a \in Assigners /\ pc[a] = "launch"  BY DEF Launch, TypeOK
<1>2. slot[a] \in Slots /\ Launching(a, slot[a])  BY <1>1 DEF TypeOK, Launching
<1>3. /\ running' = [running EXCEPT ![slot[a]] = a]
      /\ pc' = [pc EXCEPT ![a] = "store"]
      /\ UNCHANGED <<active, available, object, notices, slot, dead>>
  BY DEF Launch
<1>4. TypeOK'  BY <1>1, <1>2, <1>3 DEF TypeOK, Steps
<1>5. SlotAccounting'
  <2>1. \A b \in Assigners, r \in Slots :
            Launching(b, r)' <=> Launching(b, r) /\ b # a
    BY <1>1, <1>3 DEF Launching, TypeOK
  <2>2. \A r \in Slots : running'[r] = IF r = slot[a] THEN a ELSE running[r]
    BY <1>2, <1>3 DEF TypeOK
  <2>3. \A b \in Assigners : Launching(b, slot[a]) => b = a
    BY <1>1, <1>2 DEF SlotAccounting
  <2>4. \A r \in Slots : Launching(a, r) => r = slot[a]  BY DEF Launching
  <2>5. a # NoThread  BY <1>1, PoolAssumption
  <2>6. ~available[slot[a]]  BY <1>1, <1>2 DEF SlotAccounting
  <2> QED
    BY <1>1, <1>3, <2>1, <2>2, <2>3, <2>4, <2>5, <2>6 DEF SlotAccounting
<1>6. StoredIsDetachedNext'
  BY <1>1, <1>3 DEF StoredIsDetachedNext, TypeOK
<1>7. OthersIdle'  BY <1>1, <1>3 DEF OthersIdle, TypeOK
<1>8. LoneIsUndisturbed'  BY <1>1, <1>3 DEF LoneIsUndisturbed, TypeOK
<1>9. LoneAssignerSurvives'  BY <1>3 DEF LoneAssignerSurvives
<1> QED  BY <1>4, <1>5, <1>6, <1>7, <1>8, <1>9

\* A lone assigner stores into an empty object: the thread in it would have to
\* be its own, and it would be about to detach it.
LEMMA NothingStored ==
    ASSUME Inv, NEW a \in active, \A b, c \in active : b = c,
           pc[a] # "detach", NEW s \in Slots
    PROVE  object[s] = NoThread
BY DEF Inv, TypeOK, StoredIsDetachedNext, OthersIdle

LEMMA StoreInv == ASSUME Inv, NEW a \in active, Store(a) PROVE Inv'
<1> USE DEF Inv, Goto, At
<1>1. /\ a \in Assigners /\ pc[a] = "store" /\ slot[a] \in Slots
      /\ UNCHANGED <<active, available, running, notices, slot>>
  BY DEF Store, TypeOK
<1>2. CASE object[slot[a]] # NoThread
  <2>1. dead' = TRUE /\ UNCHANGED <<object, pc>>
    BY <1>2 DEF Store, Terminate
  <2>2. LoneAssignerSurvives'
    BY <1>1, <1>2, NothingStored DEF LoneAssignerSurvives
  <2>3. \A b \in Assigners, s \in Slots : Launching(b, s)' <=> Launching(b, s)
    BY <1>1, <2>1 DEF Launching
  <2>4. SlotAccounting'  BY <1>1, <2>3, AccountingStep
  <2> QED
    BY <1>1, <2>1, <2>2, <2>4
       DEF TypeOK, StoredIsDetachedNext, OthersIdle, LoneIsUndisturbed
<1>3. CASE object[slot[a]] = NoThread
  <2>1. /\ object' = [object EXCEPT ![slot[a]] = a]
        /\ pc' = [pc EXCEPT ![a] = "detach"]
        /\ UNCHANGED dead
    BY <1>3 DEF Store
  <2>2. TypeOK'  BY <1>1, <2>1 DEF TypeOK, Steps
  <2>3. \A b \in Assigners, s \in Slots : Launching(b, s)' <=> Launching(b, s)
    BY <1>1, <2>1 DEF Launching, TypeOK
  <2>4. SlotAccounting'  BY <1>1, <2>3, AccountingStep
  <2>5. StoredIsDetachedNext'
    BY <1>1, <2>1 DEF StoredIsDetachedNext, TypeOK
  <2>6. OthersIdle'  BY <1>1, <2>1 DEF OthersIdle, TypeOK
  <2>7. LoneIsUndisturbed'  BY <1>1, <2>1 DEF LoneIsUndisturbed, TypeOK
  <2>8. LoneAssignerSurvives'  BY <1>1, <2>1 DEF LoneAssignerSurvives
  <2> QED  BY <2>2, <2>4, <2>5, <2>6, <2>7, <2>8
<1> QED  BY <1>2, <1>3

LEMMA DetachInv == ASSUME Inv, NEW a \in active, Detach(a) PROVE Inv'
<1> USE DEF Inv, Goto, At
<1>1. /\ a \in Assigners /\ pc[a] = "detach" /\ slot[a] \in Slots
      /\ UNCHANGED <<active, available, running, notices, slot>>
  BY DEF Detach, TypeOK
<1>2. CASE object[slot[a]] = NoThread
  <2>1. dead' = TRUE /\ UNCHANGED <<object, pc>>
    BY <1>2 DEF Detach, Terminate
  <2>2. LoneAssignerSurvives'
    BY <1>1, <1>2, PoolAssumption DEF LoneAssignerSurvives, LoneIsUndisturbed
  <2>3. \A b \in Assigners, s \in Slots : Launching(b, s)' <=> Launching(b, s)
    BY <1>1, <2>1 DEF Launching
  <2>4. SlotAccounting'  BY <1>1, <2>3, AccountingStep
  <2> QED
    BY <1>1, <2>1, <2>2, <2>4
       DEF TypeOK, StoredIsDetachedNext, OthersIdle, LoneIsUndisturbed
<1>3. CASE object[slot[a]] # NoThread
  <2>1. /\ object' = [object EXCEPT ![slot[a]] = NoThread]
        /\ pc' = [pc EXCEPT ![a] = "idle"]
        /\ UNCHANGED dead
    BY <1>3 DEF Detach
  <2>2. TypeOK'  BY <1>1, <2>1 DEF TypeOK, Steps
  <2>3. \A b \in Assigners, s \in Slots : Launching(b, s)' <=> Launching(b, s)
    BY <1>1, <2>1 DEF Launching, TypeOK
  <2>4. SlotAccounting'  BY <1>1, <2>3, AccountingStep
  <2>5. StoredIsDetachedNext'
    BY <1>1, <2>1 DEF StoredIsDetachedNext, TypeOK
  <2>6. OthersIdle'  BY <1>1, <2>1 DEF OthersIdle, TypeOK
  <2>7. LoneIsUndisturbed'  BY <1>1, <2>1 DEF LoneIsUndisturbed, TypeOK
  <2>8. LoneAssignerSurvives'  BY <1>1, <2>1 DEF LoneAssignerSurvives
  <2> QED  BY <2>2, <2>4, <2>5, <2>6, <2>7, <2>8
<1> QED  BY <1>2, <1>3

-----------------------------------------------------------------------------
LEMMA NextSlotMoves ==
    ASSUME TypeOK, NEW a \in Assigners, NextSlot(a)
    PROVE  \E step \in {"joinable", "idle"}, s \in Slots :
              /\ pc' = [pc EXCEPT ![a] = step]
              /\ slot' = [slot EXCEPT ![a] = s]
<1>1. CASE slot[a] + 1 \in Slots
  BY <1>1 DEF NextSlot, Goto
<1>2. CASE slot[a] + 1 \notin Slots
  <2>1. slot' = [slot EXCEPT ![a] = slot[a]]  BY <1>2 DEF NextSlot, TypeOK
  <2> QED  BY <1>2, <2>1 DEF NextSlot, Goto, TypeOK
<1> QED  BY <1>1, <1>2

\* Moving through join_all_threads, from one slot to the next or to its end.
LEMMA JoinerMoveInv ==
    ASSUME Inv, NEW a \in active, NEW step \in {"joinable", "idle"},
           NEW s \in Slots, pc[a] \in {"idle", "joinable", "join"},
           pc' = [pc EXCEPT ![a] = step], slot' = [slot EXCEPT ![a] = s],
           NEW r \in Slots,
           object' = object \/ object' = [object EXCEPT ![r] = NoThread],
           object' # object => pc[a] = "join",
           UNCHANGED <<active, available, running, notices, dead>>
    PROVE  Inv'
<1> USE DEF Inv
<1>1. a \in Assigners  BY DEF TypeOK
<1>2. TypeOK'  BY <1>1 DEF TypeOK, Steps
<1>3. \A b \in Assigners, q \in Slots : Launching(b, q)' <=> Launching(b, q)
  BY <1>1 DEF Launching, TypeOK
<1>4. SlotAccounting'  BY <1>3, AccountingStep
<1>5. StoredIsDetachedNext'  BY <1>1 DEF StoredIsDetachedNext, TypeOK
<1>6. OthersIdle'  BY <1>1 DEF OthersIdle, TypeOK
<1>7. LoneIsUndisturbed'
  <2> SUFFICES ASSUME \A b, c \in active : b = c PROVE LoneIsUndisturbed'
    BY DEF LoneIsUndisturbed
  <2>1. \A b \in active : b = a  OBVIOUS
  <2> QED  BY <1>1, <2>1 DEF LoneIsUndisturbed, TypeOK
<1>8. LoneAssignerSurvives'  BY DEF LoneAssignerSurvives
<1> QED  BY <1>2, <1>4, <1>5, <1>6, <1>7, <1>8

LEMMA BeginJoinInv == ASSUME Inv, NEW a \in active, BeginJoin(a) PROVE Inv'
BY JoinerMoveInv, SlotZero DEF BeginJoin, Goto, At

LEMMA JoinableInv == ASSUME Inv, NEW a \in active, Joinable(a) PROVE Inv'
<1>1. /\ a \in Assigners /\ pc[a] = "joinable" /\ slot[a] \in Slots
      /\ UNCHANGED <<active, available, object, running, notices, dead>>
  BY DEF Joinable, At, Inv, TypeOK
<1>2. CASE object[slot[a]] = NoThread
  <2>1. NextSlot(a)  BY <1>2 DEF Joinable
  <2> QED  BY <1>1, <2>1, NextSlotMoves, JoinerMoveInv DEF Inv
<1>3. CASE object[slot[a]] # NoThread
  <2> USE DEF Inv
  <2>1. pc' = [pc EXCEPT ![a] = "join"] /\ UNCHANGED slot
    BY <1>3 DEF Joinable, Goto
  <2>2. TypeOK'  BY <1>1, <2>1 DEF TypeOK, Steps
  <2>3. \A b \in Assigners, s \in Slots : Launching(b, s)' <=> Launching(b, s)
    BY <1>1, <2>1 DEF Launching, TypeOK
  <2>4. SlotAccounting'  BY <1>1, <2>3, AccountingStep
  <2>5. StoredIsDetachedNext'
    BY <1>1, <2>1 DEF StoredIsDetachedNext, TypeOK
  <2>6. OthersIdle'  BY <1>1, <2>1 DEF OthersIdle, TypeOK
  <2>7. ~(\A b, c \in active : b = c)  BY <1>1, <1>3, NothingStored
  <2>8. LoneIsUndisturbed' /\ LoneAssignerSurvives'
    BY <1>1, <2>7 DEF LoneIsUndisturbed, LoneAssignerSurvives
  <2> QED  BY <2>2, <2>4, <2>5, <2>6, <2>8
<1> QED  BY <1>2, <1>3

LEMMA JoinInv == ASSUME Inv, NEW a \in active, Join(a) PROVE Inv'
<1>1. /\ a \in Assigners /\ pc[a] = "join" /\ slot[a] \in Slots
      /\ UNCHANGED <<active, available, running, notices>>
  BY DEF Join, At, Inv, TypeOK
<1>2. CASE object[slot[a]] = NoThread
  <2> USE DEF Inv
  <2>1. dead' = TRUE /\ UNCHANGED <<object, pc, slot>>
    BY <1>2 DEF Join, Terminate
  <2>2. ~(\A b, c \in active : b = c)  BY <1>1 DEF LoneIsUndisturbed
  <2>3. LoneIsUndisturbed' /\ LoneAssignerSurvives'
    BY <1>1, <2>2 DEF LoneIsUndisturbed, LoneAssignerSurvives
  <2>4. \A b \in Assigners, s \in Slots : Launching(b, s)' <=> Launching(b, s)
    BY <1>1, <2>1 DEF Launching
  <2>5. SlotAccounting'  BY <1>1, <2>4, AccountingStep
  <2> QED
    BY <1>1, <2>1, <2>3, <2>5 DEF TypeOK, StoredIsDetachedNext, OthersIdle
<1>3. CASE object[slot[a]] # NoThread
  <2>1. /\ object' = [object EXCEPT ![slot[a]] = NoThread]
        /\ NextSlot(a) /\ UNCHANGED dead
    BY <1>3 DEF Join
  <2> QED  BY <1>1, <2>1, NextSlotMoves, JoinerMoveInv DEF Inv
<1> QED  BY <1>2, <1>3

-----------------------------------------------------------------------------
LEMMA ReleaseInv == ASSUME Inv, NEW s \in Slots, Release(s) PROVE Inv'
<1> USE DEF Inv
<1>1. /\ ~dead /\ running[s] # NoThread /\ notices < MaxNotices
      /\ running' = [running EXCEPT ![s] = NoThread]
      /\ available' = [available EXCEPT ![s] = TRUE]
      /\ notices' = notices + 1
      /\ UNCHANGED <<active, object, pc, slot, dead>>
  BY DEF Release
<1>2. notices' \in 0..MaxNotices  BY <1>1, PoolAssumption DEF TypeOK
<1>3. TypeOK'  BY <1>1, <1>2 DEF TypeOK
<1>4. SlotAccounting'
  <2>1. \A b \in Assigners, r \in Slots : Launching(b, r)' <=> Launching(b, r)
    BY <1>1 DEF Launching
  <2>2. \A r \in Slots :
            /\ available'[r] = IF r = s THEN TRUE ELSE available[r]
            /\ running'[r] = IF r = s THEN NoThread ELSE running[r]
    BY <1>1 DEF TypeOK
  <2>3. \A b \in Assigners : ~Launching(b, s)  BY <1>1 DEF SlotAccounting
  <2> QED  BY <2>1, <2>2, <2>3 DEF SlotAccounting
<1>5. StoredIsDetachedNext' /\ OthersIdle'
  BY <1>1 DEF StoredIsDetachedNext, OthersIdle
<1>6. LoneIsUndisturbed' /\ LoneAssignerSurvives'
  BY <1>1 DEF LoneIsUndisturbed, LoneAssignerSurvives
<1> QED  BY <1>3, <1>4, <1>5, <1>6

LEMMA NotifyInv == ASSUME Inv, Notify PROVE Inv'
<1>1. /\ ~dead /\ notices' \in 0..MaxNotices
      /\ UNCHANGED <<active, available, object, running, slot, dead>>
  BY PoolAssumption DEF Notify, Inv, TypeOK
<1>2. CASE \E a \in active : At(a, "asleep") /\ Goto(a, "check")
  BY <1>1, <1>2, MoveInv DEF At
<1>3. CASE UNCHANGED pc
  <2> USE DEF Inv
  <2>1. SlotAccounting'  BY <1>1, <1>3 DEF SlotAccounting, Launching
  <2> QED
    BY <1>1, <1>3, <2>1
       DEF TypeOK, StoredIsDetachedNext, OthersIdle, LoneIsUndisturbed,
           LoneAssignerSurvives
<1> QED  BY <1>2, <1>3 DEF Notify

LEMMA NextInv == Inv /\ [Next]_vars => Inv'
<1> SUFFICES ASSUME Inv, [Next]_vars PROVE Inv'  OBVIOUS
<1>1. ASSUME NEW a \in active, Assign(a) \/ Sleep(a) \/ WakeSpuriously(a)
      PROVE  Inv'
  <2>1. notices' \in 0..MaxNotices
    BY <1>1 DEF Assign, Sleep, WakeSpuriously, Inv, TypeOK
  <2> QED  BY <1>1, <2>1, MoveInv DEF Assign, Sleep, WakeSpuriously, At
<1>2. ASSUME NEW a \in active, Take(a) PROVE Inv'  BY <1>2, TakeInv
<1>3. ASSUME NEW a \in active, Launch(a) PROVE Inv'  BY <1>3, LaunchInv
<1>4. ASSUME NEW a \in active, Store(a) PROVE Inv'  BY <1>4, StoreInv
<1>5. ASSUME NEW a \in active, Detach(a) PROVE Inv'  BY <1>5, DetachInv
<1>6. ASSUME NEW a \in active, BeginJoin(a) PROVE Inv'  BY <1>6, BeginJoinInv
<1>7. ASSUME NEW a \in active, Joinable(a) PROVE Inv'  BY <1>7, JoinableInv
<1>8. ASSUME NEW a \in active, Join(a) PROVE Inv'  BY <1>8, JoinInv
<1>9. ASSUME NEW s \in Slots, Release(s) PROVE Inv'  BY <1>9, ReleaseInv
<1>10. CASE Notify  BY <1>10, NotifyInv
<1>11. CASE UNCHANGED vars
  <2>1. SlotAccounting'  BY <1>11 DEF Inv, SlotAccounting, Launching, vars
  <2> QED
    BY <1>11, <2>1
       DEF Inv, TypeOK, StoredIsDetachedNext, OthersIdle, LoneIsUndisturbed,
           LoneAssignerSurvives, vars
<1> QED
  BY <1>1, <1>2, <1>3, <1>4, <1>5, <1>6, <1>7, <1>8, <1>9, <1>10, <1>11
     DEF Next, Advance

-----------------------------------------------------------------------------
\* The inductive invariant of the pool.
THEOREM Invariant == Spec => []Inv
BY InitInv, NextInv, PTL DEF Spec

\* TypeOK, for a pool of any size.
THEOREM TypeCorrect == Spec => []TypeOK
<1>1. Inv => TypeOK  BY DEF Inv
<1> QED  BY <1>1, Invariant, PTL

\* SlotAccounting: assign_task_to_thread, assign_download_task and
\* release_thread never lose a slot and never give one to two tasks.
THEOREM SlotsAreAccounted == Spec => []SlotAccounting
<1>1. Inv => SlotAccounting  BY DEF Inv
<1> QED  BY <1>1, Invariant, PTL

\* LoneAssignerSurvives: the accept loop of a tracker, being the only assigner,
\* never assigns over a thread it has not detached.
THEOREM LoneAssignerIsSafe == Spec => []LoneAssignerSurvives
<1>1. Inv => LoneAssignerSurvives  BY DEF Inv
<1> QED  BY <1>1, Invariant, PTL

-----------------------------------------------------------------------------
(***************************************************************************)
(* Wake-ups: the free slots, the assigners about to look, and the notices. *)
(***************************************************************************)
Free == {s \in Slots : available[s]}

Looking == {a \in active : pc[a] = "check"}

LEMMA FreeLookingType ==
    ASSUME TypeOK
    PROVE  /\ IsFiniteSet(Slots) /\ IsFiniteSet(Free) /\ IsFiniteSet(Looking)
           /\ Cardinality(Free) \in Nat /\ Cardinality(Looking) \in Nat
<1>1. IsFiniteSet(Slots)
  <2>1. 0 \in Int /\ MaxThreads - 1 \in Int  BY PoolAssumption
  <2> QED  BY <2>1, FS_Interval DEF Slots
<1>2. IsFiniteSet(Assigners)  BY PoolAssumption
<1>3. Free \in SUBSET Slots /\ Looking \in SUBSET Assigners
  BY DEF Free, Looking, TypeOK
<1>4. IsFiniteSet(Free) /\ IsFiniteSet(Looking)  BY <1>1, <1>2, <1>3, FS_Subset
<1> QED  BY <1>1, <1>4, FS_CardinalityType

\* How the assigners about to look change when one of them moves.
LEMMA LookingMoves ==
    ASSUME TypeOK, NEW a \in active, NEW step \in Steps,
           pc' = [pc EXCEPT ![a] = step], UNCHANGED active
    PROVE  /\ step = "check" /\ pc[a] # "check" =>
                 Cardinality(Looking') = Cardinality(Looking) + 1
           /\ step # "check" /\ pc[a] = "check" =>
                 Cardinality(Looking') = Cardinality(Looking) - 1
           /\ (step = "check" <=> pc[a] = "check") =>
                 Cardinality(Looking') = Cardinality(Looking)
<1> DEFINE R == Looking \ {a}
<1>1. IsFiniteSet(Looking) /\ Cardinality(Looking) \in Nat  BY FreeLookingType
<1>2. /\ IsFiniteSet(R) /\ Cardinality(R) \in Nat
      /\ Cardinality(R) = Cardinality(Looking) - (IF pc[a] = "check" THEN 1 ELSE 0)
  <2>1. a \in Looking <=> pc[a] = "check"  BY DEF Looking
  <2> QED  BY <1>1, <2>1, FS_RemoveElement, FS_CardinalityType
<1>3. a \notin R  OBVIOUS
<1>4. Looking' = IF step = "check" THEN R \cup {a} ELSE R
  <2>1. pc'[a] = step /\ \A b \in active \ {a} : pc'[b] = pc[b]  BY DEF TypeOK
  <2> QED  BY <2>1 DEF Looking
<1>5. Cardinality(R \cup {a}) = Cardinality(R) + 1
  BY <1>2, <1>3, FS_AddElement
<1> HIDE DEF R
<1> QED  BY <1>1, <1>2, <1>4, <1>5

LEMMA FreeChanges ==
    ASSUME TypeOK, NEW s \in Slots, NEW b \in BOOLEAN,
           available' = [available EXCEPT ![s] = b]
    PROVE  /\ b /\ ~available[s] => Cardinality(Free') = Cardinality(Free) + 1
           /\ ~b /\ available[s] => Cardinality(Free') = Cardinality(Free) - 1
           /\ (b <=> available[s]) => Cardinality(Free') = Cardinality(Free)
<1> DEFINE R == Free \ {s}
<1>1. IsFiniteSet(Free) /\ Cardinality(Free) \in Nat  BY FreeLookingType
<1>2. /\ IsFiniteSet(R) /\ Cardinality(R) \in Nat
      /\ Cardinality(R) = Cardinality(Free) - (IF available[s] THEN 1 ELSE 0)
  <2>1. s \in Free <=> available[s]  BY DEF Free
  <2> QED  BY <1>1, <2>1, FS_RemoveElement, FS_CardinalityType
<1>3. s \notin R  OBVIOUS
<1>4. Free' = IF b THEN R \cup {s} ELSE R
  <2>1. \A r \in Slots : available'[r] = IF r = s THEN b ELSE available[r]
    BY DEF TypeOK
  <2> QED  BY <2>1 DEF Free
<1>5. Cardinality(R \cup {s}) = Cardinality(R) + 1
  BY <1>2, <1>3, FS_AddElement
<1> HIDE DEF R
<1> QED  BY <1>1, <1>2, <1>4, <1>5

Covered == WakeUpsCoverFreeSlots

LEMMA CoveredMeans ==
    Covered <=> ((\E a \in active : pc[a] = "asleep") =>
                    Cardinality(Free) <= notices + Cardinality(Looking))
BY DEF Covered, WakeUpsCoverFreeSlots, Free, Looking

LEMMA CoveredMeansNext ==
    Covered' <=> ((\E a \in active' : pc'[a] = "asleep") =>
                    Cardinality(Free') <= notices' + Cardinality(Looking'))
BY DEF Covered, WakeUpsCoverFreeSlots, Free, Looking

\* An assigner that does not fall asleep changes its step.
LEMMA CoveredMove ==
    ASSUME TypeOK, Covered, NEW a \in active, NEW step \in Steps \ {"asleep"},
           pc' = [pc EXCEPT ![a] = step], pc[a] = "check" => step = "check",
           UNCHANGED <<active, available, notices>>
    PROVE  Covered'
<1>1. Free' = Free  BY DEF Free
<1>2. (\E b \in active' : pc'[b] = "asleep") => \E b \in active : pc[b] = "asleep"
  BY DEF TypeOK
<1>3. Cardinality(Looking) \in Nat /\ Cardinality(Free) \in Nat /\ notices \in Nat
  BY FreeLookingType DEF TypeOK
<1>4. \/ Cardinality(Looking') = Cardinality(Looking)
      \/ Cardinality(Looking') = Cardinality(Looking) + 1
  BY LookingMoves
<1> QED  BY <1>1, <1>2, <1>3, <1>4, CoveredMeans, CoveredMeansNext

LEMMA CoveredNext ==
    ASSUME Inv, Covered, [Next]_vars
    PROVE  Covered'
<1>0. /\ TypeOK /\ notices \in Nat /\ active \subseteq Assigners
      /\ Cardinality(Free) \in Nat /\ Cardinality(Looking) \in Nat
  BY FreeLookingType DEF Inv, TypeOK
<1>1. ASSUME NEW a \in active, Assign(a) \/ WakeSpuriously(a)
      PROVE  Covered'
  BY <1>0, <1>1, CoveredMove DEF Assign, WakeSpuriously, At, Goto, Steps
<1>2. ASSUME NEW a \in active, Take(a)
      PROVE  Covered'
  <2>1. PICK s \in Slots : available[s] /\ available' = [available EXCEPT ![s] = FALSE]
    BY <1>2 DEF Take
  <2>2. /\ pc[a] = "check" /\ pc' = [pc EXCEPT ![a] = "launch"]
        /\ UNCHANGED <<active, notices>>
    BY <1>2 DEF Take, At, Goto
  <2>3. Cardinality(Free') = Cardinality(Free) - 1  BY <1>0, <2>1, FreeChanges
  <2>4. Cardinality(Looking') = Cardinality(Looking) - 1
    <3>1. "launch" \in Steps /\ "launch" # "check"  BY DEF Steps
    <3> QED  BY <1>0, <2>2, <3>1, LookingMoves
  <2>5. (\E b \in active' : pc'[b] = "asleep") => \E b \in active : pc[b] = "asleep"
    BY <1>0, <2>2 DEF TypeOK
  <2> QED  BY <1>0, <2>2, <2>3, <2>4, <2>5, CoveredMeans, CoveredMeansNext
<1>3. ASSUME NEW a \in active, Sleep(a)
      PROVE  Covered'
  <2>1. /\ UNCHANGED <<active, available, notices>>
        /\ pc[a] = "check" /\ pc' = [pc EXCEPT ![a] = "asleep"]
    BY <1>3 DEF Sleep, At, Goto
  <2>2. Free' = {}  BY <1>3, <2>1 DEF Free, Sleep
  <2>3. Cardinality(Free') = 0  BY <2>2, FS_EmptySet
  <2>4. Cardinality(Looking') = Cardinality(Looking) - 1
    <3>1. "asleep" \in Steps /\ "asleep" # "check"  BY DEF Steps
    <3> QED  BY <1>0, <2>1, <3>1, LookingMoves
  <2>5. Cardinality(Looking) # 0
    <3>1. a \in Looking  BY <2>1 DEF Looking
    <3> QED  BY <1>0, <3>1, FreeLookingType, FS_EmptySet
  <2> QED  BY <1>0, <2>1, <2>3, <2>4, <2>5, CoveredMeansNext
<1>4. ASSUME NEW a \in active,
             \/ Launch(a) \/ Store(a) \/ Detach(a)
             \/ BeginJoin(a) \/ Joinable(a) \/ Join(a)
      PROVE  Covered'
  <2>1. UNCHANGED <<active, available, notices>> /\ pc[a] \notin {"check", "asleep"}
    BY <1>4 DEF Launch, Store, Detach, BeginJoin, Joinable, Join, At
  <2>2. \/ UNCHANGED pc
        \/ \E step \in Steps \ {"asleep", "check"} : pc' = [pc EXCEPT ![a] = step]
    BY <1>4 DEF Launch, Store, Detach, BeginJoin, Joinable, Join, NextSlot, Terminate,
                Goto, Steps
  <2>3. CASE UNCHANGED pc
    BY <2>1, <2>3 DEF Covered, WakeUpsCoverFreeSlots
  <2> QED  BY <1>0, <2>1, <2>2, <2>3, CoveredMove
<1>5. ASSUME NEW s \in Slots, Release(s)
      PROVE  Covered'
  <2>1. /\ available' = [available EXCEPT ![s] = TRUE] /\ notices' = notices + 1
        /\ UNCHANGED <<active, pc>>
    BY <1>5 DEF Release
  <2>2. Looking' = Looking  BY <2>1 DEF Looking
  <2>3. /\ Cardinality(Free') \in {Cardinality(Free), Cardinality(Free) + 1}
    BY <1>0, <2>1, FreeChanges
  <2> QED  BY <1>0, <2>1, <2>2, <2>3, CoveredMeans, CoveredMeansNext
<1>6. CASE Notify
  <2>1. /\ notices' = notices - 1 /\ UNCHANGED <<active, available>>
        /\ \/ \E a \in active : pc[a] = "asleep" /\ pc' = [pc EXCEPT ![a] = "check"]
           \/ (\A a \in active : pc[a] # "asleep") /\ UNCHANGED pc
    BY <1>6 DEF Notify, At, Goto
  <2>2. Free' = Free  BY <2>1 DEF Free
  <2>3. CASE (\A a \in active : pc[a] # "asleep") /\ UNCHANGED pc
    BY <2>1, <2>3, CoveredMeansNext
  <2>4. ASSUME NEW a \in active, pc[a] = "asleep", pc' = [pc EXCEPT ![a] = "check"]
        PROVE  Covered'
    <3>1. Cardinality(Looking') = Cardinality(Looking) + 1
      <4>1. "check" \in Steps /\ pc[a] # "check"  BY <2>4 DEF Steps
      <4> QED  BY <1>0, <2>1, <2>4, <4>1, LookingMoves
    <3> QED  BY <1>0, <2>1, <2>2, <2>4, <3>1, CoveredMeans, CoveredMeansNext
  <2> QED  BY <2>1, <2>3, <2>4
<1>7. CASE UNCHANGED vars
  BY <1>7 DEF Covered, WakeUpsCoverFreeSlots, vars
<1> QED
  BY <1>1, <1>2, <1>3, <1>4, <1>5, <1>6, <1>7 DEF Next, Advance

\* WakeUpsCoverFreeSlots, the safety half of NoLostWakeup: release_thread, which
\* notifies after it has given up the lock, owes every sleeper's free slot a
\* wake-up, whichever assigner the earlier ones went to.
THEOREM WakeUpsSuffice == Spec => []WakeUpsCoverFreeSlots
<1>1. Init => Covered  BY DEF Init, Covered, WakeUpsCoverFreeSlots
<1>2. Inv /\ Covered /\ [Next]_vars => Covered'  BY CoveredNext
<1>3. Covered <=> WakeUpsCoverFreeSlots  BY DEF Covered
<1> QED  BY <1>1, <1>2, <1>3, Invariant, PTL DEF Spec

-----------------------------------------------------------------------------
(***************************************************************************)
(* The pool is a counter: what is taken is what is marked unavailable.     *)
(***************************************************************************)
Marked == {s \in Slots : ~available[s]}

LEMMA SameSize ==
    ASSUME NEW S, NEW T, IsFiniteSet(S), NEW f \in [S -> T],
           \A x, y \in S : f[x] = f[y] => x = y, \A z \in T : \E x \in S : f[x] = z
    PROVE  IsFiniteSet(T) /\ Cardinality(T) = Cardinality(S)
<1>1. f \in Injection(S, T)  BY Fun_IsInj
<1>2. f \in Surjection(S, T)  BY Fun_IsSurj
<1> QED  BY <1>1, <1>2, FS_Surjection

LEMMA MarkedType ==
    /\ IsFiniteSet(Slots) /\ Cardinality(Slots) = MaxThreads
    /\ IsFiniteSet(Marked) /\ Cardinality(Marked) \in Nat
<1>1. IsFiniteSet(Slots) /\ Cardinality(Slots) = MaxThreads
  <2>1. 0 \in Int /\ MaxThreads - 1 \in Int /\ ~(0 > MaxThreads - 1)
        /\ (MaxThreads - 1) - 0 + 1 = MaxThreads
    BY PoolAssumption
  <2> QED  BY <2>1, FS_Interval DEF Slots
<1>2. Marked \in SUBSET Slots  BY DEF Marked
<1>3. IsFiniteSet(Marked)  BY <1>1, <1>2, FS_Subset
<1> QED  BY <1>1, <1>3, FS_CardinalityType

LEMMA TakenIsMarked == Inv => Taken = Cardinality(Marked)
<1> SUFFICES ASSUME Inv PROVE Taken = Cardinality(Marked)  OBVIOUS
<1> DEFINE L == {a \in Assigners : pc[a] = "launch"}
           R == {s \in Slots : running[s] # NoThread}
           I == {slot[a] : a \in L}
           f == [a \in L |-> slot[a]]
<1>1. IsFiniteSet(L)
  <2>1. L \in SUBSET Assigners /\ IsFiniteSet(Assigners)  BY PoolAssumption
  <2> QED  BY <2>1, FS_Subset
<1>2. IsFiniteSet(I) /\ Cardinality(I) = Cardinality(L)
  <2>1. \A a, b \in L : slot[a] = slot[b] => a = b
    BY DEF Inv, TypeOK, SlotAccounting, Launching
  <2>2. /\ f \in [L -> I] /\ \A a, b \in L : f[a] = f[b] => a = b
        /\ \A z \in I : \E a \in L : f[a] = z
    BY <2>1
  <2> HIDE DEF f, L, I
  <2> QED  BY <1>1, <2>2, SameSize
<1>3. IsFiniteSet(R)
  <2>1. R \in SUBSET Slots  OBVIOUS
  <2> QED  BY <2>1, MarkedType, FS_Subset
<1>4. Marked = I \cup R
  BY DEF Marked, Inv, TypeOK, SlotAccounting, Launching
<1>5. I \cap R = {}
  BY DEF Inv, TypeOK, SlotAccounting, Launching
<1>6. Taken = Cardinality(L) + Cardinality(R)  BY DEF Taken
<1> HIDE DEF L, R, I
<1>7. Cardinality(I \cup R) = Cardinality(I) + Cardinality(R) - Cardinality(I \cap R)
  BY <1>2, <1>3, FS_Union
<1>8. Cardinality(I \cap R) = 0  BY <1>5, FS_EmptySet
<1>9. Cardinality(I) \in Nat /\ Cardinality(R) \in Nat
  BY <1>2, <1>3, FS_CardinalityType
<1> QED  BY <1>2, <1>4, <1>6, <1>7, <1>8, <1>9

LEMMA MarkedStep ==
    ASSUME Inv, [Next]_vars
    PROVE  \/ Cardinality(Marked) < MaxThreads
              /\ Cardinality(Marked') = Cardinality(Marked) + 1
           \/ Cardinality(Marked) > 0
              /\ Cardinality(Marked') = Cardinality(Marked) - 1
           \/ Marked' = Marked
<1>1. /\ IsFiniteSet(Slots) /\ Cardinality(Slots) = MaxThreads
      /\ IsFiniteSet(Marked) /\ Cardinality(Marked) \in Nat
      /\ Marked \in SUBSET Slots
  BY MarkedType DEF Marked
<1>2. ASSUME NEW a \in active, Take(a)
      PROVE  /\ Cardinality(Marked) < MaxThreads
             /\ Cardinality(Marked') = Cardinality(Marked) + 1
  <2>1. PICK s \in Slots : available[s] /\ available' = [available EXCEPT ![s] = FALSE]
    BY <1>2 DEF Take
  <2>2. s \notin Marked /\ Marked' = Marked \cup {s}
    BY <2>1 DEF Marked, Inv, TypeOK
  <2>3. Cardinality(Marked') = Cardinality(Marked) + 1
    BY <1>1, <2>2, FS_AddElement
  <2>4. Cardinality(Marked) <= MaxThreads /\ Cardinality(Marked) # MaxThreads
    BY <1>1, <2>2, FS_Subset
  <2> QED  BY <1>1, <2>3, <2>4, PoolAssumption
<1>3. ASSUME NEW s \in Slots, Release(s)
      PROVE  /\ Cardinality(Marked) > 0
             /\ Cardinality(Marked') = Cardinality(Marked) - 1
  <2>1. available' = [available EXCEPT ![s] = TRUE] /\ ~available[s]
    BY <1>3 DEF Release, Inv, SlotAccounting
  <2>2. s \in Marked /\ Marked' = Marked \ {s}
    BY <2>1 DEF Marked, Inv, TypeOK
  <2>3. Cardinality(Marked') = Cardinality(Marked) - 1
    BY <1>1, <2>2, FS_RemoveElement
  <2>4. Cardinality(Marked) # 0  BY <1>1, <2>2, FS_EmptySet
  <2> QED  BY <1>1, <2>3, <2>4
<1>4. ASSUME NEW a \in active,
             \/ Assign(a) \/ Sleep(a) \/ Launch(a) \/ Store(a) \/ Detach(a)
             \/ WakeSpuriously(a) \/ BeginJoin(a) \/ Joinable(a) \/ Join(a)
      PROVE  UNCHANGED available
  BY <1>4 DEF Assign, Sleep, Launch, Store, Detach, WakeSpuriously, BeginJoin, Joinable,
              Join
<1>5. CASE UNCHANGED available
  BY <1>5 DEF Marked
<1>6. Notify \/ UNCHANGED vars => UNCHANGED available
  BY DEF Notify, vars
<1> QED  BY <1>2, <1>3, <1>4, <1>5, <1>6 DEF Next, Advance

\* RefinesCounter: to assign_task_to_thread and assign_download_task the pool is
\* a counter of MAX_THREADS slots, although a slot passes from the flag to the
\* assigner to the task and back in steps of three threads.
THEOREM Refinement == Spec => RefinesCounter
<1>1. Init => Counter!Init
  <2> SUFFICES ASSUME Init PROVE Taken = 0  BY DEF Counter!Init
  <2>1. Inv  BY InitInv
  <2>2. Marked = {}  BY DEF Init, Marked
  <2> QED  BY <2>1, <2>2, TakenIsMarked, FS_EmptySet
<1>2. Inv' => (Taken = Cardinality(Marked))'
  BY TakenIsMarked, PTL
<1>3. Inv /\ Inv' /\ [Next]_vars => [Counter!Next]_Taken
  <2> SUFFICES ASSUME Inv, Inv', [Next]_vars PROVE [Counter!Next]_Taken  OBVIOUS
  <2>1. Taken = Cardinality(Marked) /\ Taken' = Cardinality(Marked')
    BY <1>2, TakenIsMarked
  <2> QED
    BY <2>1, MarkedStep DEF Counter!Next, Counter!Acquire, Counter!Yield
<1> QED
  BY <1>1, <1>3, Invariant, PTL DEF Spec, RefinesCounter, Counter!Spec
=============================================================================
