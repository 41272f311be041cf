---------------------------- MODULE SlotCounter -----------------------------
(***************************************************************************)
(* What a thread pool promises whoever uses it, with no slots, no locks    *)
(* and no thread objects: a number of slots taken, never more than there   *)
(* are.  ThreadPool implements this module, and Swarm counts a client's    *)
(* slots like this.                                                        *)
(***************************************************************************)
EXTENDS Naturals

CONSTANT MaxThreads

VARIABLE taken

-----------------------------------------------------------------------------
\* A task gets a slot.
Acquire == taken < MaxThreads /\ taken' = taken + 1

\* A task that has ended gives its slot back.
Yield == taken > 0 /\ taken' = taken - 1

-----------------------------------------------------------------------------
Init == taken = 0

Next == Acquire \/ Yield

Spec == Init /\ [][Next]_taken
=============================================================================
