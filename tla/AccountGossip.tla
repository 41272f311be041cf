--------------------------- MODULE AccountGossip ----------------------------
(***************************************************************************)
(* What the trackers promise of the accounts they tell each other, with no *)
(* messages: each has a book of names and passwords.  An account gets into *)
(* a book where a client opens it, or where the tracker learns of one that *)
(* was opened elsewhere; it is never changed, and only a tracker that ends *)
(* forgets it, with the whole book.  TrackerSync implements this module.   *)
(***************************************************************************)
EXTENDS HashMap

CONSTANTS Trackers, Users, Passwords

VARIABLES
    book,       \* tracker -> user -> password
    opened      \* the accounts that clients have opened, anywhere

Enter(t, u, p) ==
    /\ u \notin DOMAIN book[t]
    /\ book' = [book EXCEPT ![t] = Put(@, u, p)]

-----------------------------------------------------------------------------
\* A client opens an account at t.  The name may be taken elsewhere.
OpenAccount(t, u, p) == Enter(t, u, p) /\ opened' = opened \cup {<<u, p>>}

\* t learns of an account somebody opened.
Learn(t, u, p) == <<u, p>> \in opened /\ Enter(t, u, p) /\ UNCHANGED opened

\* t ends; nothing is kept on disk.
Forget(t) == book' = [book EXCEPT ![t] = EmptyMap] /\ UNCHANGED opened

-----------------------------------------------------------------------------
Init == book = [t \in Trackers |-> EmptyMap] /\ opened = {}

Next == \E t \in Trackers :
    \/ \E u \in Users, p \in Passwords : OpenAccount(t, u, p) \/ Learn(t, u, p)
    \/ Forget(t)

Spec == Init /\ [][Next]_<<book, opened>>
=============================================================================
