--------------------------- MODULE AccessControl ----------------------------
(***************************************************************************)
(* What a tracker promises of its users and connections, with no commands, *)
(* no loops and no calls that interleave.  A connection acts for nobody    *)
(* until it gives the password of an account, and then for that account    *)
(* alone, until it acts for nobody again.  The list of who is inside names *)
(* for a user the connection that came in last, and no connection that     *)
(* acts for nobody.  Session implements this module.                       *)
(***************************************************************************)
EXTENDS HashMap

CONSTANTS Conns, Users, Passwords

VARIABLES
    book,       \* user -> password
    inside,     \* user -> connection
    acting      \* connection -> the account it acts for, or Nobody

Nobody == <<>>

-----------------------------------------------------------------------------
\* A new account; the password of a name is never changed.
Register(u, p) ==
    /\ u \notin DOMAIN book
    /\ book' = Put(book, u, p)
    /\ UNCHANGED <<inside, acting>>

\* c gives u's password and acts for u from now on, perhaps in place of another.
Admit(c, u, p) ==
    /\ acting[c] = Nobody
    /\ u \in DOMAIN book /\ book[u] = p
    /\ acting' = [acting EXCEPT ![c] = <<u, p>>]
    /\ inside' = Put(inside, u, c)
    /\ UNCHANGED book

\* u is struck off the list, by whomever; who acts for u goes on.
StrikeOff(u) ==
    /\ u \in DOMAIN inside
    /\ inside' = Drop(inside, u)
    /\ UNCHANGED <<book, acting>>

\* c, which is not on the list, acts for nobody again.
Dismiss(c) ==
    /\ acting[c] # Nobody
    /\ \A u \in DOMAIN inside : inside[u] # c
    /\ acting' = [acting EXCEPT ![c] = Nobody]
    /\ UNCHANGED <<book, inside>>

-----------------------------------------------------------------------------
Init ==
    /\ book = EmptyMap
    /\ inside = EmptyMap
    /\ acting = [c \in Conns |-> Nobody]

Next ==
    \/ \E u \in Users, p \in Passwords :
          Register(u, p) \/ \E c \in Conns : Admit(c, u, p)
    \/ \E u \in Users : StrikeOff(u)
    \/ \E c \in Conns : Dismiss(c)

Spec == Init /\ [][Next]_<<book, inside, acting>>
=============================================================================
