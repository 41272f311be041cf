--------------------------- MODULE MCTrackerSync ----------------------------
(***************************************************************************)
(* Small instances of TrackerSync for TLC.                                 *)
(*                                                                         *)
(* The interesting group and file commands come after every user has been  *)
(* registered and has logged in at every tracker, too long a prefix to     *)
(* search together with them.  WarmInit is the state after it, when every  *)
(* message has arrived and counting the commands starts again.             *)
(***************************************************************************)
EXTENDS TrackerSync

Symmetry == Permutations(Trackers) \cup Permutations(Users)
                \cup Permutations(Passwords)

\* Everybody registered with one password and logged in at all trackers at
\* once: the logins that came by SYNC found the users logged in already.
WarmInit ==
    \E p \in Passwords :
        /\ up = Trackers
        /\ replica = [t \in Trackers |->
                         [Fresh EXCEPT !.users = [u \in Users |-> p],
                                       !.logged_in = Users]]
        /\ sessions = [t \in Trackers |-> Users]
        /\ uploads = [t \in Trackers |-> {}]
        /\ net = {}
        /\ issued = 0
        /\ missed = {}
        /\ registered = Users \X {p}

ColdOrWarmSpec == (Init \/ WarmInit) /\ [][Next]_vars
=============================================================================
