--------------------------- MODULE FileCatalogue ----------------------------
(***************************************************************************)
(* What the tracker's file commands promise, with no handler and no lock:  *)
(* a catalogue of shared files, each with the users who seed it and the    *)
(* owner of the entry.  A file is published once, gains seeders one at a   *)
(* time, and ends when its last seeder withdraws.  A publisher who breaks  *)
(* off may leave an entry that nobody seeds, nor even owns; it stays until *)
(* somebody joins it and withdraws.  FileManager implements this module.   *)
(***************************************************************************)
EXTENDS HashMap

CONSTANTS Users, Keys, NoUser

VARIABLE shares

-----------------------------------------------------------------------------
\* u publishes k, which is not in the catalogue.
Publish(k, u) ==
    /\ k \notin DOMAIN shares
    /\ shares' = Put(shares, k, [owner |-> u, seeders |-> {u}])

\* u breaks off while he publishes k.
Abandon(k, u) ==
    /\ k \notin DOMAIN shares
    /\ \E o \in {u, NoUser} :
          shares' = Put(shares, k, [owner |-> o, seeders |-> {}])

\* u seeds k too; the entry keeps its owner.
Join(k, u) ==
    /\ k \in DOMAIN shares
    /\ shares' = [shares EXCEPT ![k] =
                     [owner |-> @.owner, seeders |-> @.seeders \cup {u}]]

\* u, who seeds k, stops; one of those who still seed it owns the entry.
Withdraw(k, u) ==
    /\ k \in DOMAIN shares
    /\ u \in shares[k].seeders
    /\ LET left == shares[k].seeders \ {u}
       IN  IF left = {} THEN shares' = Drop(shares, k)
           ELSE \E heir \in left :
                   shares' = [shares EXCEPT ![k] =
                                 [owner |-> heir, seeders |-> left]]

-----------------------------------------------------------------------------
Init == shares = EmptyMap

Next == \E k \in Keys, u \in Users :
           Publish(k, u) \/ Abandon(k, u) \/ Join(k, u) \/ Withdraw(k, u)

Spec == Init /\ [][Next]_shares
=============================================================================
