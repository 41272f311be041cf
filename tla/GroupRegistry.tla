--------------------------- MODULE GroupRegistry ----------------------------
(***************************************************************************)
(* What the tracker's group commands promise, with no handler, no lock and *)
(* no second index: a registry of groups, each a line of distinct members  *)
(* in order of seniority, whose head is the owner, and the set of users    *)
(* waiting to be let in.  GroupManager implements this module.             *)
(***************************************************************************)
EXTENDS HashMap, SequencesExt

CONSTANTS Users, Groups

VARIABLE registry

Members(g) == ToSet(registry[g].members)
Owner(g)   == Head(registry[g].members)
Waiting(g) == registry[g].pending

-----------------------------------------------------------------------------
\* u founds g and is its first member.
Found(g, u) ==
    /\ g \notin DOMAIN registry
    /\ registry' = Put(registry, g, [members |-> <<u>>, pending |-> {}])

\* u, who is not a member, asks to join g.
Request(g, u) ==
    /\ g \in DOMAIN registry
    /\ u \notin Members(g)
    /\ registry' = [registry EXCEPT ![g].pending = @ \cup {u}]

\* u, who asked, becomes the most junior member; the request is used up.
Admit(g, u) ==
    /\ g \in DOMAIN registry
    /\ u \in Waiting(g)
    /\ registry' = [registry EXCEPT ![g] =
                       [members |-> Append(@.members, u),
                        pending |-> @.pending \ {u}]]

\* u leaves; the next in seniority owns the group, which ends with its last member.
Depart(g, u) ==
    /\ g \in DOMAIN registry
    /\ u \in Members(g)
    /\ registry' = IF Len(registry[g].members) = 1
                   THEN Drop(registry, g)
                   ELSE [registry EXCEPT ![g].members = RemoveFirst(@, u)]

-----------------------------------------------------------------------------
Init == registry = EmptyMap

Next == \E g \in Groups, u \in Users :
            Found(g, u) \/ Request(g, u) \/ Admit(g, u) \/ Depart(g, u)

Spec == Init /\ [][Next]_registry
=============================================================================
