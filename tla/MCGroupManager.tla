--------------------------- MODULE MCGroupManager ---------------------------
(***************************************************************************)
(* Small instances of GroupManager for TLC.  Handlers, users and groups    *)
(* are interchangeable: no definition names one of them.                   *)
(***************************************************************************)
EXTENDS GroupManager

Symmetry == Permutations(Handlers) \cup Permutations(Users)
                \cup Permutations(Groups)
=============================================================================
