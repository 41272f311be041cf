--------------------------- MODULE MCFileManager ----------------------------
(***************************************************************************)
(* Small instances of FileManager for TLC.  Handlers, users, groups and    *)
(* files are interchangeable: no definition names one of them, and the     *)
(* order of the seeders' names is left open.                               *)
(***************************************************************************)
EXTENDS FileManager, TLC

Symmetry == Permutations(Handlers) \cup Permutations(Users)
                \cup Permutations(Groups) \cup Permutations(Files)
=============================================================================
