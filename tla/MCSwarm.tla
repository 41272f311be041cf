------------------------------ MODULE MCSwarm -------------------------------
(***************************************************************************)
(* Swarm for TLC: two clients, of which the first has sound copies and the *)
(* second changed ones, and two files.  Both destinations hold something   *)
(* else to begin with; that there is none is how things stand after a      *)
(* download that has failed.                                               *)
(***************************************************************************)
EXTENDS Swarm

FewerInit ==
    /\ Init
    /\ sound = {1}
    /\ \A c \in Clients : dest[c] = Filled("other")

\* The files are alike: the first download is of one of them, if of any.
FirstOfOneFile ==
    \A c \in Clients : gen'[c] = 1 => want'[c] \in {CHOOSE f \in Files : TRUE, NoFile}

MCSpec == FewerInit /\ [][Next]_vars /\ WF_vars(Work)
=============================================================================
