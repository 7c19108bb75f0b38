---------------------------- MODULE MCStatusSync ----------------------------
(***************************************************************************)
(* Instances of StatusSync for TLC: one or two nodes, whose pods run or    *)
(* are missing.                                                            *)
(***************************************************************************)
EXTENDS StatusSync

CONSTANTS n1, n2

OneNode == {n1}
TwoNodes == {n1, n2}

UpOrDown == {"none", "running"}
=============================================================================
