--------------------------- MODULE MCLoopDevices ---------------------------
(***************************************************************************)
(* Instances of LoopDevices for TLC: two disks with auto and one loop      *)
(* device of a user's; three files, so that two runs may create loops.     *)
(***************************************************************************)
EXTENDS LoopDevices

CONSTANTS x, y, u

MCAutoDisks == {x, y}
MCUserDisks == {u}
MCUserLoop == [d \in MCUserDisks |-> [dev |-> 1, file |-> 1]]
MCSpecs == {{x, u}, {x, y}}
MCLoops == 0..2
MCFiles == 1..3
=============================================================================
