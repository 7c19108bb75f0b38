----------------------------- MODULE EditedNode -----------------------------
(***************************************************************************)
(* What the replaceable jobs of a node (JobRunner) promise the user who    *)
(* edits its device classes: the versions of the specification are carried *)
(* out one after the other, some are passed over, and none comes back      *)
(* after a later one.                                                      *)
(***************************************************************************)
EXTENDS Naturals

VARIABLES
    edits,    \* the version of the specification
    applied   \* the version that was carried out last

Init == edits = 0 /\ applied = 0

Edit == edits' = edits + 1 /\ UNCHANGED applied

CarryOut(v) ==
    /\ applied <= v /\ v <= edits
    /\ applied' = v
    /\ UNCHANGED edits

Next == Edit \/ \E v \in 0 .. edits : CarryOut(v)

Spec == Init /\ [][Next]_<<edits, applied>>
=============================================================================
