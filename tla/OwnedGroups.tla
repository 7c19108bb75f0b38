---------------------------- MODULE OwnedGroups ----------------------------
(***************************************************************************)
(* What the prepareVg job (PrepareVg) promises those who keep data on the  *)
(* disks of a node, whatever it reads, whatever fails and wherever a run   *)
(* stops: a disk with data stays in the volume group it is in, or in none; *)
(* a disk is in one group at most; only groups that the job has created    *)
(* change; and pods get volumes in these only, in new ones when they exist.*)
(***************************************************************************)
CONSTANTS Disks, VGs

VARIABLES
    members,  \* the disks of each volume group
    data,     \* the disks with logical volumes or file systems
    ours,     \* the volume groups that a run has created
    served    \* the volume groups that volumes are made in

groups == <<members, data, ours, served>>

Init ==
    /\ members \in [VGs -> SUBSET Disks]
    /\ data \in SUBSET Disks
    /\ ours = {}
    /\ served = {}

(* No volume group but vg has a disk of S.                                 *)
Apart(vg, S) == \A w \in VGs \ {vg} : members[w] \cap S = {}

Create(vg, S) ==
    /\ members[vg] = {} /\ S # {} /\ S \cap data = {} /\ Apart(vg, S)
    /\ members' = [members EXCEPT ![vg] = S]
    /\ ours' = ours \cup {vg}
    /\ UNCHANGED <<data, served>>

(* Disks without data join and leave, perhaps all of them.                 *)
Resize(vg, S) ==
    /\ vg \in ours /\ S \cap data = members[vg] \cap data /\ Apart(vg, S)
    /\ members' = [members EXCEPT ![vg] = S]
    /\ UNCHANGED <<data, ours, served>>

(* lvmd.yaml is written anew.                                              *)
Offer(S) ==
    /\ S \subseteq ours
    /\ \A vg \in S \ served : members[vg] # {}
    /\ served' = S
    /\ UNCHANGED <<members, data, ours>>

(* A logical volume is created; one or a file system is deleted.           *)
Fill(d) ==
    /\ \E vg \in served : d \in members[vg]
    /\ data' = data \cup {d}
    /\ UNCHANGED <<members, ours, served>>

Clear(d) ==
    /\ data' = data \ {d}
    /\ UNCHANGED <<members, ours, served>>

Next ==
    \/ \E vg \in VGs, S \in SUBSET Disks : Create(vg, S) \/ Resize(vg, S)
    \/ \E S \in SUBSET VGs : Offer(S)
    \/ \E d \in Disks : Fill(d) \/ Clear(d)

Spec == Init /\ [][Next]_groups
=============================================================================
