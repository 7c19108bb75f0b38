-------------------------------- MODULE Lvm --------------------------------
(***************************************************************************)
(* The volume groups of one node, and the wrappers of pkg/util/sys/lvm.go  *)
(* that change them.                                                       *)
(*                                                                         *)
(* A node is a record                                                      *)
(*   own   what LVM finds on each disk: nothing, the label of a physical   *)
(*         volume of no group, a file system or mount, or the volume       *)
(*         group the physical volume belongs to;                           *)
(*   busy  the physical volumes that hold segments of logical volumes;     *)
(*   gone  the disks that are unplugged.                                   *)
(* A volume group exists exactly when some physical volume belongs to it.  *)
(*                                                                         *)
(* A wrapper runs several lvm commands in sequence and returns the error   *)
(* of the first that fails, leaving what the earlier ones did.  Here it    *)
(* is the set of its outcomes [node, ok].  The argument "fault" says       *)
(* whether a command may fail for a reason the node's state does not show  *)
(* (an I/O error, a lock, a killed process); without it a command fails    *)
(* only when LVM refuses it.                                               *)
(***************************************************************************)
EXTENDS FiniteSets

CONSTANTS
    Disks,   \* the block devices of the node, by device name
    VGs      \* volume group names

Raw    == "raw"      \* no label, no file system: GetAvailableDevices lists it
Orphan == "orphan"   \* a physical volume that belongs to no volume group
Used   == "used"     \* has a file system or is mounted

ASSUME DisksAssumption == IsFiniteSet(Disks)
ASSUME VGsAssumption == Raw \notin VGs /\ Orphan \notin VGs /\ Used \notin VGs

Labels == {Raw, Orphan, Used} \cup VGs

Nodes == [own: [Disks -> Labels], busy: SUBSET Disks, gone: SUBSET Disks]

-----------------------------------------------------------------------------
(* What the reporting commands see.                                        *)

Members(n, vg) == {d \in Disks : n.own[d] = vg}

(* GetPhysicalVolume, restricted to the disks that have a name.  A missing *)
(* member is listed as "[unknown]", which Partial stands for.              *)
PhysicalVolumes(n, vg) == Members(n, vg) \ n.gone

VgExists(n, vg) == Members(n, vg) # {}

Readable(n, vg) == PhysicalVolumes(n, vg) # {}

Partial(n, vg) == Members(n, vg) \cap n.gone # {}

HasLogicalVolume(n, S) == S \cap n.busy # {}

(* GetAvailableDevices: a label of LVM counts as a file system.            *)
AvailableDevices(n) == {d \in Disks \ n.gone : n.own[d] = Raw}

(* Mutant: pvcreate is forced.                                             *)
ForciblyLabelable(n) == Disks \ n.gone

(* The disks on which pvcreate succeeds.                                   *)
Labelable(n) == {d \in Disks \ n.gone : n.own[d] \in {Raw, Orphan}}

-----------------------------------------------------------------------------
(* What the changing commands do.                                          *)

Relabel(n, S, x) ==
    [n EXCEPT !.own = [d \in Disks |-> IF d \in S THEN x ELSE n.own[d]]]

Done(n)   == [node |-> n, ok |-> TRUE]
Failed(n) == [node |-> n, ok |-> FALSE]

(* CreateVolumeGroup: pvcreate on every device, in order, then vgcreate.   *)
CreateVolumeGroup(n, vg, devs, fault) ==
    LET labelled  == devs \subseteq Labelable(n)
        creatable == labelled /\ devs # {} /\ ~VgExists(n, vg)
    IN  (IF creatable THEN {Done(Relabel(n, devs, vg))} ELSE {})
        \cup {Failed(Relabel(n, S, Orphan)) :
                S \in IF fault \/ ~labelled
                      THEN SUBSET (devs \cap Labelable(n))
                      ELSE IF creatable THEN {} ELSE {devs}}

(* Mutant: vgremove without pvremove.                                      *)
RemoveLeavingLabels(n, vg, fault) ==
    IF VgExists(n, vg) /\ ~Partial(n, vg) /\ ~HasLogicalVolume(n, Members(n, vg))
    THEN {Done(Relabel(n, Members(n, vg), Orphan))}
    ELSE {Failed(n)}

(* RemoveVolumeGroup: refused while a logical volume exists; vgremove,     *)
(* then pvremove on every former member, in any order.                     *)
RemoveVolumeGroup(n, vg, fault) ==
    LET pvs       == Members(n, vg)
        removable == /\ Readable(n, vg)
                     /\ ~Partial(n, vg)
                     /\ ~HasLogicalVolume(n, pvs)
        removed   == Relabel(n, pvs, Orphan)
    IN  (IF removable THEN {Done(Relabel(n, pvs, Raw))} ELSE {})
        \cup (IF fault \/ ~removable THEN {Failed(n)} ELSE {})
        \cup (IF removable /\ fault
              THEN {Failed(Relabel(removed, S, Raw)) : S \in (SUBSET pvs) \ {pvs}}
              ELSE {})

(* ShrinkVolumeGroup: refused while one of the volumes is in use or a      *)
(* member is missing; one vgreduce on all of them, then one pvremove, each *)
(* of which may stop half-way.                                             *)
ShrinkVolumeGroup(n, vg, pvs, fault) ==
    LET reducible == ~Partial(n, vg) /\ ~HasLogicalVolume(n, pvs)
        reduced   == Relabel(n, pvs, Orphan)
    IN  (IF reducible THEN {Done(Relabel(n, pvs, Raw))} ELSE {})
        \cup (IF fault \/ ~reducible THEN {Failed(n)} ELSE {})
        \cup (IF reducible /\ fault
              THEN {Failed(Relabel(n, S, Orphan)) : S \in SUBSET pvs}
                   \cup {Failed(Relabel(reduced, S, Raw)) : S \in (SUBSET pvs) \ {pvs}}
              ELSE {})

(* CreatePhysicalVolume on each of devs: the sets it may succeed on.       *)
CreatePhysicalVolumes(n, devs, fault) ==
    IF fault THEN SUBSET (devs \cap Labelable(n)) ELSE {devs \cap Labelable(n)}

(* ExpandVolumeGroup with volumes that were just created.                  *)
ExpandVolumeGroup(n, vg, pvs, fault) ==
    (IF Partial(n, vg) THEN {} ELSE {Done(Relabel(n, pvs, vg))})
    \cup (IF fault \/ Partial(n, vg) THEN {Failed(Relabel(n, pvs, Orphan))} ELSE {})
=============================================================================
