--------------------------- MODULE NodeConfigMap ---------------------------
(***************************************************************************)
(* The ConfigMap lvmdconfig-<node> through which the prepareVg job, the    *)
(* discover daemon and the operator exchange the state of one node, and    *)
(* the two ways in which it is written (pkg/operator/k8sutil).  Its data   *)
(* has three keys:                                                         *)
(*   devices  the disks of the node, written by discover;                  *)
(*   status   a NodeStorageState, written by the job and by discover;      *)
(*   lvmd     lvmd.yaml, written by the job and mounted by topolvm-node.   *)
(***************************************************************************)
EXTENDS Lvm

CONSTANTS
    ClassNames,  \* names of device classes
    NoCm,        \* the ConfigMap does not exist
    NoData,      \* the ConfigMap lacks the key
    NoClass      \* the map of classes has no entry for the volume group

(* A ClassState among the success classes.  Messages are left out.         *)
ClassStates == [name:  ClassNames,
                state: {"Ready", "UnReady"},
                devs:  SUBSET (Disks \X {"Online", "Offline", "Error"})]

(* The fail classes, by the key under which the job holds them.  A class   *)
(* that failed because its volume group already existed is recorded        *)
(* without its VgName ("existing"): the next reader does not find it.      *)
FailMarks == {"none", "failed", "existing"}

Statuses == [suc: [VGs -> ClassStates \cup {NoClass}], fail: [VGs -> FailMarks]]

(* lvmd.yaml and its device classes.  The list is a set here: identical    *)
(* entries are one.                                                        *)
LvmdClasses == [name: ClassNames, vg: VGs, default: BOOLEAN]

LvmdConfs == [classes: SUBSET LvmdClasses]

DeviceViews == [blank: SUBSET Disks, labelled: SUBSET Disks]

ConfigMaps == [devices: DeviceViews \cup {NoData},
               status:  Statuses \cup {NoData},
               lvmd:    LvmdConfs \cup {NoData}]

ASSUME AbsentAssumption ==
    /\ NoClass \notin ClassStates
    /\ NoData \notin Statuses
    /\ NoData \notin LvmdConfs
    /\ NoData \notin DeviceViews
    /\ NoCm \notin ConfigMaps

-----------------------------------------------------------------------------
(* Mutant: an update of the whole object.                                  *)
Replaced(old, new, current) == new

(* A merge patch carries only the keys that differ between the old and the *)
(* new object, and no resource version: the other keys keep what the       *)
(* server has by then.                                                     *)
Merged(old, new, current) == IF new = old THEN current ELSE new

PatchConfigMap(old, new, current) ==
    [devices |-> Merged(old.devices, new.devices, current.devices),
     status  |-> Merged(old.status, new.status, current.status),
     lvmd    |-> Merged(old.lvmd, new.lvmd, current.lvmd)]

(* The patch is computed from the object on the server to the one given:   *)
(* a key that the caller does not know about is removed.                   *)
CreateOrPatchConfigmap(new, current) ==
    IF current = NoCm THEN new ELSE PatchConfigMap(current, new, current)

-----------------------------------------------------------------------------
NoClasses == [vg \in VGs |-> NoClass]

Classes(map) == {vg \in VGs : map[vg] # NoClass}

ClassNamesOf(map) == {map[vg].name : vg \in Classes(map)}
=============================================================================
