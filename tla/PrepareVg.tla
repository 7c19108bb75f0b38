----------------------------- MODULE PrepareVg -----------------------------
(***************************************************************************)
(* The prepareVg job of one node (controllers/preparevg_controller.go):    *)
(* it compares the device classes the TopolvmCluster asks for with what    *)
(* earlier runs recorded in the node's ConfigMap, creates, extends,        *)
(* reduces and removes volume groups, and records the result.              *)
(*                                                                         *)
(* One run is a sequence of steps: JobStart reads everything the run       *)
(* decides by, one step handles each device class, DropClass each success  *)
(* class that is no longer wanted, and JobCommit patches the ConfigMap.    *)
(* The steps of one class are one action because nothing else changes the  *)
(* labels of a disk; the outcomes of Lvm hold every point at which its     *)
(* commands may stop.  Between steps, users and kubelet create and delete  *)
(* logical volumes, disks come and go, the TopolvmCluster is edited, and   *)
(* the pod of the job may die.                                             *)
(***************************************************************************)
EXTENDS NodeConfigMap, Naturals

CONSTANTS
    NodeSpecs,   \* the storage specifications a user may write for this node
    InitNodes,   \* the node when the operator is installed
    InitCms,     \* the ConfigMap at that time: absent, or just published
    MaxEdits,    \* bound on edits of the TopolvmCluster
    MaxFaults,   \* bound on failing commands and dying pods
    MaxWipes,    \* bound on disks that users wipe
    MaxUnplugs,  \* bound on unplugged disks
    MaxEvents    \* bound on all of these together

VARIABLES
    node,        \* the disks and volume groups
    spec,        \* the part of TopolvmCluster.Spec.Storage about this node
    cm,          \* the ConfigMap lvmdconfig-<node>, or NoCm
    job,         \* the running prepareVg job: its local variables
    made,        \* history: the volume groups some job has created
    spent        \* how much of each bound is used

vars == <<node, spec, cm, job, made, spent>>

-----------------------------------------------------------------------------
(* DeviceClass.  With useAllDevices (all) the devices are filled in by the *)
(* job from the disks it finds, whatever the specification says.           *)
DeviceClasses == [name: ClassNames, devs: SUBSET Disks, default: BOOLEAN]

NodeDevices == [VGs -> DeviceClasses \cup {NoClass}]

Specs == [all: BOOLEAN, classes: NodeDevices]

(* The names of the classes of a node differ; useAllDevices makes one      *)
(* class.  Logical volumes are in volume groups.                           *)
ASSUME PrepareVgAssumption ==
    /\ NoClass \notin DeviceClasses
    /\ NodeSpecs \subseteq Specs
    /\ \A s \in NodeSpecs : \A v, w \in Classes(s.classes) :
          s.all \/ s.classes[v].name = s.classes[w].name => v = w
    /\ InitNodes \subseteq Nodes
    /\ \A n \in InitNodes : \A d \in n.busy : n.own[d] \in VGs
    /\ InitCms \subseteq {[devices |-> v, status |-> NoData, lvmd |-> NoData] :
                             v \in DeviceViews} \cup {NoCm}
    /\ {MaxEdits, MaxFaults, MaxWipes, MaxUnplugs, MaxEvents} \subseteq Nat

Bound == [edit |-> MaxEdits, fault |-> MaxFaults, wipe |-> MaxWipes, unplug |-> MaxUnplugs]

NothingSpent == [edit |-> 0, fault |-> 0, wipe |-> 0, unplug |-> 0]

CanSpend(kind) ==
    /\ spent[kind] < Bound[kind]
    /\ spent.edit + spent.fault + spent.wipe + spent.unplug < MaxEvents

Spend(kind) == CanSpend(kind) /\ spent' = [spent EXCEPT ![kind] = spent[kind] + 1]

Jobs == [active: BOOLEAN,
         want:   NodeDevices,       \* c.nodeDevices
         avail:  SUBSET Disks,      \* disks, as GetAvailableDevices found them
         base:   ConfigMaps \cup {NoCm},
         known:  BOOLEAN,           \* provisionWithNodeStatus, not provisionFirst
         suc:    [VGs -> ClassStates \cup {NoClass}],
         fail:   [VGs -> FailMarks],
         new:    SUBSET VGs,        \* sucVgs
         todo:   SUBSET VGs]        \* classes the loop has not handled

NoFails == [vg \in VGs |-> "none"]

IdleJob == [active |-> FALSE, want |-> NoClasses, avail |-> {}, base |-> NoCm,
            known |-> FALSE, suc |-> NoClasses, fail |-> NoFails,
            new |-> {}, todo |-> {}]

TypeOK ==
    /\ node \in Nodes
    /\ spec \in Specs
    /\ cm \in ConfigMaps \cup {NoCm}
    /\ job \in Jobs
    /\ made \subseteq VGs
    /\ spent \in [edit: Nat, fault: Nat, wipe: Nat, unplug: Nat]

Init ==
    /\ node \in InitNodes
    /\ spec \in NodeSpecs
    /\ cm \in InitCms
    /\ job = IdleJob
    /\ made = {}
    /\ spent = NothingSpent

-----------------------------------------------------------------------------
(* What the job does to one class.  Each operator is the set of outcomes   *)
(* [node, suc, fail]: the node afterwards and the entries of the class in  *)
(* sucClassMap and failClassMap.                                           *)

Outcome(n, suc, fail) == [node |-> n, suc |-> suc, fail |-> fail]

ReadyClass(c, devs) == [name |-> c.name, state |-> "Ready", devs |-> devs]

(* createVg: every device must have been available when the run started.   *)
CreateVg(n, vg, c, avail, fault) ==
    IF c.devs \subseteq avail
    THEN {IF o.ok
          THEN Outcome(o.node, ReadyClass(c, c.devs \X {"Online"}), "none")
          ELSE Outcome(o.node, NoClass, "failed") :
             o \in CreateVolumeGroup(n, vg, c.devs, fault)}
    ELSE {Outcome(n, NoClass, "failed")}

(* createVgRetry: the same, but a success records no device states and a   *)
(* failure keeps the earlier record.                                       *)
CreateVgRetry(n, vg, c, avail, fault) ==
    IF c.devs \subseteq avail
    THEN {IF o.ok
          THEN Outcome(o.node, ReadyClass(c, {}), "none")
          ELSE Outcome(o.node, NoClass, "failed") :
             o \in CreateVolumeGroup(n, vg, c.devs, fault)}
    ELSE {Outcome(n, NoClass, "failed")}

(* checkVgIfExpand: pvcreate on every wanted disk that is not a member;    *)
(* one vgextend with those that worked.  No listing, no change.            *)
CheckVgIfExpand(n, vg, c, suc, fault) ==
    LET missing == c.devs \ PhysicalVolumes(n, vg)
        Add(pvs, o) ==
            Outcome(o.node,
                    [suc EXCEPT !.devs = suc.devs
                        \cup ((missing \ pvs) \X {"Error"})
                        \cup (IF o.ok THEN pvs \X {"Online"} ELSE {})],
                    "none")
        Grown(pvs) ==
            IF pvs = {} THEN {Done(n)} ELSE ExpandVolumeGroup(n, vg, pvs, fault)
    IN  (IF Readable(n, vg)
         THEN UNION {{Add(pvs, o) : o \in Grown(pvs)} :
                       pvs \in CreatePhysicalVolumes(n, missing, fault)}
         ELSE {})
        \cup (IF fault \/ ~Readable(n, vg) THEN {Outcome(n, suc, "none")} ELSE {})

(* checkVgIfShrink: members that the class does not list leave the group;  *)
(* if that is all of them, the group is removed and its entry with it.     *)
CheckVgIfShrink(n, vg, c, suc, fault) ==
    LET pvs   == PhysicalVolumes(n, vg)
        extra == pvs \ c.devs
        Removed(o) == Outcome(o.node, IF o.ok THEN NoClass ELSE suc, "none")
        Shrunk(o)  ==
            Outcome(o.node,
                    IF o.ok THEN [suc EXCEPT !.devs = {s \in suc.devs : s[1] \notin extra}]
                            ELSE suc,
                    "none")
    IN  (IF extra = {}
         THEN {Outcome(n, suc, "none")}
         ELSE IF extra = pvs /\ ~Partial(n, vg)
         THEN {Removed(o) : o \in RemoveVolumeGroup(n, vg, fault)}
         ELSE {Shrunk(o) : o \in ShrinkVolumeGroup(n, vg, extra, fault)})
        \cup (IF fault THEN {Outcome(n, suc, "none")} ELSE {})

(* The loop body for a success class: an error of the expansion does not   *)
(* prevent the reduction.                                                  *)
Adjust(n, vg, c, suc, fault) ==
    UNION {CheckVgIfShrink(e.node, vg, c, e.suc, fault) :
             e \in CheckVgIfExpand(n, vg, c, suc, fault)}

(* The loop bodies of provisionFirst and provisionWithNodeStatus.          *)
ClassOutcomes(n, j, vg, fault) ==
    LET c == j.want[vg]
    IN  IF ~j.known /\ Readable(n, vg)
        THEN {Outcome(n, NoClass, "existing")}
        ELSE IF j.suc[vg] # NoClass
        THEN Adjust(n, vg, c, j.suc[vg], fault)
        ELSE IF j.fail[vg] # "none"
        THEN CreateVgRetry(n, vg, c, j.avail, fault)
        ELSE CreateVg(n, vg, c, j.avail, fault)

-----------------------------------------------------------------------------
(* The actions of the job.                                                 *)

(* A command of the step may fail, or none may.                            *)
MayFail(fault) == IF fault THEN Spend("fault") ELSE UNCHANGED spent

NodeDevicesOf(s, avail) ==
    IF s.all
    THEN [vg \in VGs |->
            IF s.classes[vg] = NoClass THEN NoClass
            ELSE [s.classes[vg] EXCEPT !.devs = avail, !.default = TRUE]]
    ELSE s.classes

(* getVgNameMap on the recorded fail classes: the key is the VgName in the *)
(* record.  Those without one share the key "", which no class has.        *)
RecordedFails(status) ==
    [vg \in VGs |-> IF status.fail[vg] = "failed" THEN "failed" ELSE "none"]

(* Reconcile, provision up to the read of the ConfigMap, and the listing   *)
(* with which provisionFirst or provisionWithNodeStatus begins.            *)
JobStart ==
    LET avail == AvailableDevices(node)
        want  == NodeDevicesOf(spec, avail)
        known == IF cm = NoCm THEN FALSE ELSE cm.status # NoData
    IN  /\ ~job.active
        /\ job' = [active |-> TRUE, want |-> want, avail |-> avail, base |-> cm,
                   known |-> known,
                   suc   |-> IF known THEN cm.status.suc ELSE NoClasses,
                   fail  |-> IF known THEN RecordedFails(cm.status) ELSE NoFails,
                   new   |-> {},
                   todo  |-> Classes(want)]
        /\ UNCHANGED <<node, spec, cm, made, spent>>

(* One iteration over c.nodeDevices.DeviceClasses.  sucVgs collects the    *)
(* classes whose volume group this run created.                            *)
ProvisionClass(vg) ==
    /\ job.active /\ vg \in job.todo
    /\ \E fault \in BOOLEAN :
         \E o \in ClassOutcomes(node, job, vg, fault) :
            LET created == job.suc[vg] = NoClass /\ o.suc # NoClass
            IN  /\ node' = o.node
                /\ job' = [job EXCEPT
                             !.suc  = [job.suc EXCEPT ![vg] = o.suc],
                             !.fail = [job.fail EXCEPT ![vg] = o.fail],
                             !.new  = IF created THEN job.new \cup {vg} ELSE job.new,
                             !.todo = job.todo \ {vg}]
                /\ made' = IF created THEN made \cup {vg} ELSE made
                /\ MayFail(fault)
    /\ UNCHANGED <<spec, cm>>

(* Success classes that checkVgIfDelete still has to look at.              *)
Unwanted(j) == {vg \in Classes(j.suc) : j.want[vg] = NoClass}

(* The first loop of checkVgIfDelete: the entry goes even when the volume  *)
(* group stays.                                                            *)
DropClass(vg) ==
    /\ job.active /\ job.todo = {} /\ vg \in Unwanted(job)
    /\ \E fault \in BOOLEAN :
         \E o \in RemoveVolumeGroup(node, vg, fault) :
            /\ node' = o.node
            /\ job' = [job EXCEPT !.suc = [job.suc EXCEPT ![vg] = NoClass]]
            /\ MayFail(fault)
    /\ UNCHANGED <<spec, cm, made>>

(* createLvmdConf: entries for the classes this run created, if any.       *)
EntryOf(want, vg) ==
    [name |-> want[vg].name, vg |-> vg, default |-> want[vg].default]

(* Mutant: only the first run of a node creates lvmd.yaml.                 *)
CreateLvmdConfFirst(j, old) ==
    IF j.known \/ j.new = {} THEN old
    ELSE [classes |-> {EntryOf(j.want, vg) : vg \in j.new}]

CreateLvmdConf(j, old) ==
    IF j.new = {} THEN old
    ELSE [classes |-> {EntryOf(j.want, vg) : vg \in j.new}]

(* Mutant: the default flags stay as they are.                             *)
RefreshNothing(e, want) == e

(* updateLvmdConf: refresh the default flags by class name, add the new    *)
(* classes, keep the entries whose name some success class has.            *)
RefreshDefault(e, want) ==
    IF e.name \in ClassNamesOf(want)
    THEN [e EXCEPT !.default = \E vg \in Classes(want) :
                                  want[vg].name = e.name /\ want[vg].default]
    ELSE e

(* Mutants: entries are never withdrawn; the list is written anew.         *)
UpdateLvmdConfKeepAll(j, old) ==
    IF old = NoData THEN CreateLvmdConf(j, old)
    ELSE [classes |-> {RefreshDefault(x, j.want) : x \in old.classes}
                        \cup {EntryOf(j.want, vg) : vg \in j.new}]

UpdateLvmdConfAnew(j, old) == CreateLvmdConf(j, old)

UpdateLvmdConf(j, old) ==
    IF old = NoData
    THEN CreateLvmdConf(j, old)
    ELSE [classes |-> {e \in {RefreshDefault(x, j.want) : x \in old.classes}
                              \cup {EntryOf(j.want, vg) : vg \in j.new} :
                         e.name \in ClassNamesOf(j.suc)}]

(* Mutant: the fail classes are not recorded.                              *)
NewStatusWithoutFails(j) == [suc |-> j.suc, fail |-> NoFails]

(* updateVgStatus, after the second loop of checkVgIfDelete.               *)
NewStatus(j) ==
    [suc  |-> j.suc,
     fail |-> [vg \in VGs |-> IF j.want[vg] = NoClass THEN "none" ELSE j.fail[vg]]]

NewCm(j) ==
    LET old == IF j.base = NoCm
               THEN [devices |-> NoData, status |-> NoData, lvmd |-> NoData]
               ELSE j.base
    IN  [old EXCEPT !.status = NewStatus(j),
                    !.lvmd = IF j.known THEN UpdateLvmdConf(j, old.lvmd)
                             ELSE CreateLvmdConf(j, old.lvmd)]

(* The write that ends the run.  The classes are marshalled in the order   *)
(* of a Go map, so a status that says the same may still be a new text.    *)
JobCommit ==
    /\ job.active /\ job.todo = {} /\ Unwanted(job) = {}
    /\ \/ /\ job.base = NoCm
          /\ cm' = CreateOrPatchConfigmap(NewCm(job), cm)
       \/ /\ job.base # NoCm
          /\ cm' = PatchConfigMap(job.base, NewCm(job), cm)
       \/ /\ job.base # NoCm
          /\ cm' = [PatchConfigMap(job.base, NewCm(job), cm)
                      EXCEPT !.status = NewStatus(job)]
    /\ job' = IdleJob
    /\ UNCHANGED <<node, spec, made, spent>>

(* The nodes that a run which dies within its current step may leave.      *)
Interrupted ==
    {node}
    \cup {o.node : o \in UNION {ClassOutcomes(node, job, vg, TRUE) : vg \in job.todo}}
    \cup {o.node : o \in UNION {RemoveVolumeGroup(node, vg, TRUE) :
                                  vg \in IF job.todo = {} THEN Unwanted(job) ELSE {}}}

(* The pod dies, or a call to the API server fails and the run ends with   *)
(* nothing written.                                                        *)
JobDie ==
    /\ job.active /\ Spend("fault")
    /\ node' \in Interrupted
    /\ made' = made \cup {vg \in VGs : VgExists(node', vg) /\ ~VgExists(node, vg)}
    /\ job' = IdleJob
    /\ UNCHANGED <<spec, cm>>

JobNext ==
    \/ JobStart
    \/ \E vg \in VGs : ProvisionClass(vg)
    \/ \E vg \in VGs : DropClass(vg)
    \/ JobCommit
    \/ JobDie

-----------------------------------------------------------------------------
(* Everything around the job.                                              *)

EditSpec ==
    /\ Spend("edit")
    /\ spec' \in NodeSpecs \ {spec}
    /\ UNCHANGED <<node, cm, job, made>>

(* The volume groups topolvm-node serves volumes from.                     *)
LvmdEntries ==
    IF cm = NoCm THEN {}
    ELSE IF cm.lvmd = NoData THEN {} ELSE cm.lvmd.classes

ServedVgs == {e.vg : e \in LvmdEntries}

(* A logical volume is created on a disk of a served group, or the last    *)
(* one on a disk is deleted.                                               *)
CreateLv(d) ==
    /\ node.own[d] \in ServedVgs /\ d \notin node.busy
    /\ ~Partial(node, node.own[d])
    /\ node' = [node EXCEPT !.busy = node.busy \cup {d}]
    /\ UNCHANGED <<spec, cm, job, made, spent>>

DeleteLv(d) ==
    /\ d \in node.busy \ node.gone
    /\ node' = [node EXCEPT !.busy = node.busy \ {d}]
    /\ UNCHANGED <<spec, cm, job, made, spent>>

(* A disk is unplugged, or plugged in again.                               *)
Unplug(d) ==
    /\ d \notin node.gone /\ Spend("unplug")
    /\ node' = [node EXCEPT !.gone = node.gone \cup {d}]
    /\ UNCHANGED <<spec, cm, job, made>>

Plug(d) ==
    /\ d \in node.gone
    /\ node' = [node EXCEPT !.gone = node.gone \ {d}]
    /\ UNCHANGED <<spec, cm, job, made, spent>>

(* A user wipes a disk that had a file system.                             *)
Wipe(d) ==
    /\ node.own[d] = Used /\ d \notin node.gone /\ Spend("wipe")
    /\ node' = Relabel(node, {d}, Raw)
    /\ UNCHANGED <<spec, cm, job, made>>

EnvNext ==
    \/ EditSpec
    \/ \E d \in Disks : CreateLv(d) \/ DeleteLv(d) \/ Unplug(d) \/ Plug(d) \/ Wipe(d)

Next == JobNext \/ EnvNext

Spec == Init /\ [][Next]_vars

-----------------------------------------------------------------------------
(* What some properties need of the specifications that users write.       *)

(* A class name keeps its volume group, and a volume group its class name. *)
NamesKeepGroups ==
    \A s, t \in NodeSpecs : \A v \in Classes(s.classes), w \in Classes(t.classes) :
        s.classes[v].name = t.classes[w].name => v = w

GroupsKeepNames ==
    \A s, t \in NodeSpecs : \A v \in Classes(s.classes) \cap Classes(t.classes) :
        s.classes[v].name = t.classes[v].name

(* At most one class of a node is the default (docs/user_manual.md:40).    *)
OneDefault ==
    \A s \in NodeSpecs : \A v, w \in Classes(s.classes) :
        s.classes[v].default /\ s.classes[w].default => v = w

(* No disk is listed for two classes.                                      *)
DisjointDevices ==
    \A s \in NodeSpecs : \A v, w \in Classes(s.classes) :
        v # w => s.classes[v].devs \cap s.classes[w].devs = {}

-----------------------------------------------------------------------------
(* Properties.                                                             *)

(* lvmd.yaml offers no device class that the recorded status does not      *)
(* count among the success classes.                                        *)
ServedIsSuccess ==
    \A e \in LvmdEntries :
        cm.status # NoData /\ e.name \in ClassNamesOf(cm.status.suc)

(* What the status counts as a success is offered under its name and       *)
(* volume group.                                                           *)
SuccessIsServed ==
    cm # NoCm =>
      (cm.status # NoData =>
         \A vg \in Classes(cm.status.suc) :
            \E e \in LvmdEntries : e.vg = vg /\ e.name = cm.status.suc[vg].name)

(* lvmd.yaml offers exactly the success classes, whatever fails and        *)
(* wherever a run stops.  The status is written from sucClassMap, but the  *)
(* file from the classes the run has created and from the one it has read. *)
StatusMatchesLvmd == ServedIsSuccess /\ SuccessIsServed

(* A volume group the operator did not create is never extended, reduced   *)
(* or removed by a job, even if a class asks for its name (the todo of     *)
(* provision, "distinguish the created vg between cluster and other user").*)
ForeignUntouched ==
    [][JobNext => \A vg \in VGs \ made :
                    VgExists(node, vg) => Members(node', vg) = Members(node, vg)]_vars

(* A run withdraws a class from lvmd.yaml only if the specification it     *)
(* works on drops the class or its volume group holds no logical volume.   *)
KeepsInUse ==
    [][JobCommit => \A vg \in ServedVgs :
          /\ job.want[vg] # NoClass
          /\ HasLogicalVolume(node, Members(node, vg))
          => vg \in ServedVgs']_vars

(* As long as class names and volume groups keep each other and each       *)
(* specification marks at most one class as default, lvmd.yaml has one     *)
(* entry per class and per volume group and at most one default, which is  *)
(* what lvmd accepts and docs/user_manual.md:40 asks for.  Entries are     *)
(* matched by name, so a class that moves leaves its old entry behind.     *)
LvmdWellFormed ==
    \A e, f \in LvmdEntries :
        (e.name = f.name \/ e.vg = f.vg \/ (e.default /\ f.default)) => e = f

(* A class is never recorded both as success and as failure.               *)
SuccessOrFailure ==
    cm # NoCm =>
      (cm.status # NoData => \A vg \in Classes(cm.status.suc) :
                               cm.status.fail[vg] = "none")

(* The disks of a class: those a run is to use for it, and its members.    *)
DisksOf(vg) ==
    Members(node, vg) \cup (IF job.want[vg] = NoClass THEN {} ELSE job.want[vg].devs)

(* A class that cannot be had without a failing command: there is a group  *)
(* of its name that no run has recorded, or one of its disks is unplugged. *)
Obstructed(vg) ==
    /\ job.want[vg] # NoClass
    /\ \/ VgExists(node, vg) /\ job.suc[vg] = NoClass
       \/ DisksOf(vg) \cap node.gone # {}

(* A physical volume in no volume group is lost: no later run counts it as *)
(* available.  One step, even one that fails or in which the run dies,     *)
(* loses disks of one class only; a step in which nothing fails loses      *)
(* nothing but disks listed for an obstructed class.                       *)
LossesExplained ==
    [][JobNext =>
         LET losses == {d \in Disks : node.own[d] # Orphan /\ node'.own[d] = Orphan}
         IN  losses # {} =>
               \E vg \in VGs :
                  /\ losses \subseteq DisksOf(vg)
                  /\ spent' = spent =>
                       Obstructed(vg) /\ losses \subseteq job.want[vg].devs]_vars

(* If no command ever failed and no pod died, then between runs every      *)
(* volume group that lvmd.yaml offers exists.                              *)
ServedExists ==
    spent.fault = 0 /\ ~job.active => \A vg \in ServedVgs : VgExists(node, vg)

(* "If volume group created successfully and then create lvmd ConfigMap    *)
(* for the node" (README.md:60): as long as the specification stays as it  *)
(* is and nothing fails, a volume group that a run created is in lvmd.yaml *)
(* once the run is over.                                                   *)
CreatedIsServed ==
    spent.edit = 0 /\ spent.fault = 0 /\ ~job.active =>
      \A vg \in made : VgExists(node, vg) => vg \in ServedVgs

(* Every class a run was asked for is in the status it writes, as a        *)
(* success or as a failure, for the operator runs the job again only for   *)
(* classes it finds there; but one whose volume group our hand has made    *)
(* and a dead or failed run has removed may be in neither.                 *)
StatusComplete ==
    [][JobCommit => \A vg \in Classes(job.want) :
          \/ cm'.status.suc[vg] # NoClass
          \/ cm'.status.fail[vg] # "none"
          \/ vg \in made /\ ~VgExists(node, vg)]_vars

(* No run takes a disk with data, gives one away, changes a volume group   *)
(* that no run has created, or offers one in lvmd.yaml: the node's groups  *)
(* as those see them who keep data on its disks.                           *)
Occupied(n) == n.busy \cup {d \in Disks : n.own[d] = Used}

Owned == INSTANCE OwnedGroups
           WITH members <- [vg \in VGs |-> Members(node, vg)], data <- Occupied(node),
                ours <- made, served <- ServedVgs

GroupsAreOurs == Owned!Spec
=============================================================================
