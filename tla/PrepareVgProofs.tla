-------------------------- MODULE PrepareVgProofs --------------------------
(***************************************************************************)
(* For every set of disks, volume groups, class names, specifications and  *)
(* bounds: the safety properties of PrepareVg.  The invariants come in     *)
(* layers, each proved with the help of the earlier ones:                  *)
(*   Core   types, and what every status and every run says of itself,     *)
(*          whoever else writes the ConfigMap (NodeStorageProofs);         *)
(*   IInv   what the keys of the ConfigMap say of each other as long as    *)
(*          only the job writes them;                                      *)
(*   RInv   how far a run has come, compared with the status it read;      *)
(*   ExistInv, MadeInv   the recorded classes and the groups on the node   *)
(*          while nothing fails;                                           *)
(*   AskInv, ServedOwn, DefaultInv, AvailInv   what holds as long as users *)
(*          keep to the rules at the end of PrepareVg (NamesKeepGroups,    *)
(*          GroupsKeepNames, OneDefault, DisjointDevices);                 *)
(*   Offered   on top of Core alone: what the job may touch and serve, for *)
(*          the refinement of OwnedGroups, with or without the daemon.     *)
(***************************************************************************)
EXTENDS PrepareVg, TLAPS

Results == [node: Nodes, ok: BOOLEAN]

(* n2 is a node whose volume groups other than vg are those of n1.         *)
Frame(n1, n2, vg) ==
    /\ n2 \in Nodes
    /\ \A w \in VGs \ {vg} : Members(n2, w) = Members(n1, w)

(* The volume group of no name: nothing changed.                           *)
Same(n1, n2) ==
    /\ n2 \in Nodes
    /\ \A w \in VGs : Members(n2, w) = Members(n1, w)

-----------------------------------------------------------------------------
(* Writing a label on disks (pvcreate, pvremove, vgcreate, vgextend).      *)
LEMMA RelabelType ==
    ASSUME NEW n \in Nodes, NEW S, NEW x \in Labels
    PROVE  Relabel(n, S, x) \in Nodes
BY DEF Relabel, Nodes

(* The disks that get a new label leave their group and no other group     *)
(* than the one of that label changes.                                     *)
LEMMA RelabelMembers ==
    ASSUME NEW n \in Nodes, NEW S, NEW x \in Labels, NEW w \in VGs, x # w,
           S \cap Members(n, w) = {}
    PROVE  Members(Relabel(n, S, x), w) = Members(n, w)
BY DEF Relabel, Nodes, Members

(* The labels the wrappers write.                                          *)
LEMMA LabelsOfLvm == Raw \in Labels /\ Orphan \in Labels /\ VGs \subseteq Labels
BY DEF Labels

(* A result holds the node it is made of.                                  *)
LEMMA ResultOf ==
    ASSUME NEW n, NEW m, NEW vg, Frame(n, m, vg)
    PROVE  /\ Done(m) \in Results /\ Frame(n, Done(m).node, vg)
           /\ Failed(m) \in Results /\ Frame(n, Failed(m).node, vg)
<1>1. m \in Nodes
  BY DEF Frame
<1>2. Done(m).node = m /\ Failed(m).node = m
  BY DEF Done, Failed
<1>3. Done(m) \in Results /\ Failed(m) \in Results
  BY <1>1 DEF Done, Failed, Results
<1> QED BY <1>2, <1>3

(* CreateVolumeGroup relabels only disks that belong to no volume group.   *)
LEMMA CreateVolumeGroupFrame ==
    ASSUME NEW n \in Nodes, NEW vg \in VGs, NEW devs \in SUBSET Disks,
           NEW fault \in BOOLEAN,
           NEW o \in CreateVolumeGroup(n, vg, devs, fault)
    PROVE  /\ o \in Results
           /\ Frame(n, o.node, vg)
           /\ VgExists(n, vg) => ~o.ok /\ Same(n, o.node)
<1> DEFINE labelled  == devs \subseteq Labelable(n)
           creatable == labelled /\ devs # {} /\ ~VgExists(n, vg)
<1>1. \A S \in SUBSET Labelable(n), w \in VGs : S \cap Members(n, w) = {}
  BY VGsAssumption DEF Labelable, Members
<1>2. \/ creatable /\ o = Done(Relabel(n, devs, vg))
      \/ \E S \in SUBSET (devs \cap Labelable(n)) : o = Failed(Relabel(n, S, Orphan))
      \/ labelled /\ o = Failed(Relabel(n, devs, Orphan))
  BY DEF CreateVolumeGroup
<1>3. CASE creatable /\ o = Done(Relabel(n, devs, vg))
  <2>1. Relabel(n, devs, vg) \in Nodes
    BY RelabelType, LabelsOfLvm
  <2>2. \A w \in VGs \ {vg} : Members(Relabel(n, devs, vg), w) = Members(n, w)
    BY <1>1, <1>3, RelabelMembers, LabelsOfLvm
  <2> QED BY <1>3, <2>1, <2>2 DEF Done, Results, Frame
<1>4. ASSUME NEW S \in SUBSET Labelable(n), o = Failed(Relabel(n, S, Orphan))
      PROVE  o \in Results /\ Frame(n, o.node, vg) /\ ~o.ok /\ Same(n, o.node)
  <2>1. Relabel(n, S, Orphan) \in Nodes
    BY RelabelType, LabelsOfLvm
  <2>2. \A w \in VGs : Members(Relabel(n, S, Orphan), w) = Members(n, w)
    BY <1>1, RelabelMembers, LabelsOfLvm, VGsAssumption
  <2> QED BY <1>4, <2>1, <2>2 DEF Failed, Results, Frame, Same
<1> QED BY <1>2, <1>3, <1>4

(* Members of one group are in no other.                                   *)
LEMMA MembersDisjoint ==
    ASSUME NEW n \in Nodes, NEW vg \in VGs, NEW w \in VGs \ {vg},
           NEW S \in SUBSET Members(n, vg)
    PROVE  S \cap Members(n, w) = {}
BY DEF Members

(* Taking members of a group, and then some of them once more, to Orphan   *)
(* or Raw leaves the other groups alone.                                   *)
LEMMA ReleaseFrame ==
    ASSUME NEW n \in Nodes, NEW vg \in VGs, NEW pvs \in SUBSET Members(n, vg),
           NEW S \in SUBSET pvs
    PROVE  /\ Frame(n, Relabel(n, pvs, Raw), vg)
           /\ Frame(n, Relabel(n, pvs, Orphan), vg)
           /\ Frame(n, Relabel(Relabel(n, pvs, Orphan), S, Raw), vg)
           /\ Frame(n, n, vg)
<1> DEFINE reduced == Relabel(n, pvs, Orphan)
<1>1. Relabel(n, pvs, Raw) \in Nodes /\ reduced \in Nodes
  BY RelabelType, LabelsOfLvm
<1>2. Relabel(reduced, S, Raw) \in Nodes
  BY <1>1, RelabelType, LabelsOfLvm
<1>3. ASSUME NEW w \in VGs \ {vg}
      PROVE  /\ Members(Relabel(n, pvs, Raw), w) = Members(n, w)
             /\ Members(reduced, w) = Members(n, w)
             /\ Members(Relabel(reduced, S, Raw), w) = Members(n, w)
  <2>1. pvs \cap Members(n, w) = {} /\ S \cap Members(n, w) = {}
    BY MembersDisjoint
  <2>2. Members(Relabel(n, pvs, Raw), w) = Members(n, w)
    BY <2>1, RelabelMembers, LabelsOfLvm, VGsAssumption
  <2>3. Members(reduced, w) = Members(n, w)
    BY <2>1, RelabelMembers, LabelsOfLvm, VGsAssumption
  <2>4. Members(Relabel(reduced, S, Raw), w) = Members(reduced, w)
    BY <1>1, <2>1, <2>3, RelabelMembers, LabelsOfLvm, VGsAssumption
  <2> QED BY <2>2, <2>3, <2>4
<1> QED BY <1>1, <1>2, <1>3 DEF Frame

(* RemoveVolumeGroup releases members of the group only.                   *)
LEMMA RemoveVolumeGroupFrame ==
    ASSUME NEW n \in Nodes, NEW vg \in VGs, NEW fault \in BOOLEAN,
           NEW o \in RemoveVolumeGroup(n, vg, fault)
    PROVE  o \in Results /\ Frame(n, o.node, vg)
<1> DEFINE pvs == Members(n, vg)
<1>1. \/ o = Done(Relabel(n, pvs, Raw))
      \/ o = Failed(n)
      \/ \E S \in SUBSET pvs : o = Failed(Relabel(Relabel(n, pvs, Orphan), S, Raw))
  BY DEF RemoveVolumeGroup
<1>2. \A S \in SUBSET pvs :
         /\ Frame(n, Relabel(n, pvs, Raw), vg)
         /\ Frame(n, Relabel(Relabel(n, pvs, Orphan), S, Raw), vg)
         /\ Frame(n, n, vg)
  BY ReleaseFrame
<1> QED BY <1>1, <1>2, ResultOf

(* ShrinkVolumeGroup releases the given members only.                      *)
LEMMA ShrinkVolumeGroupFrame ==
    ASSUME NEW n \in Nodes, NEW vg \in VGs, NEW pvs \in SUBSET Members(n, vg),
           NEW fault \in BOOLEAN, NEW o \in ShrinkVolumeGroup(n, vg, pvs, fault)
    PROVE  o \in Results /\ Frame(n, o.node, vg)
<1>1. \/ o = Done(Relabel(n, pvs, Raw))
      \/ o = Failed(n)
      \/ \E S \in SUBSET pvs : o = Failed(Relabel(n, S, Orphan))
      \/ \E S \in SUBSET pvs : o = Failed(Relabel(Relabel(n, pvs, Orphan), S, Raw))
  BY DEF ShrinkVolumeGroup
<1>2. \A S \in SUBSET pvs :
         /\ Frame(n, Relabel(n, pvs, Raw), vg)
         /\ Frame(n, Relabel(Relabel(n, pvs, Orphan), S, Raw), vg)
         /\ Frame(n, n, vg)
  BY ReleaseFrame
<1>3. \A S \in SUBSET pvs : Frame(n, Relabel(n, S, Orphan), vg)
  BY ReleaseFrame
<1> QED BY <1>1, <1>2, <1>3, ResultOf

(* ExpandVolumeGroup adds disks that belong to no group.                   *)
LEMMA ExpandVolumeGroupFrame ==
    ASSUME NEW n \in Nodes, NEW vg \in VGs, NEW pvs \in SUBSET Labelable(n),
           NEW fault \in BOOLEAN, NEW o \in ExpandVolumeGroup(n, vg, pvs, fault)
    PROVE  o \in Results /\ Frame(n, o.node, vg)
<1>1. o = Done(Relabel(n, pvs, vg)) \/ o = Failed(Relabel(n, pvs, Orphan))
  BY DEF ExpandVolumeGroup
<1>2. Relabel(n, pvs, vg) \in Nodes /\ Relabel(n, pvs, Orphan) \in Nodes
  BY RelabelType, LabelsOfLvm
<1>3. ASSUME NEW w \in VGs \ {vg}
      PROVE  /\ Members(Relabel(n, pvs, vg), w) = Members(n, w)
             /\ Members(Relabel(n, pvs, Orphan), w) = Members(n, w)
  <2>1. pvs \cap Members(n, w) = {}
    BY VGsAssumption DEF Labelable, Members
  <2> QED BY <2>1, RelabelMembers, LabelsOfLvm, VGsAssumption
<1>4. Frame(n, Relabel(n, pvs, vg), vg) /\ Frame(n, Relabel(n, pvs, Orphan), vg)
  BY <1>2, <1>3 DEF Frame
<1> QED BY <1>1, <1>4, ResultOf

(* CreatePhysicalVolume succeeds on disks that belong to no group.         *)
LEMMA CreatePhysicalVolumesType ==
    ASSUME NEW n \in Nodes, NEW devs \in SUBSET Disks, NEW fault \in BOOLEAN,
           NEW pvs \in CreatePhysicalVolumes(n, devs, fault)
    PROVE  pvs \in SUBSET (devs \cap Labelable(n))
BY DEF CreatePhysicalVolumes
-----------------------------------------------------------------------------
Outcomes == [node: Nodes, suc: ClassStates \cup {NoClass}, fail: FailMarks]

(* What every outcome o of a step on class vg has: nothing happens to      *)
(* other volume groups, the entry is a success or a failure but not both,  *)
(* and a group that exists without being a success class is left alone.    *)
ClassStep(n, vg, suc, name, o) ==
    /\ o \in Outcomes
    /\ Frame(n, o.node, vg)
    /\ o.suc # NoClass => o.suc.name = name /\ o.fail = "none"
    /\ suc = NoClass /\ VgExists(n, vg) => Same(n, o.node)

-----------------------------------------------------------------------------
LEMMA OutcomeOf ==
    ASSUME NEW n \in Nodes, NEW suc \in ClassStates \cup {NoClass},
           NEW fail \in FailMarks
    PROVE  /\ Outcome(n, suc, fail) \in Outcomes
           /\ Outcome(n, suc, fail).node = n
           /\ Outcome(n, suc, fail).suc = suc
           /\ Outcome(n, suc, fail).fail = fail
BY DEF Outcome, Outcomes

LEMMA SameIsFrame ==
    ASSUME NEW n \in Nodes, NEW vg \in VGs
    PROVE  Same(n, n) /\ Frame(n, n, vg)
BY DEF Same, Frame

LEMMA FrameTransitive ==
    ASSUME NEW n, NEW m, NEW k, NEW vg \in VGs, Frame(n, m, vg), Frame(m, k, vg)
    PROVE  Frame(n, k, vg)
BY DEF Frame

LEMMA ReadyClassType ==
    ASSUME NEW c \in DeviceClasses, NEW devs \in SUBSET Disks
    PROVE  /\ ReadyClass(c, devs \X {"Online"}) \in ClassStates
           /\ ReadyClass(c, {}) \in ClassStates
           /\ ReadyClass(c, devs \X {"Online"}).name = c.name
           /\ ReadyClass(c, {}).name = c.name
BY DEF ReadyClass, ClassStates, DeviceClasses

(* createVg and createVgRetry: the group is created, or the class fails    *)
(* and no group changes.                                                   *)
LEMMA CreateVgStep ==
    ASSUME NEW n \in Nodes, NEW vg \in VGs, NEW c \in DeviceClasses,
           NEW avail \in SUBSET Disks, NEW fault \in BOOLEAN,
           NEW o \in CreateVg(n, vg, c, avail, fault)
                       \cup CreateVgRetry(n, vg, c, avail, fault)
    PROVE  ClassStep(n, vg, NoClass, c.name, o)
<1> DEFINE R == CreateVolumeGroup(n, vg, c.devs, fault)
<1>1. c.devs \in SUBSET Disks
  BY DEF DeviceClasses
<1>2. ASSUME NEW r \in R
      PROVE  /\ r \in Results
             /\ Frame(n, r.node, vg)
             /\ VgExists(n, vg) => ~r.ok /\ Same(n, r.node)
  BY <1>1, CreateVolumeGroupFrame
<1>3. \/ \E r \in R, suc \in ClassStates :
            r.ok /\ suc.name = c.name /\ o = Outcome(r.node, suc, "none")
      \/ \E r \in R : o = Outcome(r.node, NoClass, "failed")
      \/ o = Outcome(n, NoClass, "failed")
  <2>1. ReadyClass(c, c.devs \X {"Online"}) \in ClassStates /\ ReadyClass(c, {}) \in ClassStates
    BY <1>1, ReadyClassType
  <2>2. ReadyClass(c, c.devs \X {"Online"}).name = c.name /\ ReadyClass(c, {}).name = c.name
    BY <1>1, ReadyClassType
  <2> HIDE DEF R
  <2> QED BY <2>1, <2>2 DEF CreateVg, CreateVgRetry, R
<1>4. ASSUME NEW r \in R, NEW suc \in ClassStates,
             r.ok, suc.name = c.name, o = Outcome(r.node, suc, "none")
      PROVE  ClassStep(n, vg, NoClass, c.name, o)
  BY <1>2, <1>4, OutcomeOf DEF Results, ClassStep, FailMarks
<1>5. ASSUME NEW r \in R, o = Outcome(r.node, NoClass, "failed")
      PROVE  ClassStep(n, vg, NoClass, c.name, o)
  BY <1>2, <1>5, OutcomeOf DEF Results, ClassStep, FailMarks
<1>6. CASE o = Outcome(n, NoClass, "failed")
  BY <1>6, OutcomeOf, SameIsFrame DEF ClassStep, FailMarks
<1> QED BY <1>3, <1>4, <1>5, <1>6

(* Changing the devices of an entry keeps its type and its name.           *)
LEMMA EntryType ==
    ASSUME NEW suc \in ClassStates,
           NEW devs \in SUBSET (Disks \X {"Online", "Offline", "Error"})
    PROVE  /\ [suc EXCEPT !.devs = devs] \in ClassStates
           /\ [suc EXCEPT !.devs = devs].name = suc.name
BY DEF ClassStates

(* checkVgIfExpand only adds disks of no group to the class's group.       *)
LEMMA ExpandStep ==
    ASSUME NEW n \in Nodes, NEW vg \in VGs, NEW c \in DeviceClasses,
           NEW suc \in ClassStates, NEW fault \in BOOLEAN,
           NEW o \in CheckVgIfExpand(n, vg, c, suc, fault)
    PROVE  /\ ClassStep(n, vg, suc, suc.name, o)
           /\ o.suc \in ClassStates
<1> DEFINE missing == c.devs \ PhysicalVolumes(n, vg)
           Grown(pvs) == IF pvs = {} THEN {Done(n)} ELSE ExpandVolumeGroup(n, vg, pvs, fault)
           Added(pvs, r) ==
             suc.devs \cup ((missing \ pvs) \X {"Error"})
                      \cup (IF r.ok THEN pvs \X {"Online"} ELSE {})
           Entry(pvs, r) == [suc EXCEPT !.devs = Added(pvs, r)]
<1>1. missing \in SUBSET Disks
  BY DEF DeviceClasses
<1>2. \/ \E pvs \in CreatePhysicalVolumes(n, missing, fault) :
            \E r \in Grown(pvs) : o = Outcome(r.node, Entry(pvs, r), "none")
      \/ o = Outcome(n, suc, "none")
  BY DEF CheckVgIfExpand
<1>3. ASSUME NEW pvs \in CreatePhysicalVolumes(n, missing, fault), NEW r \in Grown(pvs),
             o = Outcome(r.node, Entry(pvs, r), "none")
      PROVE  ClassStep(n, vg, suc, suc.name, o) /\ o.suc \in ClassStates
  <2>1. pvs \in SUBSET missing /\ pvs \in SUBSET Labelable(n)
    BY <1>1, CreatePhysicalVolumesType
  <2>2. r \in Results /\ Frame(n, r.node, vg)
    BY <2>1, ExpandVolumeGroupFrame, SameIsFrame, ResultOf
  <2>3. Added(pvs, r) \in SUBSET (Disks \X {"Online", "Offline", "Error"})
    BY <1>1, <2>1 DEF ClassStates
  <2>4. Entry(pvs, r) \in ClassStates /\ Entry(pvs, r).name = suc.name
    BY <2>3, EntryType
  <2> HIDE DEF Entry
  <2>5. r.node \in Nodes
    BY <2>2 DEF Results
  <2>6. o \in Outcomes /\ o.node = r.node /\ o.suc = Entry(pvs, r) /\ o.fail = "none"
    BY <1>3, <2>4, <2>5, OutcomeOf DEF FailMarks
  <2> QED BY <2>2, <2>4, <2>6, AbsentAssumption DEF ClassStep
<1>4. CASE o = Outcome(n, suc, "none")
  BY <1>4, OutcomeOf, SameIsFrame, AbsentAssumption DEF ClassStep, FailMarks
<1> HIDE DEF Grown, Entry
<1> QED BY <1>2, <1>3, <1>4

(* checkVgIfShrink only releases members of the class's group.             *)
LEMMA ShrinkStep ==
    ASSUME NEW n \in Nodes, NEW vg \in VGs, NEW c \in DeviceClasses,
           NEW suc \in ClassStates, NEW fault \in BOOLEAN,
           NEW o \in CheckVgIfShrink(n, vg, c, suc, fault)
    PROVE  ClassStep(n, vg, suc, suc.name, o)
<1> DEFINE extra == PhysicalVolumes(n, vg) \ c.devs
           Left == [suc EXCEPT !.devs = {s \in suc.devs : s[1] \notin extra}]
           R == RemoveVolumeGroup(n, vg, fault) \cup ShrinkVolumeGroup(n, vg, extra, fault)
<1>1. extra \in SUBSET Members(n, vg)
  BY DEF PhysicalVolumes
<1>2. ASSUME NEW r \in R
      PROVE  r \in Results /\ Frame(n, r.node, vg)
  BY <1>1, RemoveVolumeGroupFrame, ShrinkVolumeGroupFrame
<1>3. \/ \E r \in R, e \in {NoClass, Left, suc} : o = Outcome(r.node, e, "none")
      \/ o = Outcome(n, suc, "none")
  BY DEF CheckVgIfShrink
<1>4. {s \in suc.devs : s[1] \notin extra} \in SUBSET (Disks \X {"Online", "Offline", "Error"})
  BY DEF ClassStates
<1>5. Left \in ClassStates /\ Left.name = suc.name
  BY <1>4, EntryType
<1> HIDE DEF R, Left
<1>6. ASSUME NEW r \in R, NEW e \in {NoClass, Left, suc}, o = Outcome(r.node, e, "none")
      PROVE  ClassStep(n, vg, suc, suc.name, o)
  <2>1. r.node \in Nodes
    BY <1>2 DEF Results
  <2>2. o \in Outcomes /\ o.node = r.node /\ o.suc = e /\ o.fail = "none"
    BY <1>5, <1>6, <2>1, OutcomeOf DEF FailMarks
  <2> QED BY <1>2, <1>5, <2>2, AbsentAssumption DEF ClassStep
<1>7. CASE o = Outcome(n, suc, "none")
  BY <1>7, OutcomeOf, SameIsFrame, AbsentAssumption DEF ClassStep, FailMarks
<1> QED BY <1>3, <1>6, <1>7

(* Expansion and then reduction.                                           *)
LEMMA AdjustStep ==
    ASSUME NEW n \in Nodes, NEW vg \in VGs, NEW c \in DeviceClasses,
           NEW suc \in ClassStates, NEW fault \in BOOLEAN,
           NEW o \in Adjust(n, vg, c, suc, fault)
    PROVE  ClassStep(n, vg, suc, suc.name, o)
<1>1. PICK e \in CheckVgIfExpand(n, vg, c, suc, fault) :
             o \in CheckVgIfShrink(e.node, vg, c, e.suc, fault)
  BY DEF Adjust
<1>2. ClassStep(n, vg, suc, suc.name, e) /\ e.suc \in ClassStates
  BY ExpandStep
<1>3. e.node \in Nodes /\ e.suc.name = suc.name
  BY <1>2, AbsentAssumption DEF ClassStep, Outcomes
<1>4. ClassStep(e.node, vg, e.suc, suc.name, o)
  BY <1>1, <1>2, <1>3, ShrinkStep
<1>5. Frame(n, o.node, vg)
  BY <1>2, <1>4, FrameTransitive DEF ClassStep
<1> QED BY <1>4, <1>5, AbsentAssumption DEF ClassStep

(* Any step on one wanted class.                                           *)
LEMMA ClassOutcomesStep ==
    ASSUME NEW n \in Nodes, NEW j \in Jobs, NEW vg \in VGs, j.want[vg] # NoClass,
           NEW fault \in BOOLEAN, NEW o \in ClassOutcomes(n, j, vg, fault)
    PROVE  ClassStep(n, vg, j.suc[vg],
                     IF j.suc[vg] = NoClass THEN j.want[vg].name ELSE j.suc[vg].name, o)
<1>1. j.want[vg] \in DeviceClasses /\ j.suc[vg] \in ClassStates \cup {NoClass}
  BY DEF Jobs, NodeDevices
<1>2. j.avail \in SUBSET Disks
  BY DEF Jobs
<1>3. CASE o = Outcome(n, NoClass, "existing")
  BY <1>3, OutcomeOf, SameIsFrame DEF ClassStep, FailMarks
<1>4. CASE j.suc[vg] # NoClass /\ o \in Adjust(n, vg, j.want[vg], j.suc[vg], fault)
  BY <1>1, <1>4, AdjustStep
<1>5. CASE /\ j.suc[vg] = NoClass
           /\ o \in CreateVg(n, vg, j.want[vg], j.avail, fault)
                      \cup CreateVgRetry(n, vg, j.want[vg], j.avail, fault)
  BY <1>1, <1>2, <1>5, CreateVgStep
<1> QED BY <1>3, <1>4, <1>5 DEF ClassOutcomes

-----------------------------------------------------------------------------
(* The inductive invariant.  ServedIsSuccess and SuccessOrFailure are not  *)
(* inductive: they follow from what a run knows about its local variables  *)
(* (only the job writes the ConfigMap here, so a run's base is current),   *)
(* and ForeignUntouched from success classes being ours.                   *)

StatusOf(m) == IF m = NoCm THEN NoData ELSE m.status

LvmdOf(m) == IF m = NoCm THEN NoData ELSE m.lvmd

(* What every status says, also the one a run is about to write.           *)
SoundClasses(suc, fail) ==
    /\ Classes(suc) \subseteq made
    /\ \A vg \in VGs : suc[vg] # NoClass => fail[vg] = "none"

(* The local variables of a run.                                           *)
RunSound ==
    /\ job.todo \subseteq Classes(job.want)
    /\ job.new \cap job.todo = {}
    /\ \A vg \in job.new : /\ job.want[vg] # NoClass
                           /\ job.suc[vg] # NoClass
                           /\ job.suc[vg].name = job.want[vg].name
    /\ SoundClasses(job.suc, job.fail)

CmSound == StatusOf(cm) # NoData => SoundClasses(cm.status.suc, cm.status.fail)

(* What holds whoever else writes the ConfigMap.                           *)
Core == TypeOK /\ (job.active => RunSound) /\ CmSound

(* What holds as long as only the job writes its keys.                     *)
JobInv == job.active => job.base = cm /\ job.known = (StatusOf(cm) # NoData)

CmInv == LvmdOf(cm) # NoData => StatusOf(cm) # NoData

IInv == Core /\ JobInv /\ CmInv /\ ServedIsSuccess

(* The invariant holds at first: the ConfigMap has no status yet.          *)
LEMMA InitInv == Init => IInv
<1> SUFFICES ASSUME Init PROVE IInv
  OBVIOUS
<1>1. cm \in ConfigMaps \cup {NoCm} /\ StatusOf(cm) = NoData /\ LvmdOf(cm) = NoData
  BY PrepareVgAssumption DEF Init, ConfigMaps, StatusOf, LvmdOf
<1>2. IdleJob \in Jobs
  BY DEF IdleJob, Jobs, NoClasses, NodeDevices, NoFails, FailMarks
<1>3. NothingSpent \in [edit: Nat, fault: Nat, wipe: Nat, unplug: Nat]
  BY DEF NothingSpent
<1>4. TypeOK
  BY <1>1, <1>2, <1>3, PrepareVgAssumption DEF Init, TypeOK
<1>5. JobInv /\ ~job.active
  BY DEF Init, JobInv, IdleJob
<1>6. CmSound /\ CmInv
  BY <1>1 DEF CmSound, CmInv
<1>7. ServedIsSuccess
  BY <1>1 DEF ServedIsSuccess, LvmdEntries, LvmdOf
<1> QED BY <1>4, <1>5, <1>6, <1>7 DEF IInv, Core

(* Spending keeps the type of the budget.                                  *)
LEMMA SpendType ==
    ASSUME spent \in [edit: Nat, fault: Nat, wipe: Nat, unplug: Nat],
           NEW kind \in {"edit", "fault", "wipe", "unplug"}, Spend(kind)
    PROVE  spent' \in [edit: Nat, fault: Nat, wipe: Nat, unplug: Nat]
BY DEF Spend

(* Steps around the job leave the ConfigMap and the job alone.             *)
LEMMA EnvCore == Core /\ EnvNext => Core'
<1> SUFFICES ASSUME Core, EnvNext PROVE Core'
  OBVIOUS
<1>1. UNCHANGED <<cm, job, made>>
  BY DEF EnvNext, EditSpec, CreateLv, DeleteLv, Unplug, Plug, Wipe
<1>2. spec' \in Specs /\ spent' \in [edit: Nat, fault: Nat, wipe: Nat, unplug: Nat]
  BY SpendType, PrepareVgAssumption
  DEF Core, TypeOK, EnvNext, EditSpec, CreateLv, DeleteLv, Unplug, Plug, Wipe
<1>3. node' \in Nodes
  <2>1. CASE EditSpec
    BY <2>1 DEF EditSpec, Core, TypeOK
  <2>2. ASSUME NEW d \in Disks, CreateLv(d) \/ DeleteLv(d) \/ Unplug(d) \/ Plug(d)
        PROVE  node' \in Nodes
    BY <2>2 DEF CreateLv, DeleteLv, Unplug, Plug, Core, TypeOK, Nodes
  <2>3. ASSUME NEW d \in Disks, Wipe(d)
        PROVE  node' \in Nodes
    BY <2>3, RelabelType, LabelsOfLvm DEF Wipe, Core, TypeOK
  <2> QED BY <2>1, <2>2, <2>3 DEF EnvNext
<1>4. TypeOK'
  BY <1>1, <1>2, <1>3 DEF Core, TypeOK
<1>5. (job.active => RunSound)' /\ CmSound'
  BY <1>1 DEF Core, RunSound, CmSound, StatusOf, SoundClasses
<1> QED BY <1>4, <1>5 DEF Core

(* The classes a run works on are those of a specification.                *)
LEMMA NodeDevicesOfType ==
    ASSUME NEW s \in Specs, NEW avail \in SUBSET Disks
    PROVE  NodeDevicesOf(s, avail) \in NodeDevices
<1>1. s.classes \in NodeDevices
  BY DEF Specs
<1>2. ASSUME NEW vg \in VGs, s.classes[vg] # NoClass
      PROVE  [s.classes[vg] EXCEPT !.devs = avail, !.default = TRUE] \in DeviceClasses
  BY <1>1, <1>2 DEF NodeDevices, DeviceClasses
<1> QED BY <1>1, <1>2 DEF NodeDevicesOf, NodeDevices

(* A run starts with what the ConfigMap says.                              *)
LEMMA JobStartCore == Core /\ JobStart => Core'
<1> SUFFICES ASSUME Core, JobStart PROVE Core'
  OBVIOUS
<1> DEFINE avail == AvailableDevices(node)
           want  == NodeDevicesOf(spec, avail)
           known == StatusOf(cm) # NoData
           suc   == IF known THEN cm.status.suc ELSE NoClasses
           fail  == IF known THEN RecordedFails(cm.status) ELSE NoFails
<1>1. job' = [active |-> TRUE, want |-> want, avail |-> avail, base |-> cm,
              known |-> known, suc |-> suc, fail |-> fail, new |-> {},
              todo |-> Classes(want)]
  BY DEF JobStart, StatusOf
<1>2. UNCHANGED <<node, spec, cm, made, spent>>
  BY DEF JobStart
<1>3. avail \in SUBSET Disks
  BY DEF AvailableDevices
<1>4. want \in NodeDevices
  BY <1>3, NodeDevicesOfType DEF Core, TypeOK
<1>5. known => cm.status \in Statuses
  BY DEF Core, TypeOK, StatusOf, ConfigMaps
<1>6. suc \in [VGs -> ClassStates \cup {NoClass}] /\ fail \in [VGs -> FailMarks]
  BY <1>5 DEF Statuses, NoClasses, NoFails, RecordedFails, FailMarks
<1>7. SoundClasses(suc, fail)
  <2>1. CASE known
    BY <2>1, <1>5 DEF Core, CmSound, SoundClasses, RecordedFails, Statuses
  <2>2. CASE ~known
    BY <2>2 DEF SoundClasses, NoClasses, NoFails, Classes
  <2> QED BY <2>1, <2>2
<1> HIDE DEF avail, want, suc, fail
<1>8. job' \in Jobs
  <2>1. Classes(want) \in SUBSET VGs
    BY DEF Classes
  <2> QED BY <1>1, <1>3, <1>4, <1>6, <2>1 DEF Jobs, Core, TypeOK
<1>9. TypeOK'
  BY <1>2, <1>8 DEF Core, TypeOK
<1>10. RunSound'
  BY <1>1, <1>2, <1>7 DEF RunSound, SoundClasses
<1>11. CmSound'
  BY <1>2 DEF Core, CmSound, StatusOf, SoundClasses
<1> QED BY <1>9, <1>10, <1>11 DEF Core

(* Whatever happens to one class, its entries stay sound.                  *)
LEMMA ProvisionClassCore == ASSUME NEW vg \in VGs PROVE Core /\ ProvisionClass(vg) => Core'
<1> SUFFICES ASSUME Core, ProvisionClass(vg) PROVE Core'
  OBVIOUS
<1>1. job \in Jobs /\ node \in Nodes /\ job.active /\ vg \in job.todo /\ job.want[vg] # NoClass
  BY DEF Core, TypeOK, RunSound, ProvisionClass, Classes
<1> DEFINE name == IF job.suc[vg] = NoClass THEN job.want[vg].name ELSE job.suc[vg].name
           created(o) == job.suc[vg] = NoClass /\ o.suc # NoClass
<1>2. PICK fault, o :
        /\ fault \in BOOLEAN /\ o \in ClassOutcomes(node, job, vg, fault)
        /\ node' = o.node
        /\ job' = [job EXCEPT
                     !.suc  = [job.suc EXCEPT ![vg] = o.suc],
                     !.fail = [job.fail EXCEPT ![vg] = o.fail],
                     !.new  = IF created(o) THEN job.new \cup {vg} ELSE job.new,
                     !.todo = job.todo \ {vg}]
        /\ made' = IF created(o) THEN made \cup {vg} ELSE made
        /\ MayFail(fault)
  BY DEF ProvisionClass
<1>3. UNCHANGED <<spec, cm>>
  BY DEF ProvisionClass
<1>4. ClassStep(node, vg, job.suc[vg], name, o)
  BY <1>1, <1>2, ClassOutcomesStep
<1>5. o \in Outcomes /\ (o.suc # NoClass => o.suc.name = name /\ o.fail = "none")
  BY <1>4 DEF ClassStep
<1>6. spent' \in [edit: Nat, fault: Nat, wipe: Nat, unplug: Nat]
  BY <1>2, SpendType DEF MayFail, Core, TypeOK
<1>7. job' \in Jobs
  BY <1>1, <1>2, <1>5 DEF Jobs, Outcomes
<1>8. TypeOK'
  BY <1>2, <1>3, <1>5, <1>6, <1>7 DEF Core, TypeOK, Outcomes
<1>9. made \subseteq made'
  BY <1>2
<1>10. SoundClasses(job.suc, job.fail)
  BY <1>1 DEF Core, RunSound
<1>11. /\ job'.suc = [job.suc EXCEPT ![vg] = o.suc]
       /\ job'.fail = [job.fail EXCEPT ![vg] = o.fail]
       /\ job'.new = IF created(o) THEN job.new \cup {vg} ELSE job.new
       /\ job'.todo = job.todo \ {vg}
       /\ job'.want = job.want /\ job'.base = job.base /\ job'.known = job.known
  BY <1>1, <1>2 DEF Jobs
<1>12. RunSound'
  <2>1. Classes(job'.suc) \subseteq made'
    BY <1>1, <1>2, <1>9, <1>10, <1>11 DEF SoundClasses, Classes, Jobs
  <2>2. \A w \in VGs : job'.suc[w] # NoClass => job'.fail[w] = "none"
    BY <1>1, <1>5, <1>10, <1>11 DEF SoundClasses, Jobs
  <2>3. ASSUME NEW w \in job'.new
        PROVE  /\ job'.want[w] # NoClass
               /\ job'.suc[w] # NoClass
               /\ job'.suc[w].name = job'.want[w].name
    <3>1. CASE w = vg
      <4>1. created(o)
        BY <1>1, <1>11, <2>3, <3>1 DEF Core, RunSound
      <4> QED BY <1>1, <1>5, <1>11, <3>1, <4>1 DEF Jobs
    <3>2. CASE w # vg
      BY <1>1, <1>11, <2>3, <3>2 DEF Core, RunSound, Jobs
    <3> QED BY <3>1, <3>2
  <2> QED BY <1>1, <1>3, <1>11, <2>1, <2>2, <2>3 DEF Core, RunSound, SoundClasses
<1>13. CmSound'
  BY <1>3, <1>9 DEF Core, CmSound, StatusOf, SoundClasses
<1> QED BY <1>8, <1>12, <1>13 DEF Core

(* A dropped class is not one this run created.                            *)
LEMMA DropClassCore == ASSUME NEW vg \in VGs PROVE Core /\ DropClass(vg) => Core'
<1> SUFFICES ASSUME Core, DropClass(vg) PROVE Core'
  OBVIOUS
<1>1. job \in Jobs /\ node \in Nodes /\ job.active /\ job.want[vg] = NoClass
  BY DEF Core, TypeOK, DropClass, Unwanted
<1>2. PICK fault, o :
        /\ fault \in BOOLEAN /\ o \in RemoveVolumeGroup(node, vg, fault)
        /\ node' = o.node
        /\ job' = [job EXCEPT !.suc = [job.suc EXCEPT ![vg] = NoClass]]
        /\ MayFail(fault)
  BY DEF DropClass
<1>3. UNCHANGED <<spec, cm, made>>
  BY DEF DropClass
<1>4. node' \in Nodes
  BY <1>1, <1>2, RemoveVolumeGroupFrame DEF Frame
<1>5. spent' \in [edit: Nat, fault: Nat, wipe: Nat, unplug: Nat]
  BY <1>2, SpendType DEF MayFail, Core, TypeOK
<1>6. job' \in Jobs
  BY <1>1, <1>2 DEF Jobs
<1>7. TypeOK'
  BY <1>3, <1>4, <1>5, <1>6 DEF Core, TypeOK
<1>8. /\ job'.suc = [job.suc EXCEPT ![vg] = NoClass]
      /\ job'.fail = job.fail /\ job'.new = job.new /\ job'.todo = job.todo
      /\ job'.want = job.want /\ job'.base = job.base /\ job'.known = job.known
  BY <1>1, <1>2 DEF Jobs
<1>9. vg \notin job.new
  BY <1>1 DEF Core, RunSound
<1>10. SoundClasses(job.suc, job.fail)
  BY <1>1 DEF Core, RunSound
<1>11. SoundClasses(job.suc, job.fail)'
  BY <1>1, <1>3, <1>8, <1>10 DEF SoundClasses, Classes, Jobs
<1>12. RunSound'
  <2>1. \A w \in job'.new : /\ job'.want[w] # NoClass
                            /\ job'.suc[w] # NoClass
                            /\ job'.suc[w].name = job'.want[w].name
    BY <1>1, <1>8, <1>9 DEF Core, RunSound, Jobs
  <2> QED BY <1>1, <1>3, <1>8, <1>11, <2>1 DEF Core, RunSound
<1>13. CmSound'
  BY <1>3 DEF Core, CmSound, StatusOf, SoundClasses
<1> QED BY <1>7, <1>12, <1>13 DEF Core

-----------------------------------------------------------------------------
(* The ConfigMap a run writes.                                             *)
LEMMA NewStatusType ==
    ASSUME NEW j \in Jobs
    PROVE  NewStatus(j) \in Statuses /\ NewStatus(j).suc = j.suc
BY DEF NewStatus, Statuses, Jobs, FailMarks

LEMMA EntryOfType ==
    ASSUME NEW want \in NodeDevices, NEW vg \in VGs, want[vg] # NoClass
    PROVE  EntryOf(want, vg) \in LvmdClasses /\ EntryOf(want, vg).name = want[vg].name
<1>1. want[vg] \in DeviceClasses
  BY DEF NodeDevices
<1> QED BY <1>1 DEF EntryOf, LvmdClasses, DeviceClasses

LEMMA RefreshDefaultType ==
    ASSUME NEW e \in LvmdClasses, NEW want
    PROVE  RefreshDefault(e, want) \in LvmdClasses
<1> DEFINE default == \E vg \in Classes(want) : want[vg].name = e.name /\ want[vg].default
<1>1. [e EXCEPT !.default = default] \in LvmdClasses
  <2>1. default \in BOOLEAN
    OBVIOUS
  <2> HIDE DEF default
  <2> QED BY <2>1 DEF LvmdClasses
<1> QED BY <1>1 DEF RefreshDefault

(* lvmd.yaml as a run writes it: a file, or none as before.                *)
LEMMA NewLvmd ==
    ASSUME NEW j \in Jobs, NEW old \in LvmdConfs \cup {NoData},
           \A vg \in j.new : /\ j.want[vg] # NoClass
                             /\ j.suc[vg] # NoClass
                             /\ j.suc[vg].name = j.want[vg].name
    PROVE  /\ CreateLvmdConf(j, old) \in LvmdConfs \cup {NoData}
           /\ UpdateLvmdConf(j, old) \in LvmdConfs \cup {NoData}
           /\ UpdateLvmdConf(j, old) # NoData =>
                 \A e \in UpdateLvmdConf(j, old).classes : e.name \in ClassNamesOf(j.suc)
           /\ old = NoData /\ CreateLvmdConf(j, old) # NoData =>
                 \A e \in CreateLvmdConf(j, old).classes : e.name \in ClassNamesOf(j.suc)
<1> DEFINE new     == {EntryOf(j.want, vg) : vg \in j.new}
           fresh   == {RefreshDefault(x, j.want) : x \in old.classes}
           kept    == {e \in fresh \cup new : e.name \in ClassNamesOf(j.suc)}
<1>1. new \subseteq LvmdClasses
  BY EntryOfType DEF Jobs
<1>2. \A e \in new : e.name \in ClassNamesOf(j.suc)
  BY EntryOfType DEF Jobs, ClassNamesOf, Classes
<1>3. old # NoData => fresh \subseteq LvmdClasses
  BY RefreshDefaultType DEF LvmdConfs
<1>4. CreateLvmdConf(j, old) = IF j.new = {} THEN old ELSE [classes |-> new]
  BY DEF CreateLvmdConf
<1>5. UpdateLvmdConf(j, old) = IF old = NoData THEN CreateLvmdConf(j, old)
                               ELSE [classes |-> kept]
  BY DEF UpdateLvmdConf
<1>6. [classes |-> new] \in LvmdConfs
  BY <1>1 DEF LvmdConfs
<1>7. old # NoData => [classes |-> kept] \in LvmdConfs
  <2>1. old # NoData => kept \in SUBSET LvmdClasses
    BY <1>1, <1>3
  <2> HIDE DEF kept
  <2> QED BY <2>1 DEF LvmdConfs
<1>8. \A e \in kept : e.name \in ClassNamesOf(j.suc)
  OBVIOUS
<1> HIDE DEF new, kept
<1> QED BY <1>2, <1>4, <1>5, <1>6, <1>7, <1>8

(* The object a run makes, from the one it read.                           *)
LEMMA NewCmOf ==
    ASSUME Core, job.active
    PROVE  LET lvmd == IF job.known THEN UpdateLvmdConf(job, LvmdOf(job.base))
                       ELSE CreateLvmdConf(job, LvmdOf(job.base))
           IN  /\ NewCm(job) \in ConfigMaps
               /\ NewCm(job).status = NewStatus(job) /\ NewStatus(job) \in Statuses
               /\ NewStatus(job).suc = job.suc
               /\ NewCm(job).lvmd = lvmd
               /\ job.base # NoCm => NewCm(job).devices = job.base.devices
<1> DEFINE old == IF job.base = NoCm
                  THEN [devices |-> NoData, status |-> NoData, lvmd |-> NoData]
                  ELSE job.base
           lvmd == IF job.known THEN UpdateLvmdConf(job, old.lvmd)
                   ELSE CreateLvmdConf(job, old.lvmd)
<1>1. job \in Jobs
  BY DEF Core, TypeOK
<1>2. old \in ConfigMaps /\ old.lvmd = LvmdOf(job.base)
  BY <1>1 DEF Jobs, ConfigMaps, LvmdOf
<1>3. NewCm(job) = [old EXCEPT !.status = NewStatus(job), !.lvmd = lvmd]
  BY DEF NewCm
<1>4. \A vg \in job.new : /\ job.want[vg] # NoClass
                          /\ job.suc[vg] # NoClass
                          /\ job.suc[vg].name = job.want[vg].name
  BY <1>1 DEF Core, RunSound
<1>5. old.lvmd \in LvmdConfs \cup {NoData}
  BY <1>2 DEF ConfigMaps
<1>6. lvmd \in LvmdConfs \cup {NoData}
  BY <1>1, <1>4, <1>5, NewLvmd
<1>7. NewStatus(job) \in Statuses /\ NewStatus(job).suc = job.suc
  BY <1>1, NewStatusType
<1>8. lvmd = IF job.known THEN UpdateLvmdConf(job, LvmdOf(job.base))
             ELSE CreateLvmdConf(job, LvmdOf(job.base))
  BY <1>2
<1>9. job.base # NoCm => old = job.base
  OBVIOUS
<1> HIDE DEF lvmd, old
<1>10. /\ NewCm(job) \in ConfigMaps
       /\ NewCm(job).status = NewStatus(job) /\ NewCm(job).lvmd = lvmd
       /\ NewCm(job).devices = old.devices
  BY <1>2, <1>3, <1>6, <1>7 DEF ConfigMaps
<1> QED BY <1>7, <1>8, <1>9, <1>10

(* What comes of it, whatever has been written since.                      *)
LEMMA JobCommitCore ==
    ASSUME Core, JobCommit, job.base # NoCm => cm # NoCm
    PROVE  /\ Core' /\ cm' # NoCm
           /\ job.base # NoCm => cm'.devices = cm.devices
<1> DEFINE new == NewCm(job)
<1>1. job \in Jobs /\ job.active /\ job' = IdleJob /\ UNCHANGED <<node, spec, made, spent>>
  BY DEF Core, TypeOK, JobCommit
<1>2. /\ new \in ConfigMaps /\ new.status = NewStatus(job)
      /\ NewStatus(job) \in Statuses /\ NewStatus(job).suc = job.suc
      /\ job.base # NoCm => new.devices = job.base.devices
  BY <1>1, NewCmOf
<1> HIDE DEF new
<1>3. ASSUME NEW old \in ConfigMaps, cm \in ConfigMaps
      PROVE  LET res == PatchConfigMap(old, new, cm)
             IN  /\ res \in ConfigMaps
                 /\ [res EXCEPT !.status = NewStatus(job)] \in ConfigMaps
                 /\ res.status \in {NewStatus(job), cm.status}
                 /\ [res EXCEPT !.status = NewStatus(job)].status = NewStatus(job)
                 /\ [res EXCEPT !.status = NewStatus(job)].devices = res.devices
                 /\ new.devices = old.devices => res.devices = cm.devices
  <2> DEFINE res == PatchConfigMap(old, new, cm)
  <2>1. /\ res \in ConfigMaps
        /\ res.status \in {NewStatus(job), cm.status}
        /\ new.devices = old.devices => res.devices = cm.devices
    BY <1>2, <1>3 DEF PatchConfigMap, Merged, ConfigMaps
  <2> HIDE DEF res
  <2>2. /\ [res EXCEPT !.status = NewStatus(job)] \in ConfigMaps
        /\ [res EXCEPT !.status = NewStatus(job)].status = NewStatus(job)
        /\ [res EXCEPT !.status = NewStatus(job)].devices = res.devices
    BY <1>2, <2>1 DEF ConfigMaps
  <2> QED BY <2>1, <2>2 DEF res
<1>4. /\ cm' \in ConfigMaps
      /\ cm'.status = NewStatus(job) \/ (cm # NoCm /\ cm'.status = cm.status)
      /\ job.base # NoCm => cm'.devices = cm.devices
  <2>1. cm # NoCm => cm \in ConfigMaps
    BY DEF Core, TypeOK
  <2>2. CASE job.base = NoCm
    <3>1. cm' = IF cm = NoCm THEN new ELSE PatchConfigMap(cm, new, cm)
      BY <2>2 DEF JobCommit, CreateOrPatchConfigmap, new
    <3> QED BY <1>2, <1>3, <2>1, <2>2, <3>1
  <2>3. CASE job.base # NoCm
    <3>1. job.base \in ConfigMaps
      BY <1>1, <2>3 DEF Jobs
    <3>2. \/ cm' = PatchConfigMap(job.base, new, cm)
          \/ cm' = [PatchConfigMap(job.base, new, cm) EXCEPT !.status = NewStatus(job)]
      BY <2>3 DEF JobCommit, new
    <3> QED BY <1>2, <1>3, <2>1, <2>3, <3>1, <3>2
  <2> QED BY <2>2, <2>3
<1>5. TypeOK' /\ cm' # NoCm
  <2>1. IdleJob \in Jobs
    BY DEF IdleJob, Jobs, NoClasses, NodeDevices, NoFails, FailMarks
  <2> QED BY <1>1, <1>4, <2>1, AbsentAssumption DEF Core, TypeOK
<1>6. ~job'.active
  BY <1>1 DEF IdleJob
<1>7. CmSound'
  <2>1. SoundClasses(NewStatus(job).suc, NewStatus(job).fail)
    <3>1. SoundClasses(job.suc, job.fail)
      BY <1>1 DEF Core, RunSound
    <3> QED BY <1>1, <3>1 DEF SoundClasses, NewStatus
  <2>2. StatusOf(cm)' = cm'.status
    BY <1>5 DEF StatusOf
  <2>3. CASE cm'.status = NewStatus(job)
    BY <1>1, <2>1, <2>3 DEF CmSound, SoundClasses
  <2>4. CASE cm # NoCm /\ cm'.status = cm.status
    BY <1>1, <2>2, <2>4 DEF Core, CmSound, SoundClasses, StatusOf
  <2> QED BY <1>4, <2>3, <2>4
<1> QED BY <1>4, <1>5, <1>6, <1>7 DEF Core

(* While only the job writes these keys, the three ways in which the API   *)
(* server may merge the patch come to the same.                            *)
LEMMA CommittedCm ==
    ASSUME IInv, JobCommit
    PROVE  /\ cm' \in ConfigMaps
           /\ cm'.status = NewStatus(job) /\ NewStatus(job) \in Statuses
           /\ NewStatus(job).suc = job.suc
           /\ cm'.lvmd = IF job.known THEN UpdateLvmdConf(job, LvmdOf(cm))
                         ELSE CreateLvmdConf(job, LvmdOf(cm))
<1> DEFINE new == NewCm(job)
<1>1. job.active /\ job.base = cm
  BY DEF IInv, JobInv, JobCommit
<1>2. /\ new \in ConfigMaps
      /\ new.status = NewStatus(job) /\ NewStatus(job) \in Statuses
      /\ NewStatus(job).suc = job.suc
      /\ new.lvmd = IF job.known THEN UpdateLvmdConf(job, LvmdOf(cm))
                    ELSE CreateLvmdConf(job, LvmdOf(cm))
  BY <1>1, NewCmOf DEF IInv
<1> HIDE DEF new
<1>3. cm' = new
  <2>1. CASE job.base = NoCm
    BY <1>1, <2>1 DEF JobCommit, CreateOrPatchConfigmap, new
  <2>2. CASE job.base # NoCm
    <3>1. PatchConfigMap(cm, new, cm) =
            [devices |-> new.devices, status |-> new.status, lvmd |-> new.lvmd]
      BY DEF PatchConfigMap, Merged
    <3>2. PatchConfigMap(cm, new, cm) = new
      BY <1>2, <3>1 DEF ConfigMaps
    <3>3. [new EXCEPT !.status = NewStatus(job)] = new
      BY <1>2 DEF ConfigMaps
    <3> QED BY <1>1, <2>2, <3>2, <3>3 DEF JobCommit, new
  <2> QED BY <2>1, <2>2
<1> QED BY <1>2, <1>3

(* A run writes a ConfigMap whose keys agree with each other.              *)
LEMMA JobCommitInv == IInv /\ JobCommit => IInv'
<1> SUFFICES ASSUME IInv, JobCommit PROVE IInv'
  OBVIOUS
<1> DEFINE lvmd == IF job.known THEN UpdateLvmdConf(job, LvmdOf(cm))
                   ELSE CreateLvmdConf(job, LvmdOf(cm))
<1>1. job \in Jobs /\ job.active /\ job.base = cm /\ job' = IdleJob
  BY DEF IInv, Core, TypeOK, JobInv, JobCommit
<1>2. Core' /\ cm' # NoCm
  BY <1>1, JobCommitCore DEF IInv
<1>3. /\ cm'.status = NewStatus(job) /\ cm'.lvmd = lvmd
      /\ NewStatus(job) \in Statuses /\ NewStatus(job).suc = job.suc
  BY CommittedCm
<1> HIDE DEF lvmd
<1>4. JobInv'
  BY <1>1 DEF JobInv, IdleJob
<1>5. CmInv'
  BY <1>2, <1>3, AbsentAssumption DEF CmInv, StatusOf
<1>6. lvmd # NoData => \A e \in lvmd.classes : e.name \in ClassNamesOf(job.suc)
  <2>1. LvmdOf(cm) \in LvmdConfs \cup {NoData}
    BY DEF IInv, Core, TypeOK, LvmdOf, ConfigMaps
  <2>2. \A vg \in job.new : /\ job.want[vg] # NoClass
                            /\ job.suc[vg] # NoClass
                            /\ job.suc[vg].name = job.want[vg].name
    BY <1>1 DEF IInv, Core, RunSound
  <2>3. CASE job.known
    BY <1>1, <2>1, <2>2, <2>3, NewLvmd DEF lvmd
  <2>4. CASE ~job.known
    <3>1. LvmdOf(cm) = NoData
      BY <1>1, <2>4 DEF IInv, JobInv, CmInv
    <3> QED BY <1>1, <2>2, <2>4, <3>1, NewLvmd DEF lvmd
  <2> QED BY <2>3, <2>4
<1>7. ServedIsSuccess'
  BY <1>2, <1>3, <1>6, AbsentAssumption DEF ServedIsSuccess, LvmdEntries
<1> QED BY <1>2, <1>4, <1>5, <1>7 DEF IInv

(* A run that dies writes nothing.                                         *)
LEMMA InterruptedFrame ==
    ASSUME Core, job.active, NEW n \in Interrupted
    PROVE  /\ n \in Nodes
           /\ \A w \in VGs \ made :
                 VgExists(node, w) => Members(n, w) = Members(node, w)
<1>1. job \in Jobs /\ node \in Nodes
  BY DEF Core, TypeOK
<1>2. job.todo \subseteq Classes(job.want) /\ Classes(job.suc) \subseteq made
  BY DEF Core, RunSound, SoundClasses
<1>3. CASE n = node
  BY <1>1, <1>3
<1>4. ASSUME NEW vg \in job.todo, NEW o \in ClassOutcomes(node, job, vg, TRUE), n = o.node
      PROVE  /\ n \in Nodes
             /\ \A w \in VGs \ made :
                   VgExists(node, w) => Members(n, w) = Members(node, w)
  <2>1. vg \in VGs /\ job.want[vg] # NoClass
    BY <1>1, <1>2 DEF Jobs, Classes
  <2>2. ClassStep(node, vg, job.suc[vg],
                  IF job.suc[vg] = NoClass THEN job.want[vg].name ELSE job.suc[vg].name, o)
    BY <1>1, <2>1, ClassOutcomesStep
  <2>3. vg \notin made => job.suc[vg] = NoClass
    BY <1>2, <2>1 DEF Classes
  <2> QED BY <1>4, <2>1, <2>2, <2>3 DEF ClassStep, Frame, Same
<1>5. ASSUME NEW vg \in Unwanted(job), NEW o \in RemoveVolumeGroup(node, vg, TRUE), n = o.node
      PROVE  /\ n \in Nodes
             /\ \A w \in VGs \ made :
                   VgExists(node, w) => Members(n, w) = Members(node, w)
  <2>1. vg \in VGs /\ vg \in made
    BY <1>2 DEF Unwanted, Classes
  <2>2. Frame(node, o.node, vg)
    BY <1>1, <2>1, RemoveVolumeGroupFrame
  <2> QED BY <1>5, <2>1, <2>2 DEF Frame
<1> QED BY <1>3, <1>4, <1>5 DEF Interrupted

LEMMA JobDieCore == Core /\ JobDie => Core'
<1> SUFFICES ASSUME Core, JobDie PROVE Core'
  OBVIOUS
<1>1. node' \in Nodes
  BY InterruptedFrame DEF JobDie
<1>2. spent' \in [edit: Nat, fault: Nat, wipe: Nat, unplug: Nat]
  BY SpendType DEF JobDie, Core, TypeOK
<1>3. made \subseteq made' /\ made' \subseteq VGs
  BY DEF JobDie, Core, TypeOK
<1>4. job' = IdleJob /\ UNCHANGED <<spec, cm>>
  BY DEF JobDie
<1>5. TypeOK'
  <2>1. IdleJob \in Jobs
    BY DEF IdleJob, Jobs, NoClasses, NodeDevices, NoFails, FailMarks
  <2> QED BY <1>1, <1>2, <1>3, <1>4, <2>1 DEF Core, TypeOK
<1>6. ~job'.active
  BY <1>4 DEF IdleJob
<1>7. CmSound'
  BY <1>3, <1>4 DEF Core, CmSound, StatusOf, SoundClasses
<1> QED BY <1>5, <1>6, <1>7 DEF Core

-----------------------------------------------------------------------------
(* The steps that leave the ConfigMap alone.                               *)
LEMMA QuietCore ==
    ASSUME Core, [Next]_vars, ~JobCommit
    PROVE  Core' /\ cm' = cm
<1>1. cm' = cm
  BY DEF Next, JobNext, EnvNext, JobStart, ProvisionClass, DropClass, JobDie, EditSpec,
         CreateLv, DeleteLv, Unplug, Plug, Wipe, vars
<1>2. CASE UNCHANGED vars
  BY <1>2 DEF vars, Core, TypeOK, RunSound, CmSound, StatusOf, SoundClasses
<1> QED BY <1>1, <1>2, JobStartCore, ProvisionClassCore, DropClassCore, JobDieCore, EnvCore
        DEF Next, JobNext

LEMMA QuietInv == IInv /\ [Next]_vars /\ ~JobCommit => IInv'
<1> SUFFICES ASSUME IInv, [Next]_vars, ~JobCommit PROVE IInv'
  OBVIOUS
<1>1. Core' /\ cm' = cm
  BY QuietCore DEF IInv
<1>2. \/ ~job'.active
      \/ job'.base = cm /\ job'.known = (StatusOf(cm) # NoData)
      \/ job'.active = job.active /\ job'.base = job.base /\ job'.known = job.known
  <2>1. job \in Jobs
    BY DEF IInv, Core, TypeOK
  <2>2. CASE JobStart
    BY <2>2 DEF JobStart, StatusOf
  <2>3. CASE JobDie
    BY <2>3 DEF JobDie, IdleJob
  <2>4. CASE \E vg \in VGs : ProvisionClass(vg) \/ DropClass(vg)
    BY <2>1, <2>4 DEF ProvisionClass, DropClass, Jobs
  <2>5. CASE EnvNext \/ UNCHANGED vars
    BY <2>5 DEF EnvNext, EditSpec, CreateLv, DeleteLv, Unplug, Plug, Wipe, vars
  <2> QED BY <2>2, <2>3, <2>4, <2>5 DEF Next, JobNext
<1>3. JobInv'
  BY <1>1, <1>2 DEF IInv, JobInv, StatusOf
<1>4. CmInv' /\ ServedIsSuccess'
  BY <1>1 DEF IInv, CmInv, ServedIsSuccess, StatusOf, LvmdOf, LvmdEntries
<1> QED BY <1>1, <1>3, <1>4 DEF IInv

(* The invariant is one: it holds in every reachable state.                *)
THEOREM InductiveInvariant == Spec => []IInv
<1>1. IInv /\ [Next]_vars => IInv'
  BY JobCommitInv, QuietInv
<1> QED BY <1>1, InitInv, PTL DEF Spec

(* Every variable keeps its type, whatever fails and wherever a run stops. *)
THEOREM TypeCorrect == Spec => []TypeOK
<1>1. IInv => TypeOK
  BY DEF IInv, Core
<1> QED BY <1>1, InductiveInvariant, PTL

(* No class is recorded as success and as failure at the same time.        *)
THEOREM SuccessOrFailureAlways == Spec => []SuccessOrFailure
<1>1. IInv => SuccessOrFailure
  BY DEF IInv, Core, CmSound, StatusOf, SoundClasses, SuccessOrFailure, Classes
<1> QED BY <1>1, InductiveInvariant, PTL

(* No step of a run touches a volume group that no run has created.        *)
LEMMA ForeignStep ==
    ASSUME Core, JobNext, NEW w \in VGs \ made, VgExists(node, w)
    PROVE  Members(node', w) = Members(node, w)
<1>1. CASE JobStart \/ JobCommit
  BY <1>1 DEF JobStart, JobCommit
<1>2. CASE JobDie
  BY <1>2, InterruptedFrame DEF JobDie
<1>3. ASSUME NEW vg \in VGs, ProvisionClass(vg)
      PROVE  Members(node', w) = Members(node, w)
  <2>1. PICK fault, o :
          /\ fault \in BOOLEAN /\ o \in ClassOutcomes(node, job, vg, fault)
          /\ node' = o.node
    BY <1>3 DEF ProvisionClass
  <2>2. job \in Jobs /\ node \in Nodes /\ job.want[vg] # NoClass
    BY <1>3 DEF Core, TypeOK, RunSound, ProvisionClass, Classes
  <2>3. ClassStep(node, vg, job.suc[vg],
                  IF job.suc[vg] = NoClass THEN job.want[vg].name ELSE job.suc[vg].name, o)
    BY <2>1, <2>2, ClassOutcomesStep
  <2>4. vg \notin made => job.suc[vg] = NoClass
    BY <1>3 DEF Core, RunSound, SoundClasses, Classes, ProvisionClass
  <2> QED BY <2>1, <2>3, <2>4 DEF ClassStep, Frame, Same
<1>4. ASSUME NEW vg \in VGs, DropClass(vg)
      PROVE  Members(node', w) = Members(node, w)
  <2>1. PICK fault, o :
          /\ fault \in BOOLEAN /\ o \in RemoveVolumeGroup(node, vg, fault)
          /\ node' = o.node
    BY <1>4 DEF DropClass
  <2>2. node \in Nodes /\ vg \in made
    BY <1>4 DEF Core, TypeOK, RunSound, SoundClasses, DropClass, Unwanted
  <2>3. Frame(node, o.node, vg)
    BY <2>1, <2>2, RemoveVolumeGroupFrame
  <2> QED BY <2>1, <2>2, <2>3 DEF Frame
<1> QED BY <1>1, <1>2, <1>3, <1>4 DEF JobNext

(* No run ever touches a volume group that no run has created.             *)
THEOREM ForeignUntouchedAlways == Spec => ForeignUntouched
<1>1. IInv /\ [Next]_vars =>
        [JobNext => \A vg \in VGs \ made :
                      VgExists(node, vg) => Members(node', vg) = Members(node, vg)]_vars
  BY ForeignStep DEF IInv
<1> QED BY <1>1, InductiveInvariant, PTL DEF Spec, ForeignUntouched

-----------------------------------------------------------------------------
(* What the wrappers do to single disks: a label other than that of no     *)
(* group gets only on disks of S; and no disk gets out of its group and    *)
(* stays labelled.                                                         *)
LabelsOnly(n1, n2, S) ==
    \A d \in Disks : d \in S \/ n2.own[d] = n1.own[d] \/ n2.own[d] \in {Raw, Orphan}

NoNewOrphan(n1, n2) == \A d \in Disks : n2.own[d] = Orphan => n1.own[d] = Orphan

LEMMA RelabelOwn ==
    ASSUME NEW n \in Nodes, NEW S, NEW x, NEW d \in Disks
    PROVE  Relabel(n, S, x).own[d] = IF d \in S THEN x ELSE n.own[d]
BY DEF Relabel, Nodes

LEMMA RelabelRest ==
    ASSUME NEW n \in Nodes, NEW S, NEW x
    PROVE  Relabel(n, S, x).gone = n.gone /\ Relabel(n, S, x).busy = n.busy
BY DEF Relabel, Nodes

LEMMA RelabelSteps ==
    ASSUME NEW n \in Nodes, NEW S \in SUBSET Disks, NEW x \in Labels
    PROVE  /\ LabelsOnly(n, Relabel(n, S, x), S)
           /\ x \in {Raw, Orphan} => LabelsOnly(n, Relabel(n, S, x), {})
           /\ x # Orphan => NoNewOrphan(n, Relabel(n, S, x))
           /\ Members(Relabel(n, S, x), x) = Members(n, x) \cup S
BY RelabelOwn DEF LabelsOnly, NoNewOrphan, Members

LEMMA NothingRelabelled ==
    ASSUME NEW n \in Nodes, NEW S
    PROVE  LabelsOnly(n, n, S) /\ NoNewOrphan(n, n)
BY DEF LabelsOnly, NoNewOrphan

(* CreateVolumeGroup: the group exists afterwards if it says so, and all   *)
(* groups are as before if not.  Only if nothing fails and the devices can *)
(* be labelled there is no device left with a label and without a group.   *)
LEMMA CreateVolumeGroupEffect ==
    ASSUME NEW n \in Nodes, NEW vg \in VGs, NEW devs \in SUBSET Disks,
           NEW fault \in BOOLEAN,
           NEW o \in CreateVolumeGroup(n, vg, devs, fault)
    PROVE  /\ o.ok => VgExists(o.node, vg)
           /\ ~o.ok => Same(n, o.node)
           /\ LabelsOnly(n, o.node, devs)
           /\ ~fault /\ devs \subseteq Labelable(n) /\ ~VgExists(n, vg)
                => NoNewOrphan(n, o.node)
<1> DEFINE labelled  == devs \subseteq Labelable(n)
           creatable == labelled /\ devs # {} /\ ~VgExists(n, vg)
<1>1. CASE creatable /\ o = Done(Relabel(n, devs, vg))
  <2>1. o.ok /\ o.node = Relabel(n, devs, vg)
    BY <1>1 DEF Done
  <2>2. Members(o.node, vg) = Members(n, vg) \cup devs
    BY <2>1, RelabelSteps, LabelsOfLvm
  <2>3. VgExists(o.node, vg)
    BY <1>1, <2>2 DEF VgExists
  <2> QED BY <2>1, <2>3, RelabelSteps, LabelsOfLvm, VGsAssumption
<1>2. ASSUME NEW S \in SUBSET devs, S \subseteq Labelable(n), o = Failed(Relabel(n, S, Orphan)),
             fault \/ ~labelled \/ (S = devs /\ ~creatable)
      PROVE  /\ ~o.ok /\ Same(n, o.node)
             /\ LabelsOnly(n, o.node, devs)
             /\ ~fault /\ labelled /\ ~VgExists(n, vg) => NoNewOrphan(n, o.node)
  <2>1. ~o.ok /\ o.node = Relabel(n, S, Orphan)
    BY <1>2 DEF Failed
  <2>2. \A w \in VGs : S \cap Members(n, w) = {}
    BY <1>2, VGsAssumption DEF Labelable, Members
  <2>3. Same(n, o.node)
    BY <2>1, <2>2, RelabelType, RelabelMembers, LabelsOfLvm, VGsAssumption DEF Same
  <2>4. LabelsOnly(n, o.node, {})
    BY <2>1, RelabelSteps, LabelsOfLvm
  <2>5. ~fault /\ labelled /\ ~VgExists(n, vg) => S = {}
    BY <1>2
  <2>6. S = {} => NoNewOrphan(n, o.node)
    BY <2>1, RelabelOwn DEF NoNewOrphan
  <2> QED BY <2>1, <2>3, <2>4, <2>5, <2>6 DEF LabelsOnly
<1>3. \/ creatable /\ o = Done(Relabel(n, devs, vg))
      \/ \E S \in SUBSET (devs \cap Labelable(n)) :
            (fault \/ ~labelled) /\ o = Failed(Relabel(n, S, Orphan))
      \/ labelled /\ ~creatable /\ o = Failed(Relabel(n, devs, Orphan))
  BY DEF CreateVolumeGroup
<1> QED BY <1>1, <1>2, <1>3

(* RemoveVolumeGroup: there is no group afterwards if it says so, and all  *)
(* is as before if it fails for a reason the node shows.                   *)
LEMMA RemoveVolumeGroupEffect ==
    ASSUME NEW n \in Nodes, NEW vg \in VGs, NEW fault \in BOOLEAN,
           NEW o \in RemoveVolumeGroup(n, vg, fault)
    PROVE  /\ o.ok => ~VgExists(o.node, vg)
           /\ ~fault /\ ~o.ok => o.node = n
           /\ LabelsOnly(n, o.node, {})
           /\ ~fault => NoNewOrphan(n, o.node)
<1> DEFINE pvs == Members(n, vg)
           reduced == Relabel(n, pvs, Orphan)
<1>0. pvs \in SUBSET Disks
  BY DEF Members
<1>1. CASE o = Done(Relabel(n, pvs, Raw))
  <2>1. o.ok /\ o.node = Relabel(n, pvs, Raw)
    BY <1>1 DEF Done
  <2>2. ~VgExists(o.node, vg)
    BY <1>0, <2>1, RelabelOwn, VGsAssumption DEF VgExists, Members
  <2> QED BY <1>0, <2>1, <2>2, RelabelSteps, LabelsOfLvm DEF Raw, Orphan
<1>2. CASE o = Failed(n)
  BY <1>2, NothingRelabelled DEF Failed
<1>3. ASSUME NEW S \in SUBSET pvs, fault, o = Failed(Relabel(reduced, S, Raw))
      PROVE  ~o.ok /\ LabelsOnly(n, o.node, {})
  <2>1. ~o.ok /\ o.node = Relabel(reduced, S, Raw)
    BY <1>3 DEF Failed
  <2>2. reduced \in Nodes
    BY RelabelType, LabelsOfLvm
  <2> QED BY <2>1, <2>2, RelabelOwn DEF LabelsOnly
<1>4. \/ o = Done(Relabel(n, pvs, Raw))
      \/ o = Failed(n)
      \/ \E S \in SUBSET pvs : fault /\ o = Failed(Relabel(reduced, S, Raw))
  BY DEF RemoveVolumeGroup
<1> QED BY <1>1, <1>2, <1>3, <1>4

(* ShrinkVolumeGroup: members that are not to leave stay.                  *)
LEMMA ShrinkVolumeGroupEffect ==
    ASSUME NEW n \in Nodes, NEW vg \in VGs, NEW pvs \in SUBSET Members(n, vg),
           NEW fault \in BOOLEAN, NEW o \in ShrinkVolumeGroup(n, vg, pvs, fault)
    PROVE  /\ Members(n, vg) \ pvs \subseteq Members(o.node, vg)
           /\ ~fault /\ Partial(n, vg) => o.node = n
           /\ LabelsOnly(n, o.node, {})
           /\ ~fault => NoNewOrphan(n, o.node)
<1> DEFINE reduced == Relabel(n, pvs, Orphan)
<1>0. pvs \in SUBSET Disks
  BY DEF Members
<1>1. CASE ~Partial(n, vg) /\ o = Done(Relabel(n, pvs, Raw))
  <2>1. o.node = Relabel(n, pvs, Raw)
    BY <1>1 DEF Done
  <2>2. Members(n, vg) \ pvs \subseteq Members(o.node, vg)
    BY <1>0, <2>1, RelabelOwn DEF Members
  <2> QED BY <1>0, <1>1, <2>1, <2>2, RelabelSteps, LabelsOfLvm DEF Raw, Orphan
<1>2. CASE o = Failed(n)
  BY <1>2, NothingRelabelled DEF Failed
<1>3. ASSUME NEW S \in SUBSET pvs, fault, o = Failed(Relabel(reduced, S, Raw))
      PROVE  Members(n, vg) \ pvs \subseteq Members(o.node, vg) /\ LabelsOnly(n, o.node, {})
  <2>1. o.node = Relabel(reduced, S, Raw)
    BY <1>3 DEF Failed
  <2>2. reduced \in Nodes
    BY RelabelType, LabelsOfLvm
  <2> QED BY <2>1, <2>2, RelabelOwn DEF LabelsOnly, Members
<1>4. ASSUME NEW S \in SUBSET pvs, fault, o = Failed(Relabel(n, S, Orphan))
      PROVE  Members(n, vg) \ pvs \subseteq Members(o.node, vg) /\ LabelsOnly(n, o.node, {})
  <2>1. o.node = Relabel(n, S, Orphan)
    BY <1>4 DEF Failed
  <2> QED BY <2>1, RelabelOwn DEF LabelsOnly, Members
<1>5. \/ ~Partial(n, vg) /\ o = Done(Relabel(n, pvs, Raw))
      \/ o = Failed(n)
      \/ \E S \in SUBSET pvs : fault /\ o = Failed(Relabel(n, S, Orphan))
      \/ \E S \in SUBSET pvs : fault /\ o = Failed(Relabel(reduced, S, Raw))
  BY DEF ShrinkVolumeGroup
<1> QED BY <1>1, <1>2, <1>3, <1>4, <1>5

(* ExpandVolumeGroup keeps the members and labels no other disk.           *)
LEMMA ExpandVolumeGroupEffect ==
    ASSUME NEW n \in Nodes, NEW vg \in VGs,
           NEW pvs \in SUBSET Disks, pvs \subseteq Labelable(n),
           NEW fault \in BOOLEAN, NEW o \in ExpandVolumeGroup(n, vg, pvs, fault)
    PROVE  /\ Members(n, vg) \subseteq Members(o.node, vg)
           /\ LabelsOnly(n, o.node, pvs)
           /\ ~fault /\ ~Partial(n, vg) => NoNewOrphan(n, o.node)
<1>1. pvs \cap Members(n, vg) = {}
  BY VGsAssumption DEF Labelable, Members
<1>2. CASE o = Done(Relabel(n, pvs, vg))
  <2>1. o.node = Relabel(n, pvs, vg)
    BY <1>2 DEF Done
  <2>2. vg \in Labels /\ vg # Orphan
    BY LabelsOfLvm, VGsAssumption
  <2>3. Members(o.node, vg) = Members(n, vg) \cup pvs /\ LabelsOnly(n, o.node, pvs)
    BY <2>1, <2>2, RelabelSteps
  <2>4. NoNewOrphan(n, o.node)
    BY <2>1, <2>2, RelabelOwn DEF NoNewOrphan
  <2> QED BY <2>3, <2>4
<1>3. CASE (fault \/ Partial(n, vg)) /\ o = Failed(Relabel(n, pvs, Orphan))
  <2>1. o.node = Relabel(n, pvs, Orphan)
    BY <1>3 DEF Failed
  <2>2. Members(n, vg) = Members(o.node, vg)
    BY <1>1, <2>1, RelabelMembers, LabelsOfLvm, VGsAssumption
  <2>3. LabelsOnly(n, o.node, pvs)
    BY <2>1, RelabelOwn DEF LabelsOnly
  <2> QED BY <1>3, <2>2, <2>3
<1>4. \/ o = Done(Relabel(n, pvs, vg))
      \/ (fault \/ Partial(n, vg)) /\ o = Failed(Relabel(n, pvs, Orphan))
  BY DEF ExpandVolumeGroup
<1> QED BY <1>2, <1>3, <1>4

-----------------------------------------------------------------------------
(* No member of the group is a physical volume without a group afterwards. *)
KeptLabels(n1, n2, vg) == \A d \in Members(n1, vg) : n2.own[d] # Orphan

(* What becomes of one class: c is what is wanted of it, suc its entry     *)
(* before, o the outcome.  An entry only goes with its group, without an   *)
(* entry a class fails and no group changes, and in a step in which no     *)
(* command fails the group of an entry exists if it did before and loses   *)
(* no disk.                                                                *)
Fate(n, vg, c, suc, fault, o) ==
    /\ LabelsOnly(n, o.node, c.devs)
    /\ suc = NoClass /\ o.suc = NoClass => o.fail # "none" /\ Same(n, o.node)
    /\ suc # NoClass /\ o.suc = NoClass => ~VgExists(o.node, vg)
    /\ ~fault /\ o.suc # NoClass /\ (suc = NoClass \/ VgExists(n, vg))
         => VgExists(o.node, vg)
    /\ ~fault /\ suc # NoClass => KeptLabels(n, o.node, vg)

LEMMA CreateVgFate ==
    ASSUME NEW n \in Nodes, NEW vg \in VGs, NEW c \in DeviceClasses,
           NEW avail \in SUBSET Disks, NEW fault \in BOOLEAN,
           NEW o \in CreateVg(n, vg, c, avail, fault)
                       \cup CreateVgRetry(n, vg, c, avail, fault)
    PROVE  /\ Fate(n, vg, c, NoClass, fault, o)
           /\ ~fault /\ c.devs \cap avail \subseteq Labelable(n) /\ ~VgExists(n, vg)
                => NoNewOrphan(n, o.node)
<1> DEFINE R == CreateVolumeGroup(n, vg, c.devs, fault)
           Clean == ~fault /\ c.devs \cap avail \subseteq Labelable(n) /\ ~VgExists(n, vg)
<1>1. c.devs \in SUBSET Disks
  BY DEF DeviceClasses
<1>2. ASSUME NEW r \in R
      PROVE  /\ r.node \in Nodes
             /\ r.ok => VgExists(r.node, vg)
             /\ ~r.ok => Same(n, r.node)
             /\ LabelsOnly(n, r.node, c.devs)
             /\ ~fault /\ c.devs \subseteq Labelable(n) /\ ~VgExists(n, vg)
                  => NoNewOrphan(n, r.node)
  <2>1. r.node \in Nodes
    BY <1>1, CreateVolumeGroupFrame DEF Frame
  <2> QED BY <1>1, <2>1, CreateVolumeGroupEffect
<1>3. \/ /\ c.devs \subseteq avail
         /\ \E r \in R :
              \/ r.ok /\ \E suc \in ClassStates : o = Outcome(r.node, suc, "none")
              \/ ~r.ok /\ o = Outcome(r.node, NoClass, "failed")
      \/ o = Outcome(n, NoClass, "failed")
  <2>1. ReadyClass(c, c.devs \X {"Online"}) \in ClassStates /\ ReadyClass(c, {}) \in ClassStates
    BY <1>1, ReadyClassType
  <2> HIDE DEF R
  <2> QED BY <2>1 DEF CreateVg, CreateVgRetry, R
<1> HIDE DEF R
<1>4. ASSUME NEW r \in R, c.devs \subseteq avail, r.ok,
             NEW suc \in ClassStates, o = Outcome(r.node, suc, "none")
      PROVE  Fate(n, vg, c, NoClass, fault, o) /\ (Clean => NoNewOrphan(n, o.node))
  <2>1. o.node = r.node /\ o.suc # NoClass
    BY <1>4, AbsentAssumption DEF Outcome
  <2>2. Fate(n, vg, c, NoClass, fault, o)
    BY <1>2, <1>4, <2>1 DEF Fate
  <2>3. Clean => c.devs \subseteq Labelable(n)
    BY <1>4
  <2> QED BY <1>2, <2>1, <2>2, <2>3
<1>5. ASSUME NEW r \in R, c.devs \subseteq avail, ~r.ok, o = Outcome(r.node, NoClass, "failed")
      PROVE  Fate(n, vg, c, NoClass, fault, o) /\ (Clean => NoNewOrphan(n, o.node))
  <2>1. o.node = r.node /\ o.suc = NoClass /\ o.fail = "failed"
    BY <1>5 DEF Outcome
  <2>2. Fate(n, vg, c, NoClass, fault, o)
    BY <1>2, <1>5, <2>1 DEF Fate
  <2>3. Clean => c.devs \subseteq Labelable(n)
    BY <1>5
  <2> QED BY <1>2, <2>1, <2>2, <2>3
<1>6. CASE o = Outcome(n, NoClass, "failed")
  <2>1. o.node = n /\ o.suc = NoClass /\ o.fail = "failed"
    BY <1>6 DEF Outcome
  <2> QED BY <2>1, NothingRelabelled DEF Fate, Same
<1> QED BY <1>3, <1>4, <1>5, <1>6

(* checkVgIfExpand loses no member.                                        *)
LEMMA ExpandFate ==
    ASSUME NEW n \in Nodes, NEW vg \in VGs, NEW c \in DeviceClasses,
           NEW suc \in ClassStates, NEW fault \in BOOLEAN,
           NEW o \in CheckVgIfExpand(n, vg, c, suc, fault)
    PROVE  /\ Members(n, vg) \subseteq Members(o.node, vg)
           /\ LabelsOnly(n, o.node, c.devs)
           /\ ~fault /\ ~Partial(n, vg) => NoNewOrphan(n, o.node)
<1> DEFINE missing == c.devs \ PhysicalVolumes(n, vg)
           Grown(pvs) == IF pvs = {} THEN {Done(n)} ELSE ExpandVolumeGroup(n, vg, pvs, fault)
           Entry(pvs, r) ==
             [suc EXCEPT !.devs = suc.devs \cup ((missing \ pvs) \X {"Error"})
                                     \cup (IF r.ok THEN pvs \X {"Online"} ELSE {})]
<1>1. missing \in SUBSET Disks
  BY DEF DeviceClasses
<1>2. \/ \E pvs \in CreatePhysicalVolumes(n, missing, fault) :
            \E r \in Grown(pvs) : o.node = r.node
      \/ o.node = n
  <2>1. \/ \E pvs \in CreatePhysicalVolumes(n, missing, fault) :
              \E r \in Grown(pvs) : o = Outcome(r.node, Entry(pvs, r), "none")
        \/ o = Outcome(n, suc, "none")
    BY DEF CheckVgIfExpand
  <2>2. \A m, x : Outcome(m, x, "none").node = m
    BY DEF Outcome
  <2> HIDE DEF Grown, Entry, missing
  <2> QED BY <2>1, <2>2
<1>3. ASSUME NEW pvs \in CreatePhysicalVolumes(n, missing, fault), NEW r \in Grown(pvs)
      PROVE  /\ Members(n, vg) \subseteq Members(r.node, vg)
             /\ LabelsOnly(n, r.node, c.devs)
             /\ ~fault /\ ~Partial(n, vg) => NoNewOrphan(n, r.node)
  <2>1. pvs \in SUBSET missing /\ pvs \in SUBSET Labelable(n)
    BY <1>1, CreatePhysicalVolumesType
  <2>2. CASE pvs = {}
    <3>1. r.node = n
      BY <2>2 DEF Done
    <3> QED BY <3>1, NothingRelabelled
  <2>3. CASE pvs # {}
    <3>1. r \in ExpandVolumeGroup(n, vg, pvs, fault)
      BY <2>3
    <3>2. /\ Members(n, vg) \subseteq Members(r.node, vg)
          /\ LabelsOnly(n, r.node, pvs)
          /\ ~fault /\ ~Partial(n, vg) => NoNewOrphan(n, r.node)
      BY <1>1, <2>1, <3>1, ExpandVolumeGroupEffect
    <3> QED BY <2>1, <3>2 DEF LabelsOnly
  <2> QED BY <2>2, <2>3
<1> HIDE DEF Grown, missing
<1> QED BY <1>2, <1>3, NothingRelabelled

(* checkVgIfShrink: the entry only goes with the group, and without a      *)
(* failing command the group only goes with the entry.                     *)
LEMMA ShrinkFate ==
    ASSUME NEW n \in Nodes, NEW vg \in VGs, NEW c \in DeviceClasses,
           NEW suc \in ClassStates, NEW fault \in BOOLEAN,
           NEW o \in CheckVgIfShrink(n, vg, c, suc, fault)
    PROVE  /\ LabelsOnly(n, o.node, {})
           /\ o.suc = NoClass => ~VgExists(o.node, vg)
           /\ ~fault /\ o.suc # NoClass /\ VgExists(n, vg) => VgExists(o.node, vg)
           /\ ~fault => NoNewOrphan(n, o.node)
<1> DEFINE pvs == PhysicalVolumes(n, vg)
           extra == pvs \ c.devs
           Left == [suc EXCEPT !.devs = {s \in suc.devs : s[1] \notin extra}]
<1>1. extra \in SUBSET Members(n, vg) /\ pvs \in SUBSET Members(n, vg)
  BY DEF PhysicalVolumes
<1>2. {s \in suc.devs : s[1] \notin extra} \in SUBSET (Disks \X {"Online", "Offline", "Error"})
  BY DEF ClassStates
<1>3. Left # NoClass /\ suc # NoClass
  BY <1>2, EntryType, AbsentAssumption
<1>4. \/ o.node = n /\ o.suc = suc
      \/ \E r \in RemoveVolumeGroup(n, vg, fault) :
            o.node = r.node /\ o.suc = IF r.ok THEN NoClass ELSE suc
      \/ /\ ~(extra = pvs /\ ~Partial(n, vg))
         /\ \E r \in ShrinkVolumeGroup(n, vg, extra, fault) :
               o.node = r.node /\ o.suc = IF r.ok THEN Left ELSE suc
  <2>1. \/ o = Outcome(n, suc, "none")
        \/ \E r \in RemoveVolumeGroup(n, vg, fault) :
              o = Outcome(r.node, IF r.ok THEN NoClass ELSE suc, "none")
        \/ /\ ~(extra = pvs /\ ~Partial(n, vg))
           /\ \E r \in ShrinkVolumeGroup(n, vg, extra, fault) :
                 o = Outcome(r.node, IF r.ok THEN Left ELSE suc, "none")
    BY DEF CheckVgIfShrink
  <2>2. \A m, x : Outcome(m, x, "none").node = m /\ Outcome(m, x, "none").suc = x
    BY DEF Outcome
  <2>3. CASE o = Outcome(n, suc, "none")
    BY <2>2, <2>3
  <2>4. ASSUME NEW r \in RemoveVolumeGroup(n, vg, fault),
               o = Outcome(r.node, IF r.ok THEN NoClass ELSE suc, "none")
        PROVE  o.node = r.node /\ o.suc = IF r.ok THEN NoClass ELSE suc
    BY <2>2, <2>4
  <2>5. ASSUME NEW r \in ShrinkVolumeGroup(n, vg, extra, fault),
               o = Outcome(r.node, IF r.ok THEN Left ELSE suc, "none")
        PROVE  o.node = r.node /\ o.suc = IF r.ok THEN Left ELSE suc
    <3> HIDE DEF Left, extra
    <3> QED BY <2>2, <2>5
  <2> HIDE DEF Left, extra, pvs
  <2> QED BY <2>1, <2>3, <2>4, <2>5
<1> HIDE DEF Left
<1>5. CASE o.node = n /\ o.suc = suc
  BY <1>3, <1>5, NothingRelabelled
<1>6. ASSUME NEW r \in RemoveVolumeGroup(n, vg, fault),
             o.node = r.node, o.suc = IF r.ok THEN NoClass ELSE suc
      PROVE  /\ LabelsOnly(n, o.node, {})
             /\ o.suc = NoClass => ~VgExists(o.node, vg)
             /\ ~fault /\ o.suc # NoClass /\ VgExists(n, vg) => VgExists(o.node, vg)
             /\ ~fault => NoNewOrphan(n, o.node)
  BY <1>3, <1>6, RemoveVolumeGroupEffect
<1>7. ASSUME NEW r \in ShrinkVolumeGroup(n, vg, extra, fault),
             ~(extra = pvs /\ ~Partial(n, vg)),
             o.node = r.node, o.suc = IF r.ok THEN Left ELSE suc
      PROVE  /\ LabelsOnly(n, o.node, {})
             /\ o.suc # NoClass
             /\ ~fault /\ VgExists(n, vg) => VgExists(o.node, vg)
             /\ ~fault => NoNewOrphan(n, o.node)
  <2>1. /\ Members(n, vg) \ extra \subseteq Members(r.node, vg)
        /\ ~fault /\ Partial(n, vg) => r.node = n
        /\ LabelsOnly(n, r.node, {})
        /\ ~fault => NoNewOrphan(n, r.node)
    BY <1>1, ShrinkVolumeGroupEffect
  <2>2. extra # pvs => Members(r.node, vg) # {}
    BY <1>1, <2>1
  <2> QED BY <1>3, <1>7, <2>1, <2>2 DEF VgExists
<1> QED BY <1>4, <1>5, <1>6, <1>7

LEMMA AdjustFate ==
    ASSUME NEW n \in Nodes, NEW vg \in VGs, NEW c \in DeviceClasses,
           NEW suc \in ClassStates, NEW fault \in BOOLEAN,
           NEW o \in Adjust(n, vg, c, suc, fault)
    PROVE  /\ Fate(n, vg, c, suc, fault, o)
           /\ ~fault /\ ~Partial(n, vg) => NoNewOrphan(n, o.node)
<1>1. PICK e \in CheckVgIfExpand(n, vg, c, suc, fault) :
             o \in CheckVgIfShrink(e.node, vg, c, e.suc, fault)
  BY DEF Adjust
<1>2. e.node \in Nodes /\ e.suc \in ClassStates
  BY ExpandStep DEF ClassStep, Outcomes
<1>3. /\ Members(n, vg) \subseteq Members(e.node, vg)
      /\ LabelsOnly(n, e.node, c.devs)
      /\ ~fault /\ ~Partial(n, vg) => NoNewOrphan(n, e.node)
  BY ExpandFate
<1>4. /\ LabelsOnly(e.node, o.node, {})
      /\ o.suc = NoClass => ~VgExists(o.node, vg)
      /\ ~fault /\ o.suc # NoClass /\ VgExists(e.node, vg) => VgExists(o.node, vg)
      /\ ~fault => NoNewOrphan(e.node, o.node)
  BY <1>1, <1>2, ShrinkFate
<1>5. VgExists(n, vg) => VgExists(e.node, vg)
  BY <1>3 DEF VgExists
<1>6. LabelsOnly(n, o.node, c.devs)
  BY <1>3, <1>4 DEF LabelsOnly
<1>7. ~fault /\ ~Partial(n, vg) => NoNewOrphan(n, o.node)
  BY <1>3, <1>4 DEF NoNewOrphan
<1>8. ~fault => KeptLabels(n, o.node, vg)
  BY <1>3, <1>4, VGsAssumption DEF KeptLabels, NoNewOrphan, Members
<1>9. suc # NoClass
  BY AbsentAssumption
<1> QED BY <1>4, <1>5, <1>6, <1>7, <1>8, <1>9 DEF Fate

(* Any step on one wanted class.                                           *)
LEMMA ClassOutcomesFate ==
    ASSUME NEW n \in Nodes, NEW j \in Jobs, NEW vg \in VGs, j.want[vg] # NoClass,
           NEW fault \in BOOLEAN, NEW o \in ClassOutcomes(n, j, vg, fault),
           ~j.known => j.suc[vg] = NoClass
    PROVE  /\ Fate(n, vg, j.want[vg], j.suc[vg], fault, o)
           /\ /\ ~fault
              /\ IF j.suc[vg] = NoClass
                 THEN j.want[vg].devs \cap j.avail \subseteq Labelable(n) /\ ~VgExists(n, vg)
                 ELSE ~Partial(n, vg)
              => NoNewOrphan(n, o.node)
<1>1. j.want[vg] \in DeviceClasses /\ j.suc[vg] \in ClassStates \cup {NoClass}
  BY DEF Jobs, NodeDevices
<1>2. j.avail \in SUBSET Disks
  BY DEF Jobs
<1>3. CASE ~j.known /\ o = Outcome(n, NoClass, "existing")
  <2>1. o.node = n /\ o.suc = NoClass /\ o.fail = "existing" /\ j.suc[vg] = NoClass
    BY <1>3 DEF Outcome
  <2> QED BY <2>1, NothingRelabelled DEF Fate, Same
<1>4. CASE j.suc[vg] # NoClass /\ o \in Adjust(n, vg, j.want[vg], j.suc[vg], fault)
  BY <1>1, <1>4, AdjustFate
<1>5. CASE /\ j.suc[vg] = NoClass
           /\ o \in CreateVg(n, vg, j.want[vg], j.avail, fault)
                      \cup CreateVgRetry(n, vg, j.want[vg], j.avail, fault)
  BY <1>1, <1>2, <1>5, CreateVgFate
<1> QED BY <1>3, <1>4, <1>5 DEF ClassOutcomes

-----------------------------------------------------------------------------
(* What each action does, as far as the properties below need it.          *)

(* The classes that the ConfigMap records as successes.                    *)
SucOf(m) == IF StatusOf(m) = NoData THEN NoClasses ELSE m.status.suc

(* How far a run has come with a class, compared with what was recorded    *)
(* when it started.  A class that is done and no success has either failed *)
(* or was a success whose group the run has removed.                       *)
Handled(vg) ==
    LET base == SucOf(cm)[vg]
    IN  /\ vg \in job.todo => job.suc[vg] = base
        /\ vg \in job.new => base = NoClass
        /\ job.suc[vg] # NoClass /\ base = NoClass => vg \in job.new
        /\ job.suc[vg] # NoClass /\ base # NoClass => job.suc[vg].name = base.name
        /\ job.want[vg] # NoClass /\ vg \notin job.todo /\ job.suc[vg] = NoClass =>
             IF base = NoClass THEN job.fail[vg] # "none" ELSE ~VgExists(node, vg)

HandledInv == job.active => \A vg \in VGs : Handled(vg)

(* The specification a run works on, with its disks filled in.             *)
WantInv ==
    /\ spec \in NodeSpecs
    /\ job.active =>
         \E s \in NodeSpecs : /\ job.want = NodeDevicesOf(s, job.avail)
                              /\ spent.edit = 0 => s = spec

(* Every success class is in lvmd.yaml.                                    *)
Matches(e, vg, suc) == e.vg = vg /\ e.name = suc[vg].name

SucServed ==
    \A vg \in Classes(SucOf(cm)) : \E e \in LvmdEntries : Matches(e, vg, SucOf(cm))

LEMMA SucOfType ==
    ASSUME IInv
    PROVE  /\ SucOf(cm) \in [VGs -> ClassStates \cup {NoClass}]
           /\ StatusOf(cm) = NoData => SucOf(cm) = NoClasses
           /\ StatusOf(cm) # NoData => cm # NoCm /\ cm.status = StatusOf(cm) /\ SucOf(cm) = cm.status.suc
BY DEF IInv, Core, TypeOK, SucOf, StatusOf, ConfigMaps, Statuses, NoClasses

(* A step on class vg with outcome o.                                      *)
StepOn(vg, fault, o) ==
    LET created == job.suc[vg] = NoClass /\ o.suc # NoClass
    IN  /\ node' = o.node
        /\ ClassStep(node, vg, job.suc[vg],
               IF job.suc[vg] = NoClass THEN job.want[vg].name ELSE job.suc[vg].name, o)
        /\ Fate(node, vg, job.want[vg], job.suc[vg], fault, o)
        /\ /\ ~fault
           /\ IF job.suc[vg] = NoClass
              THEN job.want[vg].devs \cap job.avail \subseteq Labelable(node) /\ ~VgExists(node, vg)
              ELSE ~Partial(node, vg)
           => NoNewOrphan(node, node')
        /\ job'.suc = [job.suc EXCEPT ![vg] = o.suc]
        /\ job'.fail = [job.fail EXCEPT ![vg] = o.fail]
        /\ job'.new = IF created THEN job.new \cup {vg} ELSE job.new
        /\ job'.todo = job.todo \ {vg}
        /\ made' = IF created THEN made \cup {vg} ELSE made
        /\ IF fault THEN Spend("fault") ELSE spent' = spent

LEMMA ProvisionClassStep ==
    ASSUME IInv, HandledInv, NEW vg \in VGs, ProvisionClass(vg)
    PROVE  \E fault \in BOOLEAN, o \in Outcomes : StepOn(vg, fault, o)
<1>1. job \in Jobs /\ node \in Nodes /\ job.active /\ vg \in job.todo /\ job.want[vg] # NoClass
  BY DEF IInv, Core, TypeOK, RunSound, JobInv, ProvisionClass, Classes
<1>2. ~job.known => job.suc[vg] = NoClass
  <2>1. ~job.known => SucOf(cm)[vg] = NoClass
    BY <1>1, SucOfType DEF IInv, Core, RunSound, JobInv, NoClasses
  <2> QED BY <1>1, <2>1 DEF HandledInv, Handled
<1> DEFINE created(o) == job.suc[vg] = NoClass /\ o.suc # NoClass
<1>3. PICK fault, o :
        /\ fault \in BOOLEAN /\ o \in ClassOutcomes(node, job, vg, fault)
        /\ node' = o.node
        /\ job' = [job EXCEPT
                     !.suc  = [job.suc EXCEPT ![vg] = o.suc],
                     !.fail = [job.fail EXCEPT ![vg] = o.fail],
                     !.new  = IF created(o) THEN job.new \cup {vg} ELSE job.new,
                     !.todo = job.todo \ {vg}]
        /\ made' = IF created(o) THEN made \cup {vg} ELSE made
        /\ MayFail(fault)
  BY DEF ProvisionClass
<1>4. ClassStep(node, vg, job.suc[vg],
        IF job.suc[vg] = NoClass THEN job.want[vg].name ELSE job.suc[vg].name, o)
  BY <1>1, <1>3, ClassOutcomesStep
<1>5. /\ Fate(node, vg, job.want[vg], job.suc[vg], fault, o)
      /\ /\ ~fault
         /\ IF job.suc[vg] = NoClass
            THEN job.want[vg].devs \cap job.avail \subseteq Labelable(node) /\ ~VgExists(node, vg)
            ELSE ~Partial(node, vg)
         => NoNewOrphan(node, o.node)
  BY <1>1, <1>2, <1>3, ClassOutcomesFate
<1>6. fault \in BOOLEAN /\ o \in Outcomes
  BY <1>3, <1>4 DEF ClassStep
<1>7. /\ job'.suc = [job.suc EXCEPT ![vg] = o.suc]
      /\ job'.fail = [job.fail EXCEPT ![vg] = o.fail]
      /\ job'.new = IF created(o) THEN job.new \cup {vg} ELSE job.new
      /\ job'.todo = job.todo \ {vg}
  BY <1>1, <1>3 DEF Jobs
<1>8. IF fault THEN Spend("fault") ELSE spent' = spent
  BY <1>3 DEF MayFail
<1> QED BY <1>3, <1>4, <1>5, <1>6, <1>7, <1>8 DEF StepOn

(* The rest of the run's variables.                                        *)
LEMMA ProvisionClassFrame ==
    ASSUME IInv, NEW vg \in VGs, ProvisionClass(vg)
    PROVE  /\ job.active /\ vg \in job.todo /\ job.want[vg] # NoClass
           /\ job'.active /\ job'.want = job.want /\ job'.avail = job.avail
           /\ job'.base = job.base /\ job'.known = job.known
           /\ spec' = spec /\ cm' = cm
BY DEF IInv, Core, TypeOK, RunSound, JobInv, ProvisionClass, Jobs, Classes

(* A class that is no longer wanted is forgotten.                          *)
LEMMA DropClassStep ==
    ASSUME IInv, NEW vg \in VGs, DropClass(vg)
    PROVE  /\ job.active /\ job.todo = {} /\ job.suc[vg] # NoClass /\ job.want[vg] = NoClass
           /\ job' = [job EXCEPT !.suc = job'.suc] /\ job'.suc = [job.suc EXCEPT ![vg] = NoClass]
           /\ job'.active /\ job'.want = job.want /\ job'.avail = job.avail
           /\ job'.base = job.base /\ job'.known = job.known /\ job'.new = job.new
           /\ job'.fail = job.fail /\ job'.todo = job.todo
           /\ spec' = spec /\ cm' = cm /\ made' = made
           /\ Frame(node, node', vg)
           /\ LabelsOnly(node, node', {})
           /\ spent' = spent => NoNewOrphan(node, node')
           /\ spent' = spent \/ Spend("fault")
<1>1. job \in Jobs /\ node \in Nodes /\ job.active /\ job.todo = {}
      /\ job.suc[vg] # NoClass /\ job.want[vg] = NoClass
  BY DEF IInv, Core, TypeOK, DropClass, Unwanted, Classes
<1>2. PICK fault, o :
        /\ fault \in BOOLEAN /\ o \in RemoveVolumeGroup(node, vg, fault)
        /\ node' = o.node
        /\ job' = [job EXCEPT !.suc = [job.suc EXCEPT ![vg] = NoClass]]
        /\ MayFail(fault)
  BY DEF DropClass
<1>3. UNCHANGED <<spec, cm, made>>
  BY DEF DropClass
<1>4. /\ job'.suc = [job.suc EXCEPT ![vg] = NoClass]
      /\ job' = [job EXCEPT !.suc = job'.suc]
      /\ job'.active /\ job'.want = job.want /\ job'.avail = job.avail
      /\ job'.base = job.base /\ job'.known = job.known /\ job'.new = job.new
      /\ job'.fail = job.fail /\ job'.todo = job.todo
  BY <1>1, <1>2 DEF Jobs
<1>5. Frame(node, node', vg) /\ LabelsOnly(node, node', {})
      /\ (~fault => NoNewOrphan(node, node'))
  BY <1>1, <1>2, RemoveVolumeGroupFrame, RemoveVolumeGroupEffect
<1>6. fault => spent' # spent /\ Spend("fault")
  BY <1>2 DEF MayFail, Spend, IInv, Core, TypeOK
<1>7. ~fault => spent' = spent
  BY <1>2 DEF MayFail
<1> QED BY <1>1, <1>3, <1>4, <1>5, <1>6, <1>7

(* Around the job no disk changes its group.                               *)
LEMMA EnvStep ==
    ASSUME IInv, EnvNext
    PROVE  /\ UNCHANGED <<cm, job, made>>
           /\ Same(node, node')
           /\ LabelsOnly(node, node', {})
           /\ spec' \in NodeSpecs \cup {spec}
           /\ spec' = spec \/ Spend("edit")
           /\ spent'.fault = spent.fault /\ spent.edit <= spent'.edit
<1>1. CASE EditSpec
  BY <1>1, NothingRelabelled DEF EditSpec, Spend, IInv, Core, TypeOK, Same
<1>2. ASSUME NEW d \in Disks, CreateLv(d) \/ DeleteLv(d) \/ Plug(d) \/ Unplug(d)
      PROVE  /\ UNCHANGED <<cm, job, made, spec>> /\ node' \in Nodes /\ node'.own = node.own
             /\ spent' = spent \/ Spend("unplug")
  BY <1>2 DEF CreateLv, DeleteLv, Plug, Unplug, IInv, Core, TypeOK, Nodes
<1>3. ASSUME NEW d \in Disks, Wipe(d)
      PROVE  /\ UNCHANGED <<cm, job, made, spec>> /\ Same(node, node')
             /\ LabelsOnly(node, node', {})
             /\ Spend("wipe")
  <2>1. node' = Relabel(node, {d}, Raw) /\ node \in Nodes /\ node.own[d] = Used
    BY <1>3 DEF Wipe, IInv, Core, TypeOK
  <2>2. \A w \in VGs : {d} \cap Members(node, w) = {}
    BY <2>1, VGsAssumption DEF Members
  <2>3. Same(node, node')
    BY <2>1, <2>2, RelabelType, RelabelMembers, LabelsOfLvm, VGsAssumption DEF Same
  <2>4. LabelsOnly(node, node', {})
    BY <2>1, RelabelOwn DEF LabelsOnly
  <2> QED BY <1>3, <2>3, <2>4 DEF Wipe
<1>4. node'.own = node.own /\ node' \in Nodes => Same(node, node') /\ LabelsOnly(node, node', {})
  BY DEF Same, Members, LabelsOnly
<1>5. spent' = spent \/ Spend("unplug") \/ Spend("wipe")
        => spent'.fault = spent.fault /\ spent.edit <= spent'.edit
  BY DEF Spend, IInv, Core, TypeOK
<1> QED BY <1>1, <1>2, <1>3, <1>4, <1>5 DEF EnvNext

(* A run that dies.                                                        *)
LEMMA JobDieStep ==
    ASSUME IInv, JobDie
    PROVE  /\ job.active /\ ~job'.active /\ node' \in Nodes
           /\ spec' = spec /\ cm' = cm
           /\ spent'.fault > 0 /\ spent'.edit = spent.edit
BY InterruptedFrame DEF JobDie, IdleJob, Spend, IInv, Core, TypeOK

(* A run writes its success classes, and lvmd.yaml holds the entries it    *)
(* found and those it made, as far as they are entries of these classes.   *)
LEMMA JobCommitStep ==
    ASSUME IInv, JobCommit
    PROVE  /\ job.active /\ job.todo = {} /\ job \in Jobs /\ ~job'.active
           /\ UNCHANGED <<node, spec, made, spent>>
           /\ \A vg \in VGs : job.suc[vg] # NoClass => job.want[vg] # NoClass
           /\ SucOf(cm)' = job.suc
           /\ StatusOf(cm)' # NoData
           /\ LvmdEntries' = {e \in {RefreshDefault(x, job.want) : x \in LvmdEntries}
                                      \cup {EntryOf(job.want, vg) : vg \in job.new} :
                                e.name \in ClassNamesOf(job.suc)}
<1> DEFINE lvmd == IF job.known THEN UpdateLvmdConf(job, LvmdOf(cm))
                   ELSE CreateLvmdConf(job, LvmdOf(cm))
           entries(m) == IF LvmdOf(m) = NoData THEN {} ELSE LvmdOf(m).classes
           new == {EntryOf(job.want, vg) : vg \in job.new}
           kept(S) == {e \in {RefreshDefault(x, job.want) : x \in S} \cup new :
                         e.name \in ClassNamesOf(job.suc)}
<1>1. job \in Jobs /\ job.active /\ job.todo = {} /\ job' = IdleJob
      /\ UNCHANGED <<node, spec, made, spent>>
  BY DEF IInv, Core, TypeOK, JobCommit
<1>2. \A vg \in VGs : job.suc[vg] # NoClass => job.want[vg] # NoClass
  BY DEF JobCommit, Unwanted, Classes
<1>3. cm' # NoCm /\ cm'.status = NewStatus(job) /\ NewStatus(job) \in Statuses
      /\ NewStatus(job).suc = job.suc /\ cm'.lvmd = lvmd
  BY CommittedCm, AbsentAssumption
<1>4. LvmdEntries = entries(cm) /\ LvmdEntries' = entries(cm')
  BY DEF LvmdEntries, LvmdOf
<1>5. LvmdOf(cm') = lvmd
  BY <1>3 DEF LvmdOf
<1>6. \A e \in new : e.name \in ClassNamesOf(job.suc)
  BY <1>1, EntryOfType DEF IInv, Core, RunSound, JobInv, Jobs, ClassNamesOf, Classes
<1>7. \A S : S = {} => kept(S) = new
  BY <1>6
<1>8. CASE LvmdOf(cm) = NoData
  <2>1. lvmd = IF job.new = {} THEN NoData ELSE [classes |-> new]
    BY <1>8 DEF UpdateLvmdConf, CreateLvmdConf
  <2>2. [classes |-> new] # NoData
    BY <1>1, EntryOfType, AbsentAssumption DEF LvmdConfs, IInv, Core, RunSound, JobInv, Jobs
  <2>3. entries(cm') = new /\ entries(cm) = {}
    BY <1>5, <1>8, <2>1, <2>2
  <2> QED BY <1>1, <1>2, <1>3, <1>4, <1>7, <2>3, AbsentAssumption DEF SucOf, StatusOf, IdleJob
<1>9. CASE LvmdOf(cm) # NoData
  <2>1. job.known
    BY <1>1, <1>9 DEF IInv, Core, RunSound, JobInv, CmInv
  <2>2. lvmd = [classes |-> kept(entries(cm))]
    BY <1>9, <2>1 DEF UpdateLvmdConf
  <2>3. lvmd # NoData
    <3>1. kept(entries(cm)) \subseteq LvmdClasses
      BY <1>1, <1>9, EntryOfType, RefreshDefaultType
      DEF IInv, Core, TypeOK, RunSound, JobInv, Jobs, LvmdOf, ConfigMaps, LvmdConfs
    <3> HIDE DEF kept
    <3> QED BY <2>2, <3>1, AbsentAssumption DEF LvmdConfs
  <2>4. entries(cm') = kept(entries(cm))
    BY <1>5, <2>2, <2>3
  <2> QED BY <1>1, <1>2, <1>3, <1>4, <2>4, AbsentAssumption DEF SucOf, StatusOf, IdleJob
<1> QED BY <1>8, <1>9

(* Refreshing an entry leaves its name and its volume group.               *)
Marked(want, name) == \E vg \in Classes(want) : want[vg].name = name /\ want[vg].default

LEMMA RefreshDefaultOf ==
    ASSUME NEW e \in LvmdClasses, NEW want
    PROVE  /\ RefreshDefault(e, want).name = e.name
           /\ RefreshDefault(e, want).vg = e.vg
           /\ e.name \in ClassNamesOf(want) =>
                RefreshDefault(e, want).default = Marked(want, e.name)
<1>1. RefreshDefault(e, want) =
        IF e.name \in ClassNamesOf(want) THEN [e EXCEPT !.default = Marked(want, e.name)] ELSE e
  BY DEF RefreshDefault, Marked
<1> QED BY <1>1 DEF LvmdClasses

LEMMA LvmdEntriesType == IInv => LvmdEntries \subseteq LvmdClasses
BY DEF IInv, Core, TypeOK, LvmdEntries, ConfigMaps, LvmdConfs

-----------------------------------------------------------------------------
(* What a run has recorded of a class agrees with what it has found and    *)
(* done, in every reachable state.                                         *)
RInv == IInv /\ WantInv /\ HandledInv /\ SucServed

LEMMA InitRInv == Init => RInv
<1> SUFFICES ASSUME Init PROVE RInv
  OBVIOUS
<1>1. IInv
  BY InitInv
<1>2. StatusOf(cm) = NoData /\ ~job.active /\ spec \in NodeSpecs
  BY PrepareVgAssumption DEF Init, StatusOf, IdleJob
<1> QED BY <1>1, <1>2 DEF RInv, WantInv, HandledInv, SucServed, SucOf, Classes, NoClasses

LEMMA WantStep == RInv /\ [Next]_vars => WantInv'
<1> SUFFICES ASSUME RInv, [Next]_vars PROVE WantInv'
  OBVIOUS
<1>1. IInv /\ WantInv
  BY DEF RInv
<1>2. CASE JobStart
  <2>1. job'.want = NodeDevicesOf(spec, job'.avail) /\ spec' = spec
    BY <1>2 DEF JobStart
  <2> QED BY <1>1, <2>1 DEF WantInv
<1>3. ASSUME NEW vg \in VGs, ProvisionClass(vg) \/ DropClass(vg)
      PROVE  WantInv'
  <2>1. /\ job.active /\ job'.want = job.want /\ job'.avail = job.avail /\ spec' = spec
        /\ spent' = spent \/ Spend("fault")
    BY <1>1, <1>3, ProvisionClassFrame, DropClassStep DEF ProvisionClass, MayFail
  <2>2. spent'.edit = spent.edit
    BY <1>1, <2>1 DEF Spend, IInv, Core, TypeOK
  <2> QED BY <1>1, <2>1, <2>2 DEF WantInv
<1>4. CASE JobCommit
  BY <1>1, <1>4 DEF JobCommit, WantInv, IdleJob
<1>5. CASE JobDie
  BY <1>1, <1>5, JobDieStep DEF WantInv
<1>6. CASE EnvNext
  <2>1. job' = job /\ spec' \in NodeSpecs
        /\ (spec' = spec \/ Spend("edit")) /\ spent.edit <= spent'.edit
    BY <1>1, <1>6, EnvStep DEF WantInv
  <2>2. Spend("edit") => spent'.edit > 0
    BY <1>1 DEF Spend, IInv, Core, TypeOK
  <2>3. spent'.edit = 0 => spent.edit = 0 /\ spec' = spec
    BY <1>1, <2>1, <2>2 DEF IInv, Core, TypeOK
  <2> QED BY <1>1, <2>1, <2>3 DEF WantInv
<1>7. CASE UNCHANGED vars
  BY <1>1, <1>7 DEF vars, WantInv
<1> QED BY <1>2, <1>3, <1>4, <1>5, <1>6, <1>7 DEF Next, JobNext

LEMMA HandledStep == RInv /\ [Next]_vars => HandledInv'
<1> SUFFICES ASSUME RInv, [Next]_vars PROVE HandledInv'
  OBVIOUS
<1>1. IInv /\ HandledInv
  BY DEF RInv
<1>2. CASE JobStart
  <2>1. cm' = cm /\ job'.suc = SucOf(cm) /\ job'.new = {} /\ job'.todo = Classes(job'.want)
    BY <1>2 DEF JobStart, SucOf, StatusOf
  <2>2. SucOf(cm)' = SucOf(cm)
    BY <2>1
  <2> QED BY <2>1, <2>2 DEF HandledInv, Handled, Classes
<1>3. ASSUME NEW vg \in VGs, ProvisionClass(vg)
      PROVE  HandledInv'
  <2>1. PICK fault \in BOOLEAN, o \in Outcomes : StepOn(vg, fault, o)
    BY <1>1, <1>3, ProvisionClassStep
  <2>2. /\ job.active /\ vg \in job.todo /\ job'.want = job.want
        /\ cm' = cm /\ job \in Jobs /\ SucOf(cm)' = SucOf(cm)
    BY <1>1, <1>3, ProvisionClassFrame DEF IInv, Core, TypeOK
  <2>3. ASSUME NEW w \in VGs \ {vg} PROVE Handled(w)'
    <3>1. VgExists(node', w) = VgExists(node, w)
      BY <2>1 DEF StepOn, ClassStep, Frame, VgExists
    <3>2. Handled(w)
      BY <1>1, <2>2 DEF HandledInv
    <3>3. /\ job'.suc[w] = job.suc[w] /\ job'.fail[w] = job.fail[w]
          /\ (w \in job'.new <=> w \in job.new) /\ (w \in job'.todo <=> w \in job.todo)
      BY <2>1, <2>2 DEF StepOn, Jobs
    <3> QED BY <2>2, <3>1, <3>2, <3>3 DEF Handled
  <2>4. Handled(vg)'
    <3>1. job.suc[vg] = SucOf(cm)[vg] /\ vg \notin job.new
      BY <1>1, <2>2 DEF HandledInv, Handled, IInv, Core, RunSound, JobInv
    <3>2. /\ job'.suc[vg] = o.suc /\ job'.fail[vg] = o.fail /\ vg \notin job'.todo
          /\ (vg \in job'.new <=> job.suc[vg] = NoClass /\ o.suc # NoClass)
      BY <2>1, <2>2, <3>1 DEF StepOn, Jobs
    <3>3. job.suc[vg] # NoClass /\ o.suc # NoClass => o.suc.name = job.suc[vg].name
      BY <2>1 DEF StepOn, ClassStep
    <3>4. o.suc = NoClass => IF job.suc[vg] = NoClass THEN o.fail # "none"
                             ELSE ~VgExists(node', vg)
      BY <2>1 DEF StepOn, Fate
    <3> QED BY <2>2, <3>1, <3>2, <3>3, <3>4 DEF Handled
  <2> QED BY <2>3, <2>4 DEF HandledInv
<1>4. ASSUME NEW vg \in VGs, DropClass(vg)
      PROVE  HandledInv'
  <2>1. /\ job.active /\ job.todo = {} /\ job.want[vg] = NoClass
        /\ job'.suc = [job.suc EXCEPT ![vg] = NoClass]
        /\ job'.want = job.want /\ job'.new = job.new
        /\ job'.fail = job.fail /\ job'.todo = job.todo
        /\ cm' = cm /\ Frame(node, node', vg)
    BY <1>1, <1>4, DropClassStep
  <2>2. job \in Jobs /\ vg \notin job.new /\ SucOf(cm)' = SucOf(cm)
    BY <1>1, <2>1 DEF IInv, Core, TypeOK, RunSound, JobInv
  <2>3. ASSUME NEW w \in VGs PROVE Handled(w)'
    <3>1. Handled(w)
      BY <1>1, <2>1 DEF HandledInv
    <3>2. CASE w = vg
      BY <2>1, <2>2, <3>1, <3>2 DEF Handled, Jobs
    <3>3. CASE w # vg
      <4>1. VgExists(node', w) = VgExists(node, w) /\ job'.suc[w] = job.suc[w]
        BY <2>1, <2>2, <3>3 DEF Frame, VgExists, Jobs
      <4> QED BY <2>1, <2>2, <3>1, <4>1 DEF Handled
    <3> QED BY <3>2, <3>3
  <2> QED BY <2>3 DEF HandledInv
<1>5. CASE JobCommit \/ JobDie
  BY <1>5 DEF JobCommit, JobDie, HandledInv, IdleJob
<1>6. CASE EnvNext
  <2>1. job' = job /\ cm' = cm /\ Same(node, node')
    BY <1>1, <1>6, EnvStep
  <2>2. \A w \in VGs : VgExists(node', w) = VgExists(node, w)
    BY <2>1 DEF Same, VgExists
  <2>3. SucOf(cm)' = SucOf(cm)
    BY <2>1
  <2> QED BY <1>1, <2>1, <2>2, <2>3 DEF HandledInv, Handled
<1>7. CASE UNCHANGED vars
  BY <1>1, <1>7 DEF vars, HandledInv, Handled, SucOf, StatusOf
<1> QED BY <1>2, <1>3, <1>4, <1>5, <1>6, <1>7 DEF Next, JobNext

LEMMA CmUnchanged ==
    [Next]_vars => cm' = cm \/ JobCommit
BY DEF Next, JobNext, EnvNext, JobStart, ProvisionClass, DropClass, JobDie, EditSpec,
       CreateLv, DeleteLv, Unplug, Plug, Wipe, vars

LEMMA SucServedStep == RInv /\ [Next]_vars => SucServed'
<1> SUFFICES ASSUME RInv, [Next]_vars PROVE SucServed'
  OBVIOUS
<1>1. IInv /\ HandledInv /\ SucServed
  BY DEF RInv
<1>2. CASE cm' = cm
  BY <1>1, <1>2 DEF SucServed, SucOf, StatusOf, LvmdEntries
<1>3. ASSUME JobCommit, NEW vg \in Classes(job.suc)
      PROVE  \E e \in LvmdEntries' : Matches(e, vg, job.suc)
  <2>1. /\ vg \in VGs /\ job.suc[vg] # NoClass /\ Handled(vg)
        /\ job.suc[vg].name \in ClassNamesOf(job.suc)
    BY <1>1, <1>3 DEF Classes, ClassNamesOf, HandledInv, JobCommit
  <2>2. ASSUME NEW e, e.vg = vg, e.name = job.suc[vg].name,
               e \in {RefreshDefault(x, job.want) : x \in LvmdEntries}
                       \cup {EntryOf(job.want, v) : v \in job.new}
        PROVE  e \in LvmdEntries' /\ Matches(e, vg, job.suc)
    BY <1>1, <1>3, <2>1, <2>2, JobCommitStep DEF Matches
  <2>3. CASE vg \in job.new
    <3>1. EntryOf(job.want, vg).vg = vg /\ EntryOf(job.want, vg).name = job.suc[vg].name
      BY <1>1, <1>3, <2>3 DEF EntryOf, IInv, Core, RunSound, JobInv, JobCommit
    <3> QED BY <2>2, <2>3, <3>1
  <2>4. CASE vg \notin job.new
    <3>1. SucOf(cm)[vg] # NoClass /\ job.suc[vg].name = SucOf(cm)[vg].name
      BY <2>1, <2>4 DEF Handled
    <3>2. PICK x \in LvmdEntries : Matches(x, vg, SucOf(cm))
      BY <1>1, <2>1, <3>1 DEF SucServed, Classes
    <3>3. RefreshDefault(x, job.want).vg = vg
          /\ RefreshDefault(x, job.want).name = job.suc[vg].name
      BY <1>1, <3>1, <3>2, LvmdEntriesType, RefreshDefaultOf DEF Matches
    <3> QED BY <2>2, <3>3
  <2> QED BY <2>3, <2>4
<1>4. CASE JobCommit
  <2>1. SucOf(cm)' = job.suc
    BY <1>1, <1>4, JobCommitStep
  <2> QED BY <1>3, <1>4, <2>1 DEF SucServed
<1> QED BY <1>2, <1>4, CmUnchanged

THEOREM RunInvariant == Spec => []RInv
<1>1. Init => RInv
  BY InitRInv
<1>2. RInv /\ IInv' /\ [Next]_vars => RInv'
  BY WantStep, HandledStep, SucServedStep DEF RInv
<1> QED BY <1>1, <1>2, InductiveInvariant, PTL DEF Spec

(* Every class a run was asked for is in the status it writes, or our hand *)
(* has made its group and the run found it gone or removed it.             *)
THEOREM StatusCompleteAlways == Spec => StatusComplete
<1>1. RInv /\ [Next]_vars =>
        [JobCommit => \A vg \in Classes(job.want) :
            \/ cm'.status.suc[vg] # NoClass
            \/ cm'.status.fail[vg] # "none"
            \/ vg \in made /\ ~VgExists(node, vg)]_vars
  <2> SUFFICES ASSUME RInv, JobCommit, NEW vg \in Classes(job.want)
               PROVE  \/ cm'.status.suc[vg] # NoClass
                      \/ cm'.status.fail[vg] # "none"
                      \/ vg \in made /\ ~VgExists(node, vg)
    OBVIOUS
  <2>1. IInv /\ HandledInv
    BY DEF RInv
  <2>2. cm'.status = NewStatus(job) /\ NewStatus(job).suc = job.suc
    BY <2>1, CommittedCm
  <2>3. vg \in VGs /\ job.want[vg] # NoClass /\ vg \notin job.todo /\ Handled(vg)
    BY <2>1 DEF Classes, JobCommit, HandledInv
  <2>4. NewStatus(job).fail[vg] = job.fail[vg]
    BY <2>3 DEF NewStatus
  <2>5. SucOf(cm)[vg] # NoClass => vg \in made
    BY <2>1, <2>3, SucOfType DEF IInv, Core, CmSound, CmInv, SoundClasses, Classes, NoClasses
  <2> QED BY <2>2, <2>3, <2>4, <2>5 DEF Handled
<1> QED BY <1>1, RunInvariant, PTL DEF Spec, StatusComplete

(* lvmd.yaml, which each run computes from the file it has found and the   *)
(* classes it has created, offers exactly the success classes of the       *)
(* status that it writes in the same patch.                                *)
THEOREM StatusMatchesLvmdAlways == Spec => []StatusMatchesLvmd
<1>1. RInv => SuccessIsServed
  <2> SUFFICES ASSUME RInv, cm # NoCm, cm.status # NoData, NEW vg \in Classes(cm.status.suc)
               PROVE  \E e \in LvmdEntries : e.vg = vg /\ e.name = cm.status.suc[vg].name
    BY DEF SuccessIsServed
  <2>1. SucOf(cm) = cm.status.suc
    BY DEF SucOf, StatusOf
  <2> QED BY <2>1 DEF RInv, SucServed, Matches
<1>2. IInv => ServedIsSuccess
  BY DEF IInv
<1>3. IInv /\ RInv => StatusMatchesLvmd
  BY <1>1, <1>2 DEF StatusMatchesLvmd
<1> QED BY <1>3, InductiveInvariant, RunInvariant, PTL

-----------------------------------------------------------------------------
(* While no command has failed and no pod has died, the success classes    *)
(* have their volume groups, and while the specification is the first one  *)
(* too, the groups of our making are success classes.                      *)

(* The success classes as the running job has them, or as recorded.        *)
CurSuc == IF job.active THEN job.suc ELSE SucOf(cm)

ExistInv == spent.fault = 0 => \A vg \in Classes(CurSuc) : VgExists(node, vg)

MadeInv ==
    spent.fault = 0 /\ spent.edit = 0 =>
      /\ made \subseteq Classes(spec.classes)
      /\ \A vg \in made : VgExists(node, vg) => CurSuc[vg] # NoClass

(* The class a run wants is one of the specification it works on.          *)
LEMMA WantOf ==
    ASSUME IInv, WantInv, job.active
    PROVE  \E s \in NodeSpecs :
             /\ spent.edit = 0 => s = spec
             /\ \A vg \in VGs :
                  /\ (job.want[vg] = NoClass) = (s.classes[vg] = NoClass)
                  /\ job.want[vg] # NoClass =>
                       /\ job.want[vg].name = s.classes[vg].name
                       /\ job.want[vg].default = IF s.all THEN TRUE ELSE s.classes[vg].default
                       /\ ~s.all => job.want[vg].devs = s.classes[vg].devs
<1>1. PICK s \in NodeSpecs : /\ job.want = NodeDevicesOf(s, job.avail)
                             /\ spent.edit = 0 => s = spec
  BY DEF WantInv
<1>2. s \in Specs /\ job.want \in NodeDevices
  BY PrepareVgAssumption DEF IInv, Core, TypeOK, Jobs
<1>3. ASSUME NEW vg \in VGs
      PROVE  /\ (job.want[vg] = NoClass) = (s.classes[vg] = NoClass)
             /\ job.want[vg] # NoClass =>
                  /\ job.want[vg].name = s.classes[vg].name
                  /\ job.want[vg].default = IF s.all THEN TRUE ELSE s.classes[vg].default
                  /\ ~s.all => job.want[vg].devs = s.classes[vg].devs
  <2>1. CASE ~s.all
    BY <1>1, <2>1 DEF NodeDevicesOf
  <2>2. CASE s.all
    <3> DEFINE filled == [s.classes[vg] EXCEPT !.devs = job.avail, !.default = TRUE]
    <3>1. job.want[vg] = IF s.classes[vg] = NoClass THEN NoClass ELSE filled
      BY <1>1, <2>2 DEF NodeDevicesOf
    <3>2. s.classes[vg] # NoClass => s.classes[vg] \in DeviceClasses /\ job.avail \in SUBSET Disks
      BY <1>2 DEF Specs, NodeDevices, IInv, Core, TypeOK, Jobs
    <3>4. s.classes[vg] # NoClass =>
            /\ filled \in DeviceClasses
            /\ filled.name = s.classes[vg].name /\ filled.default = TRUE
      BY <3>2 DEF DeviceClasses
    <3>3. s.classes[vg] # NoClass => filled # NoClass
      BY <3>4, PrepareVgAssumption
    <3> HIDE DEF filled
    <3> QED BY <2>2, <3>1, <3>4, <3>3
  <2> QED BY <2>1, <2>2
<1> QED BY <1>1, <1>3

(* The actions, as they change the success classes.                        *)
LEMMA CurSucStep ==
    ASSUME RInv, [Next]_vars
    PROVE  \/ /\ CurSuc' = CurSuc /\ made' = made
              /\ \A w \in VGs : VgExists(node', w) = VgExists(node, w)
              /\ spent'.edit = 0 => spent.edit = 0 /\ spec' = spec
              /\ spent'.fault = spent.fault
           \/ \E vg \in VGs : ProvisionClass(vg)
           \/ \E vg \in VGs : DropClass(vg)
           \/ spent'.fault > 0
<1>1. IInv
  BY DEF RInv
<1>2. CASE JobStart
  <2>1. job'.active /\ ~job.active /\ job'.suc = SucOf(cm) /\ node' = node /\ made' = made
        /\ spent' = spent /\ spec' = spec
    BY <1>2 DEF JobStart, SucOf, StatusOf
  <2> QED BY <2>1 DEF CurSuc
<1>3. CASE JobCommit
  <2>1. job.active /\ ~job'.active /\ SucOf(cm)' = job.suc /\ node' = node /\ made' = made
        /\ spent' = spent /\ spec' = spec
    BY <1>1, <1>3, JobCommitStep
  <2> QED BY <2>1 DEF CurSuc
<1>4. CASE JobDie
  BY <1>1, <1>4, JobDieStep
<1>5. CASE EnvNext
  <2>1. job' = job /\ cm' = cm /\ made' = made /\ Same(node, node')
    BY <1>1, <1>5, EnvStep
  <2>2. \A w \in VGs : VgExists(node', w) = VgExists(node, w)
    BY <2>1 DEF Same, VgExists
  <2>3. spent'.fault = spent.fault /\ (spent'.edit = 0 => spent.edit = 0 /\ spec' = spec)
    <3>1. /\ spec' = spec \/ Spend("edit")
          /\ spent'.fault = spent.fault /\ spent.edit <= spent'.edit
      BY <1>1, <1>5, EnvStep
    <3>2. Spend("edit") => spent'.edit > 0
      BY <1>1 DEF Spend, IInv, Core, TypeOK
    <3> QED BY <1>1, <3>1, <3>2 DEF IInv, Core, TypeOK
  <2> QED BY <2>1, <2>2, <2>3 DEF CurSuc, SucOf, StatusOf
<1>6. CASE UNCHANGED vars
  BY <1>6 DEF vars, CurSuc, SucOf, StatusOf
<1> QED BY <1>2, <1>3, <1>4, <1>5, <1>6 DEF Next, JobNext

LEMMA ExistStep == RInv /\ ExistInv /\ [Next]_vars => ExistInv'
<1> SUFFICES ASSUME RInv, ExistInv, [Next]_vars, spent'.fault = 0
             PROVE  \A vg \in Classes(CurSuc)' : VgExists(node', vg)
  BY DEF ExistInv
<1>1. IInv /\ HandledInv
  BY DEF RInv
<1>2. ASSUME NEW vg \in VGs, ProvisionClass(vg), NEW w \in Classes(CurSuc)'
      PROVE  VgExists(node', w)
  <2>1. PICK fault \in BOOLEAN, o \in Outcomes : StepOn(vg, fault, o)
    BY <1>1, <1>2, ProvisionClassStep
  <2>2. job.active /\ job'.active /\ job \in Jobs
    BY <1>1, <1>2, ProvisionClassFrame DEF IInv, Core, TypeOK
  <2>3. ~fault /\ spent.fault = 0
    BY <1>1, <2>1 DEF StepOn, Spend, IInv, Core, TypeOK
  <2>4. w \in VGs /\ job'.suc[w] # NoClass
    BY <1>2, <2>2 DEF CurSuc, Classes
  <2>5. CASE w = vg
    <3>1. o.suc # NoClass
      BY <2>1, <2>2, <2>4, <2>5 DEF StepOn, Jobs
    <3>2. job.suc[vg] # NoClass => VgExists(node, vg)
      BY <2>2, <2>3 DEF ExistInv, CurSuc, Classes
    <3> QED BY <2>1, <2>3, <2>5, <3>1, <3>2 DEF StepOn, Fate
  <2>6. CASE w # vg
    <3>1. job.suc[w] # NoClass
      BY <2>1, <2>2, <2>4, <2>6 DEF StepOn, Jobs
    <3>2. VgExists(node, w)
      BY <2>2, <2>3, <2>4, <3>1 DEF ExistInv, CurSuc, Classes
    <3> QED BY <2>1, <2>4, <2>6, <3>2 DEF StepOn, ClassStep, Frame, VgExists
  <2> QED BY <2>5, <2>6
<1>3. ASSUME NEW vg \in VGs, DropClass(vg), NEW w \in Classes(CurSuc)'
      PROVE  VgExists(node', w)
  <2>1. /\ job.active /\ job'.active /\ job \in Jobs
        /\ job'.suc = [job.suc EXCEPT ![vg] = NoClass] /\ Frame(node, node', vg)
        /\ spent' = spent \/ Spend("fault")
    BY <1>1, <1>3, DropClassStep DEF IInv, Core, TypeOK
  <2>2. spent.fault = 0
    BY <1>1, <2>1 DEF Spend, IInv, Core, TypeOK
  <2>3. w \in VGs /\ w # vg /\ job.suc[w] # NoClass
    BY <1>3, <2>1 DEF CurSuc, Classes, Jobs
  <2>4. VgExists(node, w)
    BY <2>1, <2>2, <2>3 DEF ExistInv, CurSuc, Classes
  <2> QED BY <2>1, <2>3, <2>4 DEF Frame, VgExists
<1>4. ASSUME CurSuc' = CurSuc, spent'.fault = spent.fault,
             \A w \in VGs : VgExists(node', w) = VgExists(node, w)
      PROVE  \A vg \in Classes(CurSuc)' : VgExists(node', vg)
  BY <1>4 DEF ExistInv, Classes
<1> QED BY <1>2, <1>3, <1>4, CurSucStep

LEMMA MadeStep == RInv /\ MadeInv /\ [Next]_vars => MadeInv'
<1> DEFINE Made == /\ made \subseteq Classes(spec.classes)
                   /\ \A vg \in made : VgExists(node, vg) => CurSuc[vg] # NoClass
<1> SUFFICES ASSUME RInv, MadeInv, [Next]_vars, spent'.fault = 0, spent'.edit = 0
             PROVE  Made'
  BY DEF MadeInv
<1>1. IInv /\ HandledInv /\ WantInv
  BY DEF RInv
<1>2. ASSUME NEW vg \in VGs, ProvisionClass(vg) PROVE Made'
  <2>1. PICK fault \in BOOLEAN, o \in Outcomes : StepOn(vg, fault, o)
    BY <1>1, <1>2, ProvisionClassStep
  <2>2. /\ job.active /\ job'.active /\ job \in Jobs /\ made \subseteq VGs
        /\ job.want[vg] # NoClass /\ spec' = spec
    BY <1>1, <1>2, ProvisionClassFrame DEF IInv, Core, TypeOK
  <2>3. ~fault /\ spent.fault = 0 /\ spent.edit = 0
    BY <1>1, <2>1 DEF StepOn, Spend, IInv, Core, TypeOK
  <2>4. Made
    BY <2>3 DEF MadeInv
  <2>5. spec.classes[vg] # NoClass
    BY <1>1, <2>2, <2>3, WantOf
  <2>6. made' \subseteq made \cup {vg}
    BY <2>1 DEF StepOn
  <2>7. ASSUME NEW w \in made', VgExists(node', w)
        PROVE  job'.suc[w] # NoClass
    <3>1. CASE w = vg
      <4>1. CASE vg \in made
        BY <2>1, <2>2, <2>4, <2>7, <3>1, <4>1
        DEF StepOn, Fate, Same, VgExists, Jobs, CurSuc
      <4>2. CASE vg \notin made
        BY <2>1, <2>2, <2>7, <3>1, <4>2 DEF StepOn, Jobs
      <4> QED BY <4>1, <4>2
    <3>2. CASE w # vg
      <4>1. w \in made /\ w \in VGs
        BY <2>2, <2>6, <2>7, <3>2
      <4>2. VgExists(node, w)
        BY <2>1, <2>7, <3>2, <4>1 DEF StepOn, ClassStep, Frame, VgExists
      <4>3. job.suc[w] # NoClass
        BY <2>2, <2>4, <4>1, <4>2 DEF CurSuc
      <4> QED BY <2>1, <2>2, <3>2, <4>1, <4>3 DEF StepOn, Jobs
    <3> QED BY <3>1, <3>2
  <2> QED BY <2>2, <2>4, <2>5, <2>6, <2>7 DEF Classes, CurSuc
<1>3. ASSUME NEW vg \in VGs, DropClass(vg) PROVE FALSE
  <2>1. /\ job.active /\ job.suc[vg] # NoClass /\ job.want[vg] = NoClass
        /\ spent' = spent \/ Spend("fault")
    BY <1>1, <1>3, DropClassStep
  <2>2. spent.fault = 0 /\ spent.edit = 0
    BY <1>1, <2>1 DEF Spend, IInv, Core, TypeOK
  <2>3. spec.classes[vg] = NoClass
    BY <1>1, <2>1, <2>2, WantOf
  <2>4. vg \in made
    BY <1>1, <2>1 DEF IInv, Core, RunSound, JobInv, SoundClasses, Classes
  <2> QED BY <2>2, <2>3, <2>4 DEF MadeInv, Classes
<1>4. ASSUME CurSuc' = CurSuc, made' = made, spec' = spec,
             spent.fault = 0, spent.edit = 0,
             \A w \in VGs : VgExists(node', w) = VgExists(node, w)
      PROVE  Made'
  <2>1. made \subseteq VGs
    BY <1>1 DEF IInv, Core, TypeOK
  <2> QED BY <1>4, <2>1 DEF MadeInv
<1> HIDE DEF Made
<1> QED BY <1>2, <1>3, <1>4, CurSucStep

THEOREM FaultlessInvariant == Spec => [](ExistInv /\ MadeInv)
<1>1. Init => ExistInv /\ MadeInv
  <2> SUFFICES ASSUME Init PROVE ExistInv /\ MadeInv
    OBVIOUS
  <2>1. ~job.active /\ made = {} /\ SucOf(cm) = NoClasses
    BY PrepareVgAssumption DEF Init, IdleJob, SucOf, StatusOf
  <2> QED BY <2>1 DEF ExistInv, MadeInv, CurSuc, Classes, NoClasses
<1>2. RInv /\ (ExistInv /\ MadeInv) /\ [Next]_vars => (ExistInv /\ MadeInv)'
  BY ExistStep, MadeStep
<1> QED BY <1>1, <1>2, RunInvariant, PTL DEF Spec

(* As long as nothing fails and the specification stays, what a run has    *)
(* created is in lvmd.yaml when the run is over.                           *)
THEOREM CreatedIsServedAlways == Spec => []CreatedIsServed
<1>1. RInv /\ MadeInv => CreatedIsServed
  <2> SUFFICES ASSUME RInv, MadeInv, spent.edit = 0, spent.fault = 0, ~job.active,
                      NEW vg \in made, VgExists(node, vg)
               PROVE  vg \in ServedVgs
    BY DEF CreatedIsServed
  <2>1. SucOf(cm)[vg] # NoClass /\ vg \in VGs
    BY DEF MadeInv, CurSuc, RInv, IInv, Core, TypeOK
  <2> QED BY <2>1 DEF RInv, SucServed, Classes, Matches, ServedVgs
<1> QED BY <1>1, RunInvariant, FaultlessInvariant, PTL

-----------------------------------------------------------------------------
(* What holds as long as class names and volume groups keep each other.    *)

Asks(name, vg) == \E s \in NodeSpecs : s.classes[vg] # NoClass /\ s.classes[vg].name = name

(* Each success class was asked for.                                       *)
AskInv == \A vg \in Classes(SucOf(cm)) : Asks(SucOf(cm)[vg].name, vg)

(* Each entry of lvmd.yaml belongs to the success class of its group.      *)
ServedOwn ==
    \A e \in LvmdEntries : SucOf(cm)[e.vg] # NoClass /\ Matches(e, e.vg, SucOf(cm))

(* The default flags are those of one specification.                       *)
DefaultOf(s, vg) == IF s.all THEN TRUE ELSE s.classes[vg].default

DefaultInv ==
    \E s \in NodeSpecs : \A e \in LvmdEntries :
        s.classes[e.vg] # NoClass /\ e.default = DefaultOf(s, e.vg)

LEMMA WantAsks ==
    ASSUME RInv, AskInv, job.active, NEW vg \in VGs
    PROVE  /\ job.want[vg] # NoClass => Asks(job.want[vg].name, vg)
           /\ job.suc[vg] # NoClass => Asks(job.suc[vg].name, vg)
<1>1. IInv /\ WantInv /\ Handled(vg)
  BY DEF RInv, HandledInv
<1>2. job.want[vg] # NoClass => Asks(job.want[vg].name, vg)
  BY <1>1, WantOf DEF Asks
<1>3. CASE job.suc[vg] # NoClass /\ vg \in job.new
  BY <1>1, <1>2, <1>3 DEF IInv, Core, RunSound, JobInv
<1>4. CASE job.suc[vg] # NoClass /\ vg \notin job.new
  <2>1. SucOf(cm)[vg] # NoClass /\ job.suc[vg].name = SucOf(cm)[vg].name
    BY <1>1, <1>4 DEF Handled
  <2>2. Asks(SucOf(cm)[vg].name, vg)
    BY <2>1 DEF AskInv, Classes
  <2> QED BY <1>2, <2>1, <2>2
<1> QED BY <1>2, <1>3, <1>4

LEMMA AskStep == RInv /\ AskInv /\ [Next]_vars => AskInv'
<1> SUFFICES ASSUME RInv, AskInv, [Next]_vars PROVE AskInv'
  OBVIOUS
<1>1. CASE cm' = cm
  BY <1>1 DEF AskInv, SucOf, StatusOf
<1>2. CASE JobCommit
  <2>1. SucOf(cm)' = job.suc /\ job.active
    BY <1>2, JobCommitStep DEF RInv
  <2> QED BY <2>1, WantAsks DEF AskInv, Classes
<1> QED BY <1>1, <1>2, CmUnchanged

(* An entry that a run leaves in lvmd.yaml is one of its new classes, or   *)
(* one it found; its name and its group belong together.                   *)
LEMMA EntryAsks ==
    ASSUME RInv, AskInv, ServedOwn, JobCommit, NEW e \in LvmdEntries'
    PROVE  /\ e.vg \in VGs /\ Asks(e.name, e.vg)
           /\ e.name \in ClassNamesOf(job.suc)
           /\ \/ \E vg \in job.new : e = EntryOf(job.want, vg)
              \/ \E x \in LvmdEntries : e = RefreshDefault(x, job.want)
<1>1. IInv
  BY DEF RInv
<1>2. /\ job \in Jobs /\ job.active
      /\ e \in {RefreshDefault(x, job.want) : x \in LvmdEntries}
                \cup {EntryOf(job.want, vg) : vg \in job.new}
      /\ e.name \in ClassNamesOf(job.suc)
  BY <1>1, JobCommitStep
<1>3. ASSUME NEW vg \in job.new, e = EntryOf(job.want, vg)
      PROVE  e.vg \in VGs /\ Asks(e.name, e.vg)
  BY <1>1, <1>2, <1>3, WantAsks DEF IInv, Core, RunSound, JobInv, Jobs, EntryOf
<1>4. ASSUME NEW x \in LvmdEntries, e = RefreshDefault(x, job.want)
      PROVE  e.vg \in VGs /\ Asks(e.name, e.vg)
  <2>1. x \in LvmdClasses
    BY <1>1, LvmdEntriesType
  <2>2. e.name = x.name /\ e.vg = x.vg /\ x.vg \in VGs
    BY <1>4, <2>1, RefreshDefaultOf DEF LvmdClasses
  <2> QED BY <2>2 DEF ServedOwn, AskInv, Classes, Matches
<1> QED BY <1>2, <1>3, <1>4

LEMMA ServedOwnStep ==
    ASSUME NamesKeepGroups
    PROVE  RInv /\ AskInv /\ ServedOwn /\ [Next]_vars => ServedOwn'
<1> SUFFICES ASSUME RInv, AskInv, ServedOwn, [Next]_vars PROVE ServedOwn'
  OBVIOUS
<1>1. CASE cm' = cm
  BY <1>1 DEF ServedOwn, SucOf, StatusOf, LvmdEntries
<1>2. ASSUME JobCommit, NEW e \in LvmdEntries'
      PROVE  job.suc[e.vg] # NoClass /\ Matches(e, e.vg, job.suc)
  <2>1. e.vg \in VGs /\ Asks(e.name, e.vg) /\ e.name \in ClassNamesOf(job.suc)
    BY <1>2, EntryAsks
  <2>2. PICK vg \in VGs : job.suc[vg] # NoClass /\ e.name = job.suc[vg].name
    BY <2>1 DEF ClassNamesOf, Classes
  <2>3. Asks(e.name, vg)
    BY <1>2, <2>2, WantAsks DEF JobCommit
  <2>4. vg = e.vg
    BY <2>1, <2>3 DEF Asks, NamesKeepGroups, Classes
  <2> QED BY <2>2, <2>4 DEF Matches
<1>3. CASE JobCommit
  <2>1. SucOf(cm)' = job.suc
    BY <1>3, JobCommitStep DEF RInv
  <2> QED BY <1>2, <1>3, <2>1 DEF ServedOwn
<1> QED BY <1>1, <1>3, CmUnchanged

(* With names that keep their groups, an entry is always one of a success  *)
(* class of its volume group.                                              *)
THEOREM ServedInvariant ==
    ASSUME NamesKeepGroups
    PROVE  Spec => [](AskInv /\ ServedOwn)
<1>1. Init => AskInv /\ ServedOwn
  <2> SUFFICES ASSUME Init PROVE AskInv /\ ServedOwn
    OBVIOUS
  <2>1. SucOf(cm) = NoClasses /\ LvmdEntries = {}
    BY PrepareVgAssumption DEF Init, SucOf, StatusOf, LvmdEntries
  <2> QED BY <2>1 DEF AskInv, ServedOwn, Classes, NoClasses
<1>2. RInv /\ (AskInv /\ ServedOwn) /\ [Next]_vars => (AskInv /\ ServedOwn)'
  BY AskStep, ServedOwnStep
<1> QED BY <1>1, <1>2, RunInvariant, PTL DEF Spec

(* While nothing fails, every volume group that lvmd.yaml offers exists.   *)
THEOREM ServedExistsAlways ==
    ASSUME NamesKeepGroups
    PROVE  Spec => []ServedExists
<1>1. RInv /\ ExistInv /\ ServedOwn => ServedExists
  <2> SUFFICES ASSUME RInv, ExistInv, ServedOwn, spent.fault = 0, ~job.active,
                      NEW e \in LvmdEntries
               PROVE  VgExists(node, e.vg)
    BY DEF ServedExists, ServedVgs
  <2>1. e.vg \in VGs
    BY LvmdEntriesType DEF RInv, LvmdClasses
  <2> QED BY <2>1 DEF ExistInv, CurSuc, ServedOwn, Classes
<1> QED BY <1>1, RunInvariant, FaultlessInvariant, ServedInvariant, PTL

(* A run withdraws no volume group in use from lvmd.yaml, except one that  *)
(* the specification no longer asks for.                                   *)
THEOREM KeepsInUseAlways ==
    ASSUME NamesKeepGroups
    PROVE  Spec => KeepsInUse
<1>1. RInv /\ RInv' /\ ServedOwn /\ [Next]_vars =>
        [JobCommit => \A vg \in ServedVgs :
            /\ job.want[vg] # NoClass
            /\ HasLogicalVolume(node, Members(node, vg))
            => vg \in ServedVgs']_vars
  <2> SUFFICES ASSUME RInv, RInv', ServedOwn, JobCommit, NEW vg \in ServedVgs,
                      job.want[vg] # NoClass, HasLogicalVolume(node, Members(node, vg))
               PROVE  vg \in ServedVgs'
    OBVIOUS
  <2>1. vg \in VGs /\ SucOf(cm)[vg] # NoClass
    BY LvmdEntriesType DEF RInv, LvmdClasses, ServedVgs, ServedOwn
  <2>2. VgExists(node, vg)
    BY DEF HasLogicalVolume, VgExists
  <2>3. job.suc[vg] # NoClass
    BY <2>1, <2>2 DEF RInv, HandledInv, Handled, JobCommit
  <2>4. SucOf(cm)' = job.suc
    BY JobCommitStep DEF RInv
  <2>5. vg \in Classes(SucOf(cm)')
    BY <2>1, <2>3, <2>4 DEF Classes
  <2>6. \E e \in LvmdEntries' : e.vg = vg
    BY <2>5 DEF RInv, SucServed, Matches
  <2> QED BY <2>6 DEF ServedVgs
<1> QED BY <1>1, RunInvariant, ServedInvariant, PTL
    DEF Spec, KeepsInUse

-----------------------------------------------------------------------------
(* lvmd.yaml.                                                              *)
LEMMA DefaultStep ==
    ASSUME NamesKeepGroups, GroupsKeepNames
    PROVE  RInv /\ AskInv /\ ServedOwn /\ DefaultInv /\ [Next]_vars => DefaultInv'
<1> SUFFICES ASSUME RInv, AskInv, ServedOwn, DefaultInv, [Next]_vars PROVE DefaultInv'
  OBVIOUS
<1>1. CASE cm' = cm
  BY <1>1 DEF DefaultInv, LvmdEntries
<1>2. CASE JobCommit
  <2>1. IInv /\ WantInv /\ job.active /\ job \in Jobs
    BY <1>2 DEF RInv, IInv, Core, TypeOK, JobCommit
  <2>2. PICK s \in NodeSpecs :
          \A vg \in VGs : /\ (job.want[vg] = NoClass) = (s.classes[vg] = NoClass)
                          /\ job.want[vg] # NoClass =>
                               /\ job.want[vg].name = s.classes[vg].name
                               /\ job.want[vg].default = IF s.all THEN TRUE ELSE s.classes[vg].default
    BY <2>1, WantOf
  <2>3. ASSUME NEW e \in LvmdEntries'
        PROVE  s.classes[e.vg] # NoClass /\ e.default = DefaultOf(s, e.vg)
    <3>1. /\ e.vg \in VGs /\ Asks(e.name, e.vg)
          /\ \/ \E vg \in job.new : e = EntryOf(job.want, vg)
             \/ \E x \in LvmdEntries : e = RefreshDefault(x, job.want)
      BY <1>2, <2>3, EntryAsks
    <3>2. job.suc[e.vg] # NoClass
      <4>1. ServedOwn' /\ SucOf(cm)' = job.suc
        BY <1>2, ServedOwnStep, JobCommitStep DEF RInv
      <4> QED BY <2>3, <4>1 DEF ServedOwn
    <3>3. job.want[e.vg] # NoClass /\ s.classes[e.vg] # NoClass
      BY <1>2, <2>1, <2>2, <3>1, <3>2, JobCommitStep
    <3>4. job.want[e.vg].name = e.name
      BY <2>2, <3>1, <3>3 DEF Asks, GroupsKeepNames, Classes
    <3>5. job.want[e.vg].default = DefaultOf(s, e.vg)
      BY <2>2, <3>1, <3>3 DEF DefaultOf
    <3>6. ASSUME NEW vg \in job.new, e = EntryOf(job.want, vg)
          PROVE  e.default = job.want[e.vg].default
      BY <3>6 DEF EntryOf
    <3>7. ASSUME NEW x \in LvmdEntries, e = RefreshDefault(x, job.want)
          PROVE  e.default = job.want[e.vg].default
      <4>1. x \in LvmdClasses
        BY <2>1, LvmdEntriesType
      <4>2. e.name = x.name
        BY <3>7, <4>1, RefreshDefaultOf
      <4>3. e.name \in ClassNamesOf(job.want)
        BY <3>1, <3>3, <3>4 DEF ClassNamesOf, Classes
      <4>4. e.default = Marked(job.want, e.name)
        BY <3>7, <4>1, <4>2, <4>3, RefreshDefaultOf
      <4>5. \A vg \in Classes(job.want) : job.want[vg].name = e.name => vg = e.vg
        <5> SUFFICES ASSUME NEW vg \in Classes(job.want), job.want[vg].name = e.name
                     PROVE  vg = e.vg
          OBVIOUS
        <5>1. vg \in Classes(s.classes) /\ e.vg \in Classes(s.classes)
          BY <2>2, <3>1, <3>3 DEF Classes
        <5>2. s.classes[vg].name = s.classes[e.vg].name
          BY <2>2, <3>1, <3>3, <3>4 DEF Classes
        <5> QED BY <5>1, <5>2 DEF NamesKeepGroups
      <4>6. job.want[e.vg] \in DeviceClasses
        BY <2>1, <3>1, <3>3 DEF Jobs, NodeDevices
      <4>7. job.want[e.vg].default \in BOOLEAN
        BY <4>6 DEF DeviceClasses
      <4> QED BY <3>1, <3>3, <3>4, <4>4, <4>5, <4>7 DEF Classes, Marked
    <3> QED BY <3>1, <3>3, <3>5, <3>6, <3>7
  <2> QED BY <2>3 DEF DefaultInv
<1> QED BY <1>1, <1>2, CmUnchanged

(* One entry per class and per volume group, at most one default.          *)
THEOREM LvmdWellFormedAlways ==
    ASSUME NamesKeepGroups, GroupsKeepNames, OneDefault
    PROVE  Spec => []LvmdWellFormed
<1>1. Init => DefaultInv
  <2> SUFFICES ASSUME Init PROVE DefaultInv
    OBVIOUS
  <2>1. spec \in NodeSpecs /\ LvmdEntries = {}
    BY PrepareVgAssumption DEF Init, LvmdEntries
  <2> QED BY <2>1 DEF DefaultInv
<1>2. RInv /\ (AskInv /\ ServedOwn) /\ DefaultInv /\ [Next]_vars => DefaultInv'
  BY DefaultStep
<1>3. RInv /\ (AskInv /\ ServedOwn) /\ DefaultInv => LvmdWellFormed
  <2> SUFFICES ASSUME RInv, AskInv, ServedOwn, DefaultInv,
                      NEW e \in LvmdEntries, NEW f \in LvmdEntries,
                      e.name = f.name \/ e.vg = f.vg \/ (e.default /\ f.default)
               PROVE  e = f
    BY DEF LvmdWellFormed
  <2>1. e \in LvmdClasses /\ f \in LvmdClasses
    BY LvmdEntriesType DEF RInv
  <2>2. /\ e.vg \in VGs /\ Asks(e.name, e.vg) /\ e.name = SucOf(cm)[e.vg].name
        /\ f.vg \in VGs /\ Asks(f.name, f.vg) /\ f.name = SucOf(cm)[f.vg].name
    BY <2>1 DEF LvmdClasses, ServedOwn, AskInv, Classes, Matches
  <2>3. PICK s \in NodeSpecs :
          /\ s.classes[e.vg] # NoClass /\ e.default = DefaultOf(s, e.vg)
          /\ s.classes[f.vg] # NoClass /\ f.default = DefaultOf(s, f.vg)
    BY DEF DefaultInv
  <2>4. e.name = f.name => e.vg = f.vg
    BY <2>2 DEF Asks, NamesKeepGroups, Classes
  <2>5. e.default /\ f.default => e.vg = f.vg
    BY <2>2, <2>3, PrepareVgAssumption DEF DefaultOf, OneDefault, Classes
  <2>6. e.vg = f.vg
    BY <2>4, <2>5
  <2> QED BY <2>1, <2>2, <2>3, <2>6 DEF LvmdClasses
<1> QED BY <1>1, <1>2, <1>3, RunInvariant, ServedInvariant, PTL DEF Spec

-----------------------------------------------------------------------------
(* Who owns the disks.  What the wrappers do to single disks, once more:   *)
(* a disk that changes hands is one of S, was in no group and had no file  *)
(* system, or was in the group at hand and had no logical volume.          *)
Moves(n1, n2, vg, S) ==
    /\ n2 \in Nodes /\ n2.busy = n1.busy
    /\ \A d \in Disks :
         \/ n2.own[d] = n1.own[d]
         \/ d \in S /\ n1.own[d] \in {Raw, Orphan} /\ n2.own[d] \in {Raw, Orphan, vg}
         \/ n1.own[d] = vg /\ d \notin n1.busy /\ n2.own[d] \in {Raw, Orphan}

LEMMA MovesNothing == ASSUME NEW n \in Nodes, NEW vg, NEW S PROVE Moves(n, n, vg, S)
BY DEF Moves

LEMMA MovesTransitive ==
    ASSUME NEW n1, NEW n2, NEW n3, NEW vg \in VGs, NEW S,
           Moves(n1, n2, vg, S), Moves(n2, n3, vg, S)
    PROVE  Moves(n1, n3, vg, S)
BY VGsAssumption DEF Moves

LEMMA MovesMore ==
    ASSUME NEW n1, NEW n2, NEW vg, NEW S, NEW T, S \subseteq T, Moves(n1, n2, vg, S)
    PROVE  Moves(n1, n2, vg, T)
BY DEF Moves

(* Releasing members without logical volumes, and taking labelable disks.  *)
LEMMA ReleaseMoves ==
    ASSUME NEW n \in Nodes, NEW vg \in VGs, NEW pvs \in SUBSET Members(n, vg),
           pvs \cap n.busy = {}, NEW S \in SUBSET pvs, NEW T
    PROVE  /\ Moves(n, Relabel(n, pvs, Raw), vg, T)
           /\ Moves(n, Relabel(n, pvs, Orphan), vg, T)
           /\ Moves(n, Relabel(Relabel(n, pvs, Orphan), S, Raw), vg, T)
<1> DEFINE reduced == Relabel(n, pvs, Orphan)
<1>1. /\ Relabel(n, pvs, Raw) \in Nodes /\ reduced \in Nodes
      /\ Relabel(n, pvs, Raw).busy = n.busy /\ reduced.busy = n.busy
  BY RelabelType, RelabelRest, LabelsOfLvm
<1>2. Relabel(reduced, S, Raw) \in Nodes /\ Relabel(reduced, S, Raw).busy = n.busy
  BY <1>1, RelabelType, RelabelRest, LabelsOfLvm
<1>3. ASSUME NEW d \in Disks
      PROVE  /\ Relabel(n, pvs, Raw).own[d] = IF d \in pvs THEN Raw ELSE n.own[d]
             /\ reduced.own[d] = IF d \in pvs THEN Orphan ELSE n.own[d]
             /\ Relabel(reduced, S, Raw).own[d] =
                  IF d \in S THEN Raw ELSE IF d \in pvs THEN Orphan ELSE n.own[d]
             /\ d \in pvs => n.own[d] = vg /\ d \notin n.busy
  BY <1>1, RelabelOwn DEF Members
<1>4. Moves(n, Relabel(n, pvs, Raw), vg, T) /\ Moves(n, reduced, vg, T)
  BY <1>1, <1>3 DEF Moves
<1> HIDE DEF reduced
<1>5. Moves(n, Relabel(reduced, S, Raw), vg, T)
  BY <1>2, <1>3 DEF Moves
<1> QED BY <1>4, <1>5 DEF reduced

LEMMA LabelMoves ==
    ASSUME NEW n \in Nodes, NEW vg \in VGs, NEW S \in SUBSET Labelable(n),
           NEW x \in {Orphan, vg}
    PROVE  Moves(n, Relabel(n, S, x), vg, S)
<1>1. Relabel(n, S, x) \in Nodes /\ Relabel(n, S, x).busy = n.busy
  BY RelabelType, RelabelRest, LabelsOfLvm
<1>2. \A d \in Disks : /\ Relabel(n, S, x).own[d] = IF d \in S THEN x ELSE n.own[d]
                       /\ d \in S => n.own[d] \in {Raw, Orphan}
  BY RelabelOwn DEF Labelable
<1> QED BY <1>1, <1>2 DEF Moves

LEMMA RemoveVolumeGroupMoves ==
    ASSUME NEW n \in Nodes, NEW vg \in VGs, NEW fault \in BOOLEAN,
           NEW o \in RemoveVolumeGroup(n, vg, fault), NEW T
    PROVE  Moves(n, o.node, vg, T)
<1> DEFINE pvs == Members(n, vg)
<1>1. \/ o = Failed(n)
      \/ /\ pvs \cap n.busy = {}
         /\ \/ o = Done(Relabel(n, pvs, Raw))
            \/ \E S \in SUBSET pvs : o = Failed(Relabel(Relabel(n, pvs, Orphan), S, Raw))
  BY DEF RemoveVolumeGroup, HasLogicalVolume
<1>2. \A S \in SUBSET pvs :
         pvs \cap n.busy = {} =>
           /\ Moves(n, Relabel(n, pvs, Raw), vg, T)
           /\ Moves(n, Relabel(Relabel(n, pvs, Orphan), S, Raw), vg, T)
  BY ReleaseMoves
<1>3. Moves(n, n, vg, T)
  BY MovesNothing
<1> QED BY <1>1, <1>2, <1>3 DEF Done, Failed

LEMMA ShrinkVolumeGroupMoves ==
    ASSUME NEW n \in Nodes, NEW vg \in VGs, NEW pvs \in SUBSET Members(n, vg),
           NEW fault \in BOOLEAN, NEW o \in ShrinkVolumeGroup(n, vg, pvs, fault), NEW T
    PROVE  Moves(n, o.node, vg, T)
<1>1. \/ o = Failed(n)
      \/ /\ pvs \cap n.busy = {}
         /\ \/ o = Done(Relabel(n, pvs, Raw))
            \/ \E S \in SUBSET pvs : o = Failed(Relabel(n, S, Orphan))
            \/ \E S \in SUBSET pvs : o = Failed(Relabel(Relabel(n, pvs, Orphan), S, Raw))
  BY DEF ShrinkVolumeGroup, HasLogicalVolume
<1>2. \A S \in SUBSET pvs :
         pvs \cap n.busy = {} => Moves(n, Relabel(n, S, Orphan), vg, T)
  BY ReleaseMoves
<1> QED BY <1>1, <1>2, ReleaseMoves, MovesNothing DEF Done, Failed

LEMMA CreateVolumeGroupMoves ==
    ASSUME NEW n \in Nodes, NEW vg \in VGs, NEW devs \in SUBSET Disks,
           NEW fault \in BOOLEAN, NEW o \in CreateVolumeGroup(n, vg, devs, fault)
    PROVE  /\ Moves(n, o.node, vg, devs)
           /\ o.ok => ~VgExists(n, vg)
<1>1. \/ /\ devs \subseteq Labelable(n) /\ ~VgExists(n, vg)
         /\ o = Done(Relabel(n, devs, vg))
      \/ \E S \in SUBSET (devs \cap Labelable(n)) : o = Failed(Relabel(n, S, Orphan))
  BY DEF CreateVolumeGroup
<1>2. \A S \in SUBSET (devs \cap Labelable(n)) : Moves(n, Relabel(n, S, Orphan), vg, devs)
  BY LabelMoves, MovesMore
<1> QED BY <1>1, <1>2, LabelMoves DEF Done, Failed

(* checkVgIfExpand takes labelable disks only, and checkVgIfShrink gives   *)
(* only members without a logical volume away.                             *)
LEMMA ExpandMoves ==
    ASSUME NEW n \in Nodes, NEW vg \in VGs, NEW c \in DeviceClasses,
           NEW suc \in ClassStates, NEW fault \in BOOLEAN,
           NEW o \in CheckVgIfExpand(n, vg, c, suc, fault)
    PROVE  Moves(n, o.node, vg, c.devs)
<1> DEFINE missing == c.devs \ PhysicalVolumes(n, vg)
           Grown(pvs) == IF pvs = {} THEN {Done(n)} ELSE ExpandVolumeGroup(n, vg, pvs, fault)
           Entry(pvs, r) ==
             [suc EXCEPT !.devs = suc.devs \cup ((missing \ pvs) \X {"Error"})
                                     \cup (IF r.ok THEN pvs \X {"Online"} ELSE {})]
<1>1. missing \in SUBSET Disks
  BY DEF DeviceClasses
<1>2. \/ \E pvs \in CreatePhysicalVolumes(n, missing, fault) :
            \E r \in Grown(pvs) : o.node = r.node
      \/ o.node = n
  <2>1. \/ \E pvs \in CreatePhysicalVolumes(n, missing, fault) :
              \E r \in Grown(pvs) : o = Outcome(r.node, Entry(pvs, r), "none")
        \/ o = Outcome(n, suc, "none")
    BY DEF CheckVgIfExpand
  <2>2. \A m, x : Outcome(m, x, "none").node = m
    BY DEF Outcome
  <2> HIDE DEF Grown, Entry, missing
  <2> QED BY <2>1, <2>2
<1>3. ASSUME NEW pvs \in CreatePhysicalVolumes(n, missing, fault), NEW r \in Grown(pvs)
      PROVE  Moves(n, r.node, vg, c.devs)
  <2>1. pvs \in SUBSET Labelable(n) /\ pvs \subseteq c.devs
    BY <1>1, CreatePhysicalVolumesType
  <2>2. r.node = n \/ r.node = Relabel(n, pvs, vg) \/ r.node = Relabel(n, pvs, Orphan)
    BY DEF ExpandVolumeGroup, Done, Failed
  <2> QED BY <2>1, <2>2, LabelMoves, MovesMore, MovesNothing
<1> HIDE DEF Grown, missing
<1> QED BY <1>2, <1>3, MovesNothing

LEMMA ShrinkMoves ==
    ASSUME NEW n \in Nodes, NEW vg \in VGs, NEW c \in DeviceClasses,
           NEW suc \in ClassStates, NEW fault \in BOOLEAN,
           NEW o \in CheckVgIfShrink(n, vg, c, suc, fault), NEW T
    PROVE  Moves(n, o.node, vg, T)
<1> DEFINE extra == PhysicalVolumes(n, vg) \ c.devs
           Left == [suc EXCEPT !.devs = {s \in suc.devs : s[1] \notin extra}]
<1>1. extra \in SUBSET Members(n, vg)
  BY DEF PhysicalVolumes
<1>2. \/ o.node = n
      \/ \E r \in RemoveVolumeGroup(n, vg, fault) : o.node = r.node
      \/ \E r \in ShrinkVolumeGroup(n, vg, extra, fault) : o.node = r.node
  <2>1. \/ o = Outcome(n, suc, "none")
        \/ \E r \in RemoveVolumeGroup(n, vg, fault) :
              o = Outcome(r.node, IF r.ok THEN NoClass ELSE suc, "none")
        \/ \E r \in ShrinkVolumeGroup(n, vg, extra, fault) :
              o = Outcome(r.node, IF r.ok THEN Left ELSE suc, "none")
    BY DEF CheckVgIfShrink
  <2>2. \A m, x : Outcome(m, x, "none").node = m
    BY DEF Outcome
  <2> HIDE DEF Left, extra
  <2> QED BY <2>1, <2>2
<1> HIDE DEF extra
<1> QED BY <1>1, <1>2, RemoveVolumeGroupMoves, ShrinkVolumeGroupMoves, MovesNothing

(* A step on one class changes its group only if the class has an entry or *)
(* gets one, and then the group is new.                                    *)
LEMMA ClassOutcomesMoves ==
    ASSUME NEW n \in Nodes, NEW j \in Jobs, NEW vg \in VGs, j.want[vg] # NoClass,
           NEW fault \in BOOLEAN, NEW o \in ClassOutcomes(n, j, vg, fault)
    PROVE  /\ Moves(n, o.node, vg, j.want[vg].devs)
           /\ j.suc[vg] = NoClass /\ o.suc = NoClass => Same(n, o.node)
           /\ j.suc[vg] = NoClass /\ o.suc # NoClass
                => ~VgExists(n, vg) /\ VgExists(o.node, vg)
<1>1. /\ j.want[vg] \in DeviceClasses /\ j.want[vg].devs \in SUBSET Disks
      /\ j.suc[vg] \in ClassStates \cup {NoClass} /\ j.avail \in SUBSET Disks
  BY DEF Jobs, NodeDevices, DeviceClasses
<1>2. CASE o = Outcome(n, NoClass, "existing")
  BY <1>2, MovesNothing DEF Outcome, Same
<1>3. CASE j.suc[vg] # NoClass /\ o \in Adjust(n, vg, j.want[vg], j.suc[vg], fault)
  <2>1. PICK e \in CheckVgIfExpand(n, vg, j.want[vg], j.suc[vg], fault) :
               o \in CheckVgIfShrink(e.node, vg, j.want[vg], e.suc, fault)
    BY <1>3 DEF Adjust
  <2>2. e.node \in Nodes /\ e.suc \in ClassStates
    BY <1>1, <1>3, ExpandStep DEF ClassStep, Outcomes
  <2>3. /\ Moves(n, e.node, vg, j.want[vg].devs)
        /\ Moves(e.node, o.node, vg, j.want[vg].devs)
    BY <1>1, <1>3, <2>1, <2>2, ExpandMoves, ShrinkMoves
  <2> QED BY <1>3, <2>3, MovesTransitive
<1>4. CASE /\ j.suc[vg] = NoClass
           /\ o \in CreateVg(n, vg, j.want[vg], j.avail, fault)
                      \cup CreateVgRetry(n, vg, j.want[vg], j.avail, fault)
  <2>1. \/ o = Outcome(n, NoClass, "failed")
        \/ \E r \in CreateVolumeGroup(n, vg, j.want[vg].devs, fault) :
             \/ r.ok /\ \E suc \in ClassStates : o = Outcome(r.node, suc, "none")
             \/ ~r.ok /\ o = Outcome(r.node, NoClass, "failed")
    <3>1. /\ ReadyClass(j.want[vg], j.want[vg].devs \X {"Online"}) \in ClassStates
          /\ ReadyClass(j.want[vg], {}) \in ClassStates
      BY <1>1, ReadyClassType
    <3> QED BY <1>4, <3>1 DEF CreateVg, CreateVgRetry
  <2>2. CASE o = Outcome(n, NoClass, "failed")
    BY <2>2, MovesNothing DEF Outcome, Same
  <2>3. ASSUME NEW r \in CreateVolumeGroup(n, vg, j.want[vg].devs, fault),
               r.ok, NEW suc \in ClassStates, o = Outcome(r.node, suc, "none")
        PROVE  Moves(n, o.node, vg, j.want[vg].devs) /\ o.suc # NoClass
                 /\ ~VgExists(n, vg) /\ VgExists(o.node, vg)
    <3>1. o.node = r.node /\ o.suc = suc
      BY <2>3 DEF Outcome
    <3> QED BY <1>1, <2>3, <3>1, CreateVolumeGroupMoves, CreateVolumeGroupEffect, AbsentAssumption
  <2>4. ASSUME NEW r \in CreateVolumeGroup(n, vg, j.want[vg].devs, fault),
               ~r.ok, o = Outcome(r.node, NoClass, "failed")
        PROVE  Moves(n, o.node, vg, j.want[vg].devs) /\ o.suc = NoClass /\ Same(n, o.node)
    <3>1. o.node = r.node /\ o.suc = NoClass
      BY <2>4 DEF Outcome
    <3> QED BY <1>1, <2>4, <3>1, CreateVolumeGroupMoves, CreateVolumeGroupEffect
  <2> QED BY <1>4, <2>1, <2>2, <2>3, <2>4
<1> QED BY <1>2, <1>3, <1>4 DEF ClassOutcomes

(* What the refinement needs to know: logical volumes are in groups, those *)
(* served are ours, and while a run works nobody else writes lvmd.yaml or  *)
(* touches the groups it has created.                                      *)
BusyOwned == \A d \in node.busy : node.own[d] \in VGs

Offered ==
    /\ BusyOwned
    /\ ServedVgs \subseteq made
    /\ job.active =>
         /\ job.base # NoCm => cm # NoCm
         /\ LvmdOf(job.base) = LvmdOf(cm)
         /\ \A vg \in job.new : VgExists(node, vg)

LEMMA ServedUnchanged == cm' = cm => ServedVgs' = ServedVgs /\ LvmdOf(cm)' = LvmdOf(cm)
BY DEF ServedVgs, LvmdEntries, LvmdOf

(* Disks that change hands are not occupied and in no other group.         *)
LEMMA MovesMapped ==
    ASSUME Core, BusyOwned, NEW vg \in VGs, NEW T, Moves(node, node', vg, T)
    PROVE  /\ Occupied(node)' = Occupied(node)
           /\ BusyOwned'
           /\ Members(node', vg) \cap Occupied(node) = Members(node, vg) \cap Occupied(node)
           /\ \A w \in VGs \ {vg} : /\ Members(node', w) = Members(node, w)
                                    /\ Members(node, w) \cap Members(node', vg) = {}
<1>1. node \in Nodes /\ node' \in Nodes /\ node'.busy = node.busy
  BY DEF Core, TypeOK, Moves
<1>2. ASSUME NEW d \in Disks
      PROVE  /\ node'.own[d] = Used <=> node.own[d] = Used
             /\ d \in Occupied(node) => node'.own[d] = node.own[d]
             /\ \A w \in VGs \ {vg} : node'.own[d] = w <=> node.own[d] = w
  BY VGsAssumption DEF Core, TypeOK, Moves, BusyOwned, Occupied, Used, Raw, Orphan
<1>3. Occupied(node)' = Occupied(node)
  BY <1>1, <1>2 DEF Occupied
<1>4. BusyOwned'
  BY <1>1, <1>2 DEF BusyOwned, Occupied, Nodes
<1>5. Members(node', vg) \cap Occupied(node) = Members(node, vg) \cap Occupied(node)
  BY <1>2 DEF Members
<1>6. \A w \in VGs \ {vg} : Members(node', w) = Members(node, w)
  BY <1>2 DEF Members
<1>7. \A w \in VGs \ {vg} : Members(node', w) \cap Members(node', vg) = {}
  BY DEF Members
<1> QED BY <1>3, <1>4, <1>5, <1>6, <1>7

(* The variables of OwnedGroups stay as they are.                          *)
LEMMA GroupsUnchanged ==
    ASSUME Same(node, node'), Occupied(node)' = Occupied(node), made' = made, cm' = cm
    PROVE  UNCHANGED Owned!groups
<1>1. [vg \in VGs |-> Members(node, vg)]' = [vg \in VGs |-> Members(node, vg)]
  BY DEF Same
<1> QED BY <1>1, ServedUnchanged DEF Owned!groups

(* A step of the job on one volume group.                                  *)
LEMMA MovesStep ==
    ASSUME Core, Offered, NEW vg \in VGs, NEW T, Moves(node, node', vg, T), cm' = cm,
           \/ Same(node, node') /\ made' = made
           \/ vg \in made /\ made' = made
           \/ ~VgExists(node, vg) /\ VgExists(node', vg) /\ made' = made \cup {vg}
    PROVE  [Owned!Next]_(Owned!groups) /\ BusyOwned' /\ ServedVgs' \subseteq made'
<1> DEFINE G == [w \in VGs |-> Members(node, w)]
           S == Members(node', vg)
<1>1. /\ Occupied(node)' = Occupied(node) /\ BusyOwned'
      /\ S \cap Occupied(node) = G[vg] \cap Occupied(node)
      /\ \A w \in VGs \ {vg} : Members(node', w) = G[w] /\ G[w] \cap S = {}
  BY MovesMapped DEF Offered
<1>2. ServedVgs' = ServedVgs /\ S \in SUBSET Disks
  BY ServedUnchanged DEF Members
<1>3. [w \in VGs |-> Members(node', w)] = [G EXCEPT ![vg] = S]
  BY <1>1
<1>4. Owned!Apart(vg, S)
  BY <1>1 DEF Owned!Apart
<1>5. CASE Same(node, node') /\ made' = made
  BY <1>1, <1>2, <1>5, GroupsUnchanged DEF Offered
<1>6. CASE vg \in made /\ made' = made
  <2>1. Owned!Resize(vg, S)
    BY <1>1, <1>2, <1>3, <1>4, <1>6 DEF Owned!Resize
  <2> HIDE DEF S
  <2> QED BY <1>1, <1>2, <1>6, <2>1 DEF Owned!Next, Offered
<1>7. CASE ~VgExists(node, vg) /\ VgExists(node', vg) /\ made' = made \cup {vg}
  <2>1. G[vg] = {} /\ S # {}
    BY <1>7 DEF VgExists
  <2>2. Owned!Create(vg, S)
    BY <1>1, <1>2, <1>3, <1>4, <1>7, <2>1 DEF Owned!Create
  <2> HIDE DEF S
  <2> QED BY <1>1, <1>2, <1>7, <2>2 DEF Owned!Next, Offered
<1> QED BY <1>5, <1>6, <1>7

LEMMA ProvisionClassGroups ==
    ASSUME Core, Offered, NEW vg \in VGs, ProvisionClass(vg)
    PROVE  [Owned!Next]_(Owned!groups) /\ Offered'
<1>1. /\ job \in Jobs /\ node \in Nodes /\ job.active /\ vg \in job.todo
      /\ job.want[vg] # NoClass /\ vg \notin job.new /\ cm' = cm
      /\ job.suc[vg] # NoClass => vg \in made
  BY DEF Core, TypeOK, RunSound, SoundClasses, ProvisionClass, Classes
<1>2. PICK fault, o :
        /\ fault \in BOOLEAN /\ o \in ClassOutcomes(node, job, vg, fault)
        /\ node' = o.node
        /\ job' = [job EXCEPT
                     !.suc  = [job.suc EXCEPT ![vg] = o.suc],
                     !.fail = [job.fail EXCEPT ![vg] = o.fail],
                     !.new  = IF job.suc[vg] = NoClass /\ o.suc # NoClass
                              THEN job.new \cup {vg} ELSE job.new,
                     !.todo = job.todo \ {vg}]
        /\ made' = IF job.suc[vg] = NoClass /\ o.suc # NoClass
                   THEN made \cup {vg} ELSE made
  BY DEF ProvisionClass
<1>3. /\ Moves(node, node', vg, job.want[vg].devs)
      /\ job.suc[vg] = NoClass /\ o.suc = NoClass => Same(node, node')
      /\ job.suc[vg] = NoClass /\ o.suc # NoClass
           => ~VgExists(node, vg) /\ VgExists(node', vg)
  BY <1>1, <1>2, ClassOutcomesMoves
<1>4. [Owned!Next]_(Owned!groups) /\ BusyOwned' /\ ServedVgs' \subseteq made'
  BY <1>1, <1>2, <1>3, MovesStep
<1>5. /\ job'.base = job.base
      /\ job'.new = IF job.suc[vg] = NoClass /\ o.suc # NoClass
                    THEN job.new \cup {vg} ELSE job.new
  BY <1>1, <1>2 DEF Jobs
<1>6. \A w \in job.new : VgExists(node', w)
  BY <1>1, <1>3, MovesMapped DEF Offered, VgExists, Jobs
<1>7. \A w \in job'.new : VgExists(node', w)
  BY <1>3, <1>5, <1>6
<1> QED BY <1>1, <1>4, <1>5, <1>7, ServedUnchanged DEF Offered

LEMMA DropClassGroups ==
    ASSUME Core, Offered, NEW vg \in VGs, DropClass(vg)
    PROVE  [Owned!Next]_(Owned!groups) /\ Offered'
<1>1. job \in Jobs /\ node \in Nodes /\ job.active /\ vg \in made
      /\ vg \notin job.new /\ cm' = cm /\ made' = made
  BY DEF Core, TypeOK, RunSound, SoundClasses, DropClass, Unwanted, Classes
<1>2. PICK fault, o :
        /\ fault \in BOOLEAN /\ o \in RemoveVolumeGroup(node, vg, fault)
        /\ node' = o.node
        /\ job' = [job EXCEPT !.suc = [job.suc EXCEPT ![vg] = NoClass]]
  BY DEF DropClass
<1>3. Moves(node, node', vg, {})
  BY <1>1, <1>2, RemoveVolumeGroupMoves
<1>4. [Owned!Next]_(Owned!groups) /\ BusyOwned' /\ ServedVgs' \subseteq made'
  BY <1>1, <1>3, MovesStep
<1>5. job'.base = job.base /\ job'.new = job.new
  BY <1>1, <1>2 DEF Jobs
<1>6. \A w \in job.new : VgExists(node', w)
  BY <1>1, <1>3, MovesMapped DEF Offered, VgExists, Jobs
<1> QED BY <1>1, <1>4, <1>5, <1>6, ServedUnchanged DEF Offered

(* A run that dies has done what one more step of it does, or less.        *)
LEMMA JobDieGroups ==
    ASSUME Core, Offered, JobDie
    PROVE  [Owned!Next]_(Owned!groups) /\ Offered'
<1> DEFINE fresh == {vg \in VGs : VgExists(node', vg) /\ ~VgExists(node, vg)}
<1>1. /\ job \in Jobs /\ node \in Nodes /\ job.active /\ ~job'.active /\ cm' = cm
      /\ node' \in Interrupted /\ made' = made \cup fresh
  BY DEF Core, TypeOK, JobDie, IdleJob
<1>2. job.todo \subseteq Classes(job.want) /\ Classes(job.suc) \subseteq made
  BY <1>1 DEF Core, RunSound, SoundClasses
<1>3. ASSUME NEW vg \in VGs, NEW T, Moves(node, node', vg, T),
             \/ Same(node, node')
             \/ vg \in made
             \/ ~VgExists(node, vg) /\ VgExists(node', vg)
      PROVE  [Owned!Next]_(Owned!groups) /\ BusyOwned' /\ ServedVgs' \subseteq made'
  <2>1. \A w \in VGs \ {vg} : w \notin fresh
    BY <1>3, MovesMapped DEF Offered, VgExists
  <2>2. CASE Same(node, node')
    <3>1. made' = made
      BY <1>1, <2>2 DEF Same, VgExists
    <3> QED BY <1>1, <1>3, <2>2, <3>1, MovesStep
  <2>3. CASE vg \in made
    <3>1. made' = made
      BY <1>1, <2>1, <2>3
    <3> QED BY <1>1, <1>3, <2>3, <3>1, MovesStep
  <2>4. CASE ~VgExists(node, vg) /\ VgExists(node', vg)
    <3>1. made' = made \cup {vg}
      BY <1>1, <2>1, <2>4
    <3> QED BY <1>1, <1>3, <2>4, <3>1, MovesStep
  <2> QED BY <1>3, <2>2, <2>3, <2>4
<1> HIDE DEF fresh
<1>4. CASE node' = node
  <2>1. made' = made
    BY <1>1, <1>4 DEF fresh
  <2>2. Occupied(node)' = Occupied(node) /\ Same(node, node')
    BY <1>1, <1>4 DEF Same, Occupied
  <2> QED BY <1>1, <1>4, <2>1, <2>2, GroupsUnchanged, ServedUnchanged DEF Offered, BusyOwned
<1>5. ASSUME NEW vg \in job.todo, NEW o \in ClassOutcomes(node, job, vg, TRUE), node' = o.node
      PROVE  [Owned!Next]_(Owned!groups) /\ BusyOwned' /\ ServedVgs' \subseteq made'
  <2>1. vg \in VGs /\ job.want[vg] # NoClass
    BY <1>1, <1>2 DEF Jobs, Classes
  <2>2. /\ Moves(node, node', vg, job.want[vg].devs)
        /\ job.suc[vg] = NoClass /\ o.suc = NoClass => Same(node, node')
        /\ job.suc[vg] = NoClass /\ o.suc # NoClass
             => ~VgExists(node, vg) /\ VgExists(node', vg)
    BY <1>1, <1>5, <2>1, ClassOutcomesMoves
  <2>3. job.suc[vg] # NoClass => vg \in made
    BY <1>2, <2>1 DEF Classes
  <2> QED BY <1>3, <2>1, <2>2, <2>3
<1>6. ASSUME NEW vg \in Unwanted(job), NEW o \in RemoveVolumeGroup(node, vg, TRUE),
             node' = o.node
      PROVE  [Owned!Next]_(Owned!groups) /\ BusyOwned' /\ ServedVgs' \subseteq made'
  <2>1. vg \in VGs /\ vg \in made
    BY <1>2 DEF Unwanted, Classes
  <2>2. Moves(node, node', vg, {})
    BY <1>1, <1>6, <2>1, RemoveVolumeGroupMoves
  <2> QED BY <1>3, <2>1, <2>2
<1>7. \/ node' = node
      \/ \E vg \in job.todo : \E o \in ClassOutcomes(node, job, vg, TRUE) : node' = o.node
      \/ \E vg \in Unwanted(job) : \E o \in RemoveVolumeGroup(node, vg, TRUE) : node' = o.node
  BY <1>1 DEF Interrupted
<1>8. [Owned!Next]_(Owned!groups) /\ BusyOwned' /\ ServedVgs' \subseteq made'
  BY <1>4, <1>5, <1>6, <1>7 DEF Offered
<1> QED BY <1>1, <1>8 DEF Offered

(* The file a run writes offers what the one it read has offered, or what  *)
(* it has created itself.                                                  *)
LEMMA NewServed ==
    ASSUME NEW j \in Jobs, NEW old \in LvmdConfs \cup {NoData},
           NEW new \in {CreateLvmdConf(j, old), UpdateLvmdConf(j, old)}, new # NoData,
           NEW e \in new.classes
    PROVE  (old # NoData /\ \E x \in old.classes : x.vg = e.vg) \/ e.vg \in j.new
<1>1. \A vg : EntryOf(j.want, vg).vg = vg
  BY DEF EntryOf
<1>2. ASSUME NEW x \in LvmdClasses PROVE RefreshDefault(x, j.want).vg = x.vg
  BY RefreshDefaultOf
<1>3. \/ old # NoData /\ e \in old.classes
      \/ \E vg \in j.new : e = EntryOf(j.want, vg)
      \/ old # NoData /\ \E x \in old.classes : e = RefreshDefault(x, j.want)
  BY DEF CreateLvmdConf, UpdateLvmdConf
<1>4. old # NoData => old.classes \subseteq LvmdClasses
  BY DEF LvmdConfs
<1> QED BY <1>1, <1>2, <1>3, <1>4

LEMMA CommitServed ==
    ASSUME Core, Offered, JobCommit
    PROVE  cm' # NoCm /\ ServedVgs' \subseteq ServedVgs \cup job.new
<1> DEFINE new == NewCm(job)
           lvmd == IF job.known THEN UpdateLvmdConf(job, LvmdOf(job.base))
                   ELSE CreateLvmdConf(job, LvmdOf(job.base))
<1>1. /\ job \in Jobs /\ job.active /\ cm \in ConfigMaps \cup {NoCm}
      /\ job.base \in ConfigMaps \cup {NoCm}
      /\ job.base # NoCm => cm # NoCm
      /\ LvmdOf(job.base) = LvmdOf(cm)
  BY DEF Core, TypeOK, Offered, JobCommit, Jobs
<1>2. new.lvmd = lvmd
  BY <1>1, NewCmOf
<1>3. cm' # NoCm
  BY <1>1, JobCommitCore
<1> HIDE DEF new
<1>4. \A old, m : /\ PatchConfigMap(old, new, m).lvmd = Merged(old.lvmd, new.lvmd, m.lvmd)
                  /\ [PatchConfigMap(old, new, m) EXCEPT !.status = NewStatus(job)].lvmd
                       = Merged(old.lvmd, new.lvmd, m.lvmd)
  BY DEF PatchConfigMap
<1>5. cm'.lvmd = lvmd
  <2>1. CASE job.base = NoCm
    <3>1. cm' = IF cm = NoCm THEN new ELSE PatchConfigMap(cm, new, cm)
      BY <2>1 DEF JobCommit, CreateOrPatchConfigmap, new
    <3> QED BY <1>2, <1>4, <3>1 DEF Merged
  <2>2. CASE job.base # NoCm
    <3>1. \/ cm' = PatchConfigMap(job.base, new, cm)
          \/ cm' = [PatchConfigMap(job.base, new, cm) EXCEPT !.status = NewStatus(job)]
      BY <2>2 DEF JobCommit, new
    <3>2. job.base.lvmd = cm.lvmd
      BY <1>1, <2>2 DEF LvmdOf
    <3>3. cm'.lvmd = Merged(job.base.lvmd, new.lvmd, cm.lvmd)
      BY <1>4, <3>1
    <3> QED BY <1>2, <3>2, <3>3 DEF Merged
  <2> QED BY <2>1, <2>2
<1>6. lvmd \in {CreateLvmdConf(job, LvmdOf(cm)), UpdateLvmdConf(job, LvmdOf(cm))}
  BY <1>1
<1>7. LvmdOf(cm) \in LvmdConfs \cup {NoData}
  BY <1>1 DEF LvmdOf, ConfigMaps
<1> HIDE DEF lvmd
<1>8. ASSUME NEW e \in LvmdEntries'
      PROVE  e.vg \in ServedVgs \cup job.new
  <2>1. lvmd # NoData /\ e \in lvmd.classes
    BY <1>3, <1>5 DEF LvmdEntries
  <2>2. \/ LvmdOf(cm) # NoData /\ \E x \in LvmdOf(cm).classes : x.vg = e.vg
        \/ e.vg \in job.new
    BY <1>1, <1>6, <1>7, <2>1, NewServed
  <2> QED BY <2>2 DEF ServedVgs, LvmdEntries, LvmdOf
<1> QED BY <1>3, <1>8 DEF ServedVgs

LEMMA JobCommitGroups ==
    ASSUME Core, Offered, JobCommit
    PROVE  [Owned!Next]_(Owned!groups) /\ Offered'
<1>1. /\ job.active /\ job' = IdleJob /\ UNCHANGED <<node, made>>
      /\ made \subseteq VGs
  BY DEF JobCommit, Core, TypeOK
<1>2. ServedVgs' \subseteq ServedVgs \cup job.new
  BY CommitServed
<1>3. job.new \subseteq made /\ job.new \subseteq VGs
  BY <1>1 DEF Core, TypeOK, Jobs, RunSound, SoundClasses, Classes
<1>4. \A vg \in ServedVgs' \ ServedVgs : Members(node, vg) # {}
  BY <1>1, <1>2 DEF Offered, VgExists
<1>5. ServedVgs' \subseteq made
  BY <1>2, <1>3 DEF Offered
<1>6. Owned!Offer(ServedVgs')
  BY <1>1, <1>4, <1>5 DEF Owned!Offer, Occupied
<1>7. Owned!Next
  BY <1>1, <1>5, <1>6 DEF Owned!Next
<1>8. Offered'
  BY <1>1, <1>5 DEF Offered, BusyOwned, IdleJob
<1> QED BY <1>7, <1>8

LEMMA JobStartGroups ==
    ASSUME Core, Offered, JobStart
    PROVE  [Owned!Next]_(Owned!groups) /\ Offered'
<1>1. /\ UNCHANGED <<node, made, cm>>
      /\ job'.base = cm /\ job'.new = {}
  BY DEF JobStart
<1>2. Same(node, node') /\ Occupied(node)' = Occupied(node)
  BY <1>1 DEF Same, Occupied, Core, TypeOK
<1> QED BY <1>1, <1>2, GroupsUnchanged, ServedUnchanged DEF Offered, BusyOwned

(* Around the job, data comes and goes.                                    *)
LEMMA EnvGroups ==
    ASSUME Core, Offered, EnvNext
    PROVE  [Owned!Next]_(Owned!groups) /\ Offered'
<1>1. UNCHANGED <<cm, job, made>> /\ node \in Nodes
  BY DEF EnvNext, EditSpec, CreateLv, DeleteLv, Unplug, Plug, Wipe, Core, TypeOK
<1>2. ServedVgs' = ServedVgs /\ LvmdOf(cm)' = LvmdOf(cm)
  BY <1>1, ServedUnchanged
<1>3. /\ [Owned!Next]_(Owned!groups) /\ BusyOwned' /\ Same(node, node')
  <2>1. CASE EditSpec \/ \E d \in Disks : Unplug(d) \/ Plug(d)
    <3>1. /\ node' \in Nodes /\ node'.own = node.own /\ node'.busy = node.busy
      BY <1>1, <2>1 DEF EditSpec, Unplug, Plug, Nodes
    <3>2. Same(node, node') /\ Occupied(node)' = Occupied(node)
      BY <3>1 DEF Same, Members, Occupied
    <3> QED BY <1>1, <3>1, <3>2, GroupsUnchanged DEF Offered, BusyOwned
  <2>2. ASSUME NEW d \in Disks, CreateLv(d)
        PROVE  Owned!Fill(d) /\ BusyOwned' /\ Same(node, node')
    <3>1. /\ node' = [node EXCEPT !.busy = node.busy \cup {d}]
          /\ node.own[d] \in ServedVgs /\ node.own[d] \in VGs
      BY <2>2 DEF CreateLv, Offered, Core, TypeOK
    <3>2. /\ node' \in Nodes /\ node'.own = node.own /\ node'.busy = node.busy \cup {d}
      BY <1>1, <3>1 DEF Nodes
    <3>3. BusyOwned' /\ Same(node, node') /\ Occupied(node)' = Occupied(node) \cup {d}
      BY <3>1, <3>2 DEF Offered, BusyOwned, Same, Members, Occupied
    <3>4. d \in Members(node, node.own[d])
      BY DEF Members
    <3> QED BY <1>1, <1>2, <3>1, <3>3, <3>4 DEF Owned!Fill, Same
  <2>3. ASSUME NEW d \in Disks, DeleteLv(d) \/ Wipe(d)
        PROVE  Owned!Clear(d) /\ BusyOwned' /\ Same(node, node')
    <3>1. CASE DeleteLv(d)
      <4>1. /\ node' = [node EXCEPT !.busy = node.busy \ {d}]
            /\ node.own[d] \in VGs
        BY <3>1 DEF DeleteLv, Offered, BusyOwned
      <4>2. /\ node' \in Nodes /\ node'.own = node.own /\ node'.busy = node.busy \ {d}
        BY <1>1, <4>1 DEF Nodes
      <4>3. BusyOwned' /\ Same(node, node') /\ Occupied(node)' = Occupied(node) \ {d}
        BY <4>1, <4>2, VGsAssumption DEF Offered, BusyOwned, Same, Members, Occupied
      <4> QED BY <1>1, <1>2, <4>3 DEF Owned!Clear, Same
    <3>2. CASE Wipe(d)
      <4>1. node' = Relabel(node, {d}, Raw) /\ node.own[d] = Used
        BY <3>2 DEF Wipe
      <4>2. d \notin node.busy
        BY <4>1, VGsAssumption DEF Offered, BusyOwned
      <4>3. /\ node' \in Nodes /\ node'.busy = node.busy
            /\ \A x \in Disks : node'.own[x] = IF x = d THEN Raw ELSE node.own[x]
        BY <1>1, <4>1, RelabelType, RelabelRest, RelabelOwn, LabelsOfLvm
      <4>4. \A w \in VGs : {d} \cap Members(node, w) = {}
        BY <4>1, VGsAssumption DEF Members
      <4>5. Same(node, node')
        BY <1>1, <4>1, <4>3, <4>4, RelabelMembers, LabelsOfLvm, VGsAssumption DEF Same
      <4>6. Occupied(node)' = Occupied(node) \ {d}
        BY <4>1, <4>2, <4>3 DEF Occupied, Raw, Used
      <4>7. BusyOwned'
        BY <4>2, <4>3, <1>1 DEF Offered, BusyOwned, Nodes
      <4> QED BY <1>1, <1>2, <4>5, <4>6, <4>7 DEF Owned!Clear, Same
    <3> QED BY <2>3, <3>1, <3>2
  <2> QED BY <2>1, <2>2, <2>3 DEF EnvNext, Owned!Next
<1>4. \A vg \in VGs : VgExists(node, vg) => VgExists(node', vg)
  BY <1>3 DEF Same, VgExists
<1> QED BY <1>1, <1>2, <1>3, <1>4 DEF Offered, Core, TypeOK, Jobs

(* Every step, whatever the daemon has done to the ConfigMap in between    *)
(* (NodeStorageProofs).                                                    *)
LEMMA GroupsStep ==
    ASSUME Core, Offered, [Next]_vars
    PROVE  [Owned!Next]_(Owned!groups) /\ Offered'
<1>1. CASE UNCHANGED vars
  <2>1. UNCHANGED <<node, cm, job, made>>
    BY <1>1 DEF vars
  <2>2. Same(node, node') /\ Occupied(node)' = Occupied(node)
    BY <2>1 DEF Same, Occupied, Core, TypeOK
  <2> QED BY <2>1, <2>2, GroupsUnchanged, ServedUnchanged DEF Offered, BusyOwned
<1> QED BY <1>1, JobStartGroups, ProvisionClassGroups, DropClassGroups, JobCommitGroups,
           JobDieGroups, EnvGroups DEF Next, JobNext

LEMMA InitGroups == Init => Owned!Init /\ Offered
<1> SUFFICES ASSUME Init PROVE Owned!Init /\ Offered
  OBVIOUS
<1>1. node \in Nodes /\ BusyOwned
  BY PrepareVgAssumption DEF Init, BusyOwned
<1>2. ServedVgs = {}
  <2>1. LvmdOf(cm) = NoData
    BY PrepareVgAssumption DEF Init, LvmdOf
  <2> QED BY <2>1 DEF ServedVgs, LvmdEntries, LvmdOf
<1>3. [vg \in VGs |-> Members(node, vg)] \in [VGs -> SUBSET Disks]
  BY DEF Members
<1>4. Occupied(node) \in SUBSET Disks
  BY <1>1 DEF Occupied, Nodes
<1>5. made = {} /\ ~job.active
  BY DEF Init, IdleJob
<1> QED BY <1>1, <1>2, <1>3, <1>4, <1>5 DEF Owned!Init, Offered

(* The job keeps the promise of OwnedGroups to those who have data on the  *)
(* disks of the node: every step is one of its steps, or changes neither a *)
(* volume group, nor where there is data, nor what is served.              *)
THEOREM ImplementsOwnedGroups == Spec => GroupsAreOurs
<1>1. Init => Owned!Init /\ Offered
  BY InitGroups
<1>2. IInv /\ Offered /\ [Next]_vars => [Owned!Next]_(Owned!groups) /\ Offered'
  BY GroupsStep DEF IInv
<1>3. Spec => []Offered
  BY <1>1, <1>2, InductiveInvariant, PTL DEF Spec
<1> QED BY <1>1, <1>2, <1>3, InductiveInvariant, PTL DEF Spec, GroupsAreOurs, Owned!Spec

-----------------------------------------------------------------------------
(* Labelled disks.  What a run found available stays free for the classes  *)
(* it has not handled: only classes with other disks have been labelled.   *)
AvailInv ==
    job.active => \A vg \in job.todo : \A d \in job.want[vg].devs \cap job.avail :
                      d \in Disks /\ node.own[d] \in {Raw, Orphan}

(* Disjoint classes of a run have disjoint devices.                        *)
LEMMA WantDisjoint ==
    ASSUME DisjointDevices, IInv, WantInv, job.active,
           NEW v \in Classes(job.want), NEW w \in Classes(job.want), v # w
    PROVE  job.want[v].devs \cap job.want[w].devs = {}
<1>1. PICK s \in NodeSpecs :
        \A vg \in VGs : /\ (job.want[vg] = NoClass) = (s.classes[vg] = NoClass)
                        /\ job.want[vg] # NoClass =>
                             (~s.all => job.want[vg].devs = s.classes[vg].devs)
  BY WantOf
<1>2. v \in Classes(s.classes) /\ w \in Classes(s.classes)
  BY <1>1 DEF Classes
<1>3. ~s.all
  BY <1>2, PrepareVgAssumption
<1> QED BY <1>1, <1>2, <1>3 DEF DisjointDevices, Classes

LEMMA AvailStep ==
    ASSUME DisjointDevices
    PROVE  RInv /\ AvailInv /\ [Next]_vars => AvailInv'
<1> SUFFICES ASSUME RInv, AvailInv, [Next]_vars PROVE AvailInv'
  OBVIOUS
<1>1. IInv /\ HandledInv /\ WantInv
  BY DEF RInv
<1>2. CASE JobStart
  BY <1>2 DEF JobStart, AvailInv, AvailableDevices
<1>3. ASSUME NEW vg \in VGs, ProvisionClass(vg) PROVE AvailInv'
  <2>1. PICK fault \in BOOLEAN, o \in Outcomes : StepOn(vg, fault, o)
    BY <1>1, <1>3, ProvisionClassStep
  <2>2. /\ job.active /\ vg \in job.todo /\ job'.want = job.want /\ job'.avail = job.avail
        /\ job.todo \subseteq Classes(job.want)
    BY <1>1, <1>3, ProvisionClassFrame DEF IInv, Core, RunSound, JobInv
  <2>3. LabelsOnly(node, node', job.want[vg].devs) /\ job'.todo = job.todo \ {vg}
    BY <2>1 DEF StepOn, Fate
  <2>4. ASSUME NEW w \in job'.todo, NEW d \in job.want[w].devs \cap job.avail
        PROVE  d \in Disks /\ node'.own[d] \in {Raw, Orphan}
    <3>1. w \in Classes(job.want) /\ w # vg /\ vg \in Classes(job.want) /\ w \in job.todo
      BY <2>2, <2>3, <2>4
    <3>2. d \notin job.want[vg].devs
      BY <1>1, <2>2, <2>4, <3>1, WantDisjoint
    <3>3. d \in Disks /\ node.own[d] \in {Raw, Orphan}
      BY <2>2, <2>4, <3>1 DEF AvailInv
    <3> QED BY <2>3, <3>2, <3>3 DEF LabelsOnly
  <2> QED BY <2>2, <2>4 DEF AvailInv
<1>4. ASSUME NEW vg \in VGs, DropClass(vg) PROVE AvailInv'
  BY <1>1, <1>4, DropClassStep DEF AvailInv
<1>5. CASE JobCommit \/ JobDie
  BY <1>5 DEF JobCommit, JobDie, AvailInv, IdleJob
<1>6. CASE EnvNext
  <2>1. job' = job /\ LabelsOnly(node, node', {})
    BY <1>1, <1>6, EnvStep
  <2> QED BY <2>1 DEF AvailInv, LabelsOnly
<1>7. CASE UNCHANGED vars
  BY <1>7 DEF vars, AvailInv
<1> QED BY <1>2, <1>3, <1>4, <1>5, <1>6, <1>7 DEF Next, JobNext

(* What a step on a class may lose: disks listed for it, and members.      *)
Losses(n1, n2) == {d \in Disks : n1.own[d] # Orphan /\ n2.own[d] = Orphan}

LEMMA MovesLosses ==
    ASSUME NEW n1, NEW n2, NEW vg \in VGs, NEW S, Moves(n1, n2, vg, S)
    PROVE  Losses(n1, n2) \subseteq Members(n1, vg) \cup S
BY DEF Moves, Losses, Members

(* A run that dies in a step loses what the step may lose.                 *)
LEMMA JobDieLosses ==
    ASSUME Core, JobDie
    PROVE  \/ Losses(node, node') = {}
           \/ \E vg \in VGs : Losses(node, node') \subseteq DisksOf(vg)
<1>1. /\ job \in Jobs /\ node \in Nodes /\ job.active
      /\ node' \in Interrupted /\ job.todo \subseteq Classes(job.want)
  BY DEF Core, TypeOK, RunSound, JobDie
<1>2. CASE node' = node
  BY <1>2 DEF Losses
<1>3. ASSUME NEW vg \in job.todo, NEW o \in ClassOutcomes(node, job, vg, TRUE), node' = o.node
      PROVE  \E w \in VGs : Losses(node, node') \subseteq DisksOf(w)
  <2>1. vg \in VGs /\ job.want[vg] # NoClass
    BY <1>1 DEF Jobs, Classes
  <2>2. Moves(node, node', vg, job.want[vg].devs)
    BY <1>1, <1>3, <2>1, ClassOutcomesMoves
  <2> QED BY <2>1, <2>2, MovesLosses DEF DisksOf
<1>4. ASSUME NEW vg \in Unwanted(job), NEW o \in RemoveVolumeGroup(node, vg, TRUE),
             node' = o.node
      PROVE  \E w \in VGs : Losses(node, node') \subseteq DisksOf(w)
  <2>1. vg \in VGs
    BY DEF Unwanted, Classes
  <2>2. Moves(node, node', vg, {})
    BY <1>1, <1>4, <2>1, RemoveVolumeGroupMoves
  <2> QED BY <2>1, <2>2, MovesLosses DEF DisksOf
<1> QED BY <1>1, <1>2, <1>3, <1>4 DEF Interrupted

LEMMA DropClassLosses ==
    ASSUME IInv, NEW vg \in VGs, DropClass(vg)
    PROVE  /\ Losses(node, node') \subseteq DisksOf(vg)
           /\ spent' = spent => Losses(node, node') = {}
<1>1. node \in Nodes
  BY DEF IInv, Core, TypeOK
<1>2. PICK fault \in BOOLEAN : \E o \in RemoveVolumeGroup(node, vg, fault) : node' = o.node
  BY DEF DropClass
<1>3. Moves(node, node', vg, {})
  BY <1>1, <1>2, RemoveVolumeGroupMoves
<1>4. Losses(node, node') \subseteq DisksOf(vg)
  BY <1>3, MovesLosses DEF DisksOf
<1>5. spent' = spent => Losses(node, node') = {}
  BY DropClassStep DEF NoNewOrphan, Losses
<1> QED BY <1>4, <1>5

LEMMA ProvisionClassLosses ==
    ASSUME RInv, AvailInv, NEW vg \in VGs, ProvisionClass(vg)
    PROVE  /\ Losses(node, node') \subseteq DisksOf(vg)
           /\ spent' = spent /\ Losses(node, node') # {} =>
                Obstructed(vg) /\ Losses(node, node') \subseteq job.want[vg].devs
<1>1. /\ IInv /\ HandledInv /\ node \in Nodes /\ job \in Jobs
      /\ job.active /\ vg \in job.todo /\ job.want[vg] # NoClass
  BY ProvisionClassFrame DEF RInv, IInv, Core, TypeOK
<1>2. PICK f \in BOOLEAN : \E r \in ClassOutcomes(node, job, vg, f) : node' = r.node
  BY DEF ProvisionClass
<1>3. /\ Moves(node, node', vg, job.want[vg].devs)
      /\ job.suc[vg] = NoClass => Same(node, node') \/ ~VgExists(node, vg)
  BY <1>1, <1>2, ClassOutcomesMoves
<1>4. Losses(node, node') \subseteq Members(node, vg) \cup job.want[vg].devs
  BY <1>3, MovesLosses
<1>5. ASSUME spent' = spent, Losses(node, node') # {}
      PROVE  Obstructed(vg) /\ Losses(node, node') \subseteq job.want[vg].devs
  <2>1. PICK fault \in BOOLEAN, o \in Outcomes : StepOn(vg, fault, o)
    BY <1>1, ProvisionClassStep
  <2>2. ~fault
    BY <1>1, <1>5, <2>1 DEF StepOn, Spend, IInv, Core, TypeOK
  <2>3. ~NoNewOrphan(node, node')
    BY <1>5 DEF NoNewOrphan, Losses
  <2>4. \A d \in Members(node, vg) : node'.own[d] # Orphan
    <3>1. CASE job.suc[vg] = NoClass
      BY <1>3, <3>1, VGsAssumption DEF Same, VgExists, Members
    <3>2. CASE job.suc[vg] # NoClass
      BY <2>1, <2>2, <3>2 DEF StepOn, Fate, KeptLabels
    <3> QED BY <3>1, <3>2
  <2>5. Losses(node, node') \subseteq job.want[vg].devs
    BY <1>4, <2>4 DEF Losses
  <2>6. CASE job.suc[vg] # NoClass
    <3>1. Partial(node, vg)
      BY <2>1, <2>2, <2>3, <2>6 DEF StepOn
    <3> QED BY <1>1, <2>5, <3>1 DEF Obstructed, DisksOf, Partial
  <2>7. CASE job.suc[vg] = NoClass /\ ~VgExists(node, vg)
    <3>1. PICK d \in job.want[vg].devs \cap job.avail : d \notin Labelable(node)
      BY <2>1, <2>2, <2>3, <2>7 DEF StepOn
    <3>2. d \in node.gone
      BY <1>1, <3>1 DEF AvailInv, Labelable
    <3> QED BY <1>1, <2>5, <3>1, <3>2 DEF Obstructed, DisksOf
  <2> QED BY <1>1, <2>5, <2>6, <2>7 DEF Obstructed
<1> QED BY <1>1, <1>4, <1>5 DEF DisksOf

(* A step of a job loses disks of one class only, and without a failing    *)
(* command only disks listed for a class that is obstructed.               *)
THEOREM LossesExplainedAlways ==
    ASSUME DisjointDevices
    PROVE  Spec => LossesExplained
<1> DEFINE Explained ==
      LET losses == {d \in Disks : node.own[d] # Orphan /\ node'.own[d] = Orphan}
      IN  losses # {} =>
            \E vg \in VGs :
               /\ losses \subseteq DisksOf(vg)
               /\ spent' = spent => Obstructed(vg) /\ losses \subseteq job.want[vg].devs
<1>1. Init => AvailInv
  BY DEF Init, IdleJob, AvailInv
<1>2. RInv /\ AvailInv /\ [Next]_vars => AvailInv'
  BY AvailStep
<1>3. RInv /\ AvailInv /\ [Next]_vars => [JobNext => Explained]_vars
  <2> SUFFICES ASSUME RInv, AvailInv, JobNext, Losses(node, node') # {}
               PROVE  \E vg \in VGs :
                        /\ Losses(node, node') \subseteq DisksOf(vg)
                        /\ spent' = spent =>
                             Obstructed(vg) /\ Losses(node, node') \subseteq job.want[vg].devs
    BY DEF Losses
  <2>1. IInv /\ Core
    BY DEF RInv, IInv
  <2>2. CASE JobStart \/ JobCommit
    BY <2>2 DEF JobStart, JobCommit, Losses
  <2>3. CASE JobDie
    <3>1. spent' # spent
      BY <2>1, <2>3 DEF JobDie, Spend, Core, TypeOK
    <3> QED BY <2>1, <2>3, <3>1, JobDieLosses
  <2>4. ASSUME NEW vg \in VGs, DropClass(vg)
        PROVE  Losses(node, node') \subseteq DisksOf(vg) /\ spent' # spent
    BY <2>1, <2>4, DropClassLosses
  <2>5. ASSUME NEW vg \in VGs, ProvisionClass(vg)
        PROVE  /\ Losses(node, node') \subseteq DisksOf(vg)
               /\ spent' = spent =>
                    Obstructed(vg) /\ Losses(node, node') \subseteq job.want[vg].devs
    BY <2>5, ProvisionClassLosses
  <2> QED BY <2>2, <2>3, <2>4, <2>5 DEF JobNext
<1> QED BY <1>1, <1>2, <1>3, RunInvariant, PTL DEF Spec, LossesExplained
=============================================================================
