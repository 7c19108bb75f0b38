------------------------- MODULE NodeStorageProofs -------------------------
(***************************************************************************)
(* One node with both of its writers, for all values of the constants: the *)
(* types, KeysKept, and the properties of PrepareVg that survive the       *)
(* second writer: SuccessOrFailure, ForeignUntouched and GroupsAreOurs.    *)
(* What does not survive (a patch puts back a status that is out of date)  *)
(* is in the run lost_class.                                               *)
(***************************************************************************)
EXTENDS NodeStorage, PrepareVgProofs

(* What the daemon is about to write: a status it read from the ConfigMap, *)
(* with the same classes, which some run has made.                         *)
DaemonSound ==
    disc.at \in {"list", "report"} =>
        /\ disc.base # NoCm
        /\ disc.base.status # NoData
        /\ SoundClasses(disc.base.status.suc, disc.base.status.fail)
        /\ Classes(disc.suc) = Classes(disc.base.status.suc)

(* A ConfigMap that was read is still there.                               *)
Kept ==
    /\ job.active /\ job.base # NoCm => cm # NoCm
    /\ disc.base # NoCm => cm # NoCm

SInv == Core /\ D!TypeOK /\ DaemonSound /\ Kept

(* Discover and PrepareVg extend the same modules, whose definitions       *)
(* therefore have two names here.                                          *)
LEMMA TwoNames ==
    /\ D!ConfigMaps = ConfigMaps /\ D!DeviceViews = DeviceViews
    /\ D!ClassStates = ClassStates /\ D!NoClasses = NoClasses
    /\ \A old, new, m : D!PatchConfigMap(old, new, m) = PatchConfigMap(old, new, m)
    /\ \A n : D!AvailableDevices(n) = AvailableDevices(n)
    /\ \A map : D!Classes(map) = Classes(map)
<1>1. D!Statuses = Statuses /\ D!ClassStates = ClassStates
  BY DEF D!Statuses, Statuses, D!ClassStates, ClassStates, D!FailMarks, FailMarks
<1>2. D!LvmdConfs = LvmdConfs /\ D!DeviceViews = DeviceViews
  BY DEF D!LvmdConfs, LvmdConfs, D!LvmdClasses, LvmdClasses, D!DeviceViews, DeviceViews
<1>3. D!ConfigMaps = ConfigMaps
  BY <1>1, <1>2 DEF D!ConfigMaps, ConfigMaps
<1>4. \A old, new, m : D!PatchConfigMap(old, new, m) = PatchConfigMap(old, new, m)
  BY DEF D!PatchConfigMap, PatchConfigMap, D!Merged, Merged
<1>5. \A n : D!AvailableDevices(n) = AvailableDevices(n)
  BY DEF D!AvailableDevices, AvailableDevices, D!Raw, Raw
<1>6. D!NoClasses = NoClasses /\ \A map : D!Classes(map) = Classes(map)
  BY DEF D!NoClasses, NoClasses, D!Classes, Classes
<1> QED BY <1>1, <1>2, <1>3, <1>4, <1>5, <1>6

LEMMA DaemonsOf ==
    D!Daemons = [at: D!Steps, probe: BOOLEAN, base: ConfigMaps \cup {NoCm},
                 view: DeviceViews, suc: [VGs -> ClassStates \cup {NoClass}]]
BY TwoNames DEF D!Daemons

LEMMA WaitingType ==
    /\ D!Waiting \in D!Daemons /\ D!Waiting.at = "wait" /\ D!Waiting.base = NoCm
    /\ [D!Waiting EXCEPT !.at = "check"] \in D!Daemons
    /\ [D!Waiting EXCEPT !.at = "check"].at = "check"
    /\ [D!Waiting EXCEPT !.at = "check"].base = NoCm
BY DaemonsOf, TwoNames DEF D!Waiting, D!Steps, D!NoView, DeviceViews, NoClasses

LEMMA InitSInv == StorageInit => SInv
<1> SUFFICES ASSUME StorageInit PROVE SInv
  OBVIOUS
<1>1. Core
  BY InitInv DEF StorageInit, IInv
<1>2. disc = D!Waiting /\ job = IdleJob
  BY DEF StorageInit, Init, D!Init
<1> QED BY <1>1, <1>2, WaitingType DEF SInv, D!TypeOK, DaemonSound, Kept, IdleJob

-----------------------------------------------------------------------------
(* The steps of the daemon.                                                *)

LEMMA DeviceViewType == ASSUME NEW n PROVE D!DeviceView(n) \in DeviceViews
BY TwoNames DEF D!DeviceView, DeviceViews, AvailableDevices

LEMMA PatchType ==
    ASSUME NEW old \in ConfigMaps, NEW new \in ConfigMaps, NEW m \in ConfigMaps
    PROVE  /\ PatchConfigMap(old, new, m) \in ConfigMaps
           /\ PatchConfigMap(old, new, m).status = Merged(old.status, new.status, m.status)
           /\ new.lvmd = old.lvmd => PatchConfigMap(old, new, m).lvmd = m.lvmd
BY DEF PatchConfigMap, Merged, ConfigMaps

(* Whatever the daemon does, the ConfigMap keeps its lvmd.yaml and its     *)
(* status stays sound and is not removed.                                  *)
DaemonKeeps ==
    /\ cm' \in ConfigMaps \cup {NoCm}
    /\ LvmdOf(cm)' = LvmdOf(cm)
    /\ cm # NoCm => /\ cm' # NoCm
                    /\ cm'.lvmd = cm.lvmd
                    /\ cm.status # NoData => cm'.status # NoData
    /\ CmSound'

LEMMA PublishStep ==
    ASSUME SInv, D!PublishDevices, UNCHANGED made
    PROVE  DaemonKeeps /\ D!TypeOK' /\ DaemonSound' /\ (cm # NoCm => cm' # NoCm)
<1> DEFINE published == [disc.base EXCEPT !.devices = disc.view]
<1>1. disc \in D!Daemons /\ disc.base \in ConfigMaps \cup {NoCm} /\ disc.view \in DeviceViews
  BY DaemonsOf DEF SInv, D!TypeOK
<1>2. cm \in ConfigMaps \cup {NoCm} /\ CmSound
  BY DEF SInv, Core, TypeOK
<1>3. D!TypeOK' /\ DaemonSound'
  BY WaitingType DEF D!PublishDevices, D!TypeOK, DaemonSound
<1>4. CASE disc.base # NoCm
  <2>1. published \in ConfigMaps /\ published.status = disc.base.status
        /\ published.lvmd = disc.base.lvmd
    BY <1>1, <1>4 DEF ConfigMaps
  <2>2. cm # NoCm /\ cm' = PatchConfigMap(disc.base, published, cm)
    BY <1>4, TwoNames DEF SInv, Kept, D!PublishDevices
  <2> HIDE DEF published
  <2>3. cm' \in ConfigMaps /\ cm'.status = cm.status /\ cm'.lvmd = cm.lvmd
    BY <1>1, <1>2, <1>4, <2>1, <2>2, PatchType DEF Merged
  <2>4. cm' # NoCm
    BY <2>3, AbsentAssumption
  <2> QED BY <1>2, <1>3, <2>2, <2>3, <2>4
          DEF DaemonKeeps, CmSound, StatusOf, LvmdOf, SoundClasses
<1>5. CASE disc.base = NoCm
  <2>1. CASE cm = NoCm
    <3>1. cm' = [devices |-> disc.view, status |-> NoData, lvmd |-> NoData]
      BY <1>5, <2>1 DEF D!PublishDevices
    <3> QED BY <1>1, <1>3, <2>1, <3>1 DEF DaemonKeeps, CmSound, StatusOf, LvmdOf, ConfigMaps
  <2>2. CASE cm # NoCm
    BY <1>2, <1>3, <1>5, <2>2
    DEF D!PublishDevices, DaemonKeeps, CmSound, StatusOf, LvmdOf, SoundClasses
  <2> QED BY <2>1, <2>2
<1> QED BY <1>4, <1>5

LEMMA ReportStep ==
    ASSUME SInv, D!ReportStatus, UNCHANGED made
    PROVE  DaemonKeeps /\ D!TypeOK' /\ DaemonSound' /\ (cm # NoCm => cm' # NoCm)
<1> DEFINE status == [disc.base.status EXCEPT !.suc = disc.suc]
           new    == [disc.base EXCEPT !.status = status]
<1>1. disc \in D!Daemons /\ disc.at = "report"
  BY DEF SInv, D!TypeOK, D!ReportStatus
<1>2. /\ disc.base \in ConfigMaps /\ disc.base.status \in Statuses
      /\ disc.base # NoCm
      /\ SoundClasses(disc.base.status.suc, disc.base.status.fail)
      /\ Classes(disc.suc) = Classes(disc.base.status.suc)
      /\ disc.suc \in [VGs -> ClassStates \cup {NoClass}]
  BY <1>1, DaemonsOf DEF SInv, DaemonSound, ConfigMaps
<1>3. cm \in ConfigMaps /\ CmSound
  BY <1>2 DEF SInv, Core, TypeOK, Kept
<1>4. /\ status \in Statuses /\ status.suc = disc.suc
      /\ status.fail = disc.base.status.fail
  BY <1>2 DEF Statuses
<1>5. SoundClasses(status.suc, status.fail)
  BY <1>2, <1>4 DEF SoundClasses, Classes
<1> HIDE DEF status
<1>6. new \in ConfigMaps /\ new.status = status /\ new.lvmd = disc.base.lvmd
  BY <1>2, <1>4 DEF ConfigMaps
<1>7. cm' = PatchConfigMap(disc.base, new, cm)
  BY TwoNames DEF D!ReportStatus, status
<1> HIDE DEF new
<1>8. /\ cm' \in ConfigMaps /\ cm'.status \in {status, cm.status}
      /\ cm'.lvmd = cm.lvmd /\ cm' # NoCm
  BY <1>2, <1>3, <1>6, <1>7, PatchType, AbsentAssumption DEF Merged
<1>9. cm'.status = status => status # NoData
  BY <1>4, AbsentAssumption
<1>10. CmSound'
  BY <1>3, <1>5, <1>8, AbsentAssumption DEF CmSound, StatusOf, SoundClasses
<1>11. D!TypeOK' /\ DaemonSound'
  BY WaitingType DEF D!ReportStatus, D!TypeOK, DaemonSound
<1> QED BY <1>3, <1>8, <1>9, <1>10, <1>11, AbsentAssumption DEF DaemonKeeps, LvmdOf

(* The steps that leave the ConfigMap alone.                               *)
LEMMA StartStep ==
    ASSUME SInv, D!Restart \/ \E probe \in BOOLEAN : D!StartProbe(probe)
    PROVE  cm' = cm /\ D!TypeOK' /\ DaemonSound' /\ (disc'.base # NoCm => cm # NoCm)
<1>1. disc \in D!Daemons /\ cm \in ConfigMaps \cup {NoCm}
  BY DEF SInv, D!TypeOK, Core, TypeOK
<1>2. D!DeviceView(node) \in DeviceViews
  BY DeviceViewType
<1>3. CASE D!Restart
  BY <1>1, <1>2, <1>3, WaitingType, DaemonsOf
  DEF D!Restart, D!TypeOK, DaemonSound, D!Steps
<1>4. ASSUME NEW probe \in BOOLEAN, D!StartProbe(probe)
      PROVE  cm' = cm /\ D!TypeOK' /\ DaemonSound' /\ (disc'.base # NoCm => cm # NoCm)
  BY <1>1, <1>2, <1>4, DaemonsOf DEF D!StartProbe, D!TypeOK, DaemonSound, D!Steps
<1> QED BY <1>3, <1>4

LEMMA ReadStep ==
    ASSUME SInv, D!ReadStatus, UNCHANGED made
    PROVE  cm' = cm /\ D!TypeOK' /\ DaemonSound' /\ (disc'.base # NoCm => cm # NoCm)
<1>1. disc \in D!Daemons /\ cm \in ConfigMaps \cup {NoCm} /\ CmSound
  BY DEF SInv, D!TypeOK, Core, TypeOK
<1>2. CASE StatusOf(cm) = NoData
  BY <1>2, WaitingType DEF D!ReadStatus, StatusOf, D!TypeOK, DaemonSound
<1>3. CASE StatusOf(cm) # NoData
  <2>1. cm # NoCm /\ cm.status # NoData /\ cm.status \in Statuses
        /\ SoundClasses(cm.status.suc, cm.status.fail)
    BY <1>1, <1>3 DEF StatusOf, CmSound, ConfigMaps
  <2>2. disc' = [disc EXCEPT !.at = "list", !.base = cm, !.suc = cm.status.suc]
    BY <2>1 DEF D!ReadStatus
  <2>3. disc' \in D!Daemons /\ disc'.base = cm /\ disc'.suc = cm.status.suc
    BY <1>1, <2>1, <2>2, DaemonsOf DEF D!Steps, Statuses
  <2> QED BY <2>1, <2>3 DEF D!ReadStatus, D!TypeOK, DaemonSound, SoundClasses
<1> QED BY <1>2, <1>3

LEMMA ComparedType ==
    ASSUME NEW c \in ClassStates, NEW vg
    PROVE  D!Compared(vg, c) \in ClassStates
<1> DEFINE away  == D!Absent(vg, c)
           devs  == (c.devs \ away) \cup {<<s[1], "Offline">> : s \in away}
           state == IF away = {} THEN "Ready" ELSE "UnReady"
<1>1. away \subseteq c.devs /\ c.devs \subseteq Disks \X {"Online", "Offline", "Error"}
  BY DEF D!Absent, ClassStates
<1>2. devs \in SUBSET (Disks \X {"Online", "Offline", "Error"})
  BY <1>1
<1>3. D!Compared(vg, c) = [c EXCEPT !.state = state, !.devs = devs]
  BY DEF D!Compared
<1> HIDE DEF devs, away
<1> QED BY <1>2, <1>3 DEF ClassStates

LEMMA ListStep ==
    ASSUME SInv, D!ListVolumes, UNCHANGED made
    PROVE  cm' = cm /\ D!TypeOK' /\ DaemonSound' /\ (disc'.base # NoCm => cm # NoCm)
<1> DEFINE all == \A vg \in D!Classes(disc.suc) : D!Readable(node, vg)
           suc == [vg \in VGs |-> IF disc.suc[vg] = NoClass THEN NoClass
                                   ELSE D!Compared(vg, disc.suc[vg])]
<1>1. /\ disc \in D!Daemons /\ disc.at = "list"
      /\ disc.suc \in [VGs -> ClassStates \cup {NoClass}]
  BY DaemonsOf DEF SInv, D!TypeOK, D!ListVolumes
<1>2. cm' = cm /\ disc' = IF all THEN [disc EXCEPT !.at = "report", !.suc = suc] ELSE D!Waiting
  BY DEF D!ListVolumes
<1>3. CASE all
  <2>1. suc \in [VGs -> ClassStates \cup {NoClass}]
    BY <1>1, ComparedType
  <2>2. Classes(suc) = Classes(disc.suc)
    BY <1>1, ComparedType, AbsentAssumption DEF Classes
  <2> HIDE DEF suc, all
  <2>3. disc' \in D!Daemons /\ disc'.base = disc.base /\ disc'.suc = suc
    BY <1>1, <1>2, <1>3, <2>1, DaemonsOf DEF D!Steps
  <2> QED BY <1>1, <1>2, <2>2, <2>3 DEF SInv, Kept, D!TypeOK, DaemonSound, SoundClasses
<1>4. CASE ~all
  BY <1>2, <1>4, WaitingType DEF D!TypeOK, DaemonSound
<1> QED BY <1>3, <1>4

-----------------------------------------------------------------------------
(* Both writers.                                                           *)

LEMMA DaemonStepInv ==
    ASSUME SInv, DaemonNext
    PROVE  DaemonKeeps /\ SInv'
<1>1. UNCHANGED <<spec, job, made, node>>
  BY DEF DaemonNext, DaemonProbe, DaemonUdev, DaemonStep, DaemonDie, D!Step, D!Restart,
         D!StartProbe, D!PublishDevices, D!ReadStatus, D!ListVolumes, D!ReportStatus
<1>2. spent' \in [edit: Nat, fault: Nat, wipe: Nat, unplug: Nat]
  BY SpendType DEF SInv, Core, TypeOK, DaemonNext, DaemonProbe, DaemonUdev, DaemonStep, DaemonDie
<1>3. cm \in ConfigMaps \cup {NoCm} /\ CmSound
  BY DEF SInv, Core, TypeOK
<1>4. /\ DaemonKeeps /\ D!TypeOK' /\ DaemonSound'
      /\ disc'.base # NoCm => cm # NoCm
  <2>1. CASE D!PublishDevices
    <3>1. disc'.base = NoCm
      BY <2>1, WaitingType DEF D!PublishDevices
    <3> QED BY <1>1, <2>1, <3>1, PublishStep
  <2>2. CASE D!ReportStatus
    <3>1. disc'.base = NoCm
      BY <2>2, WaitingType DEF D!ReportStatus
    <3> QED BY <1>1, <2>2, <3>1, ReportStep
  <2>3. ASSUME cm' = cm PROVE DaemonKeeps
    BY <1>1, <1>3, <2>3 DEF DaemonKeeps, CmSound, StatusOf, LvmdOf, SoundClasses
  <2> QED BY <1>1, <2>1, <2>2, <2>3, StartStep, ReadStep, ListStep
          DEF DaemonNext, DaemonProbe, DaemonUdev, DaemonStep, DaemonDie, D!Step
<1>5. Core'
  BY <1>1, <1>2, <1>4 DEF SInv, Core, TypeOK, RunSound, SoundClasses, DaemonKeeps
<1>6. Kept'
  BY <1>1, <1>4 DEF SInv, Kept, DaemonKeeps
<1> QED BY <1>4, <1>5, <1>6 DEF SInv

(* What the daemon holds stays sound, for no run unmakes a group.          *)
LEMMA JobStepInv ==
    ASSUME SInv, [Next]_vars, UNCHANGED disc
    PROVE  SInv' /\ (JobCommit /\ job.base # NoCm => cm'.devices = cm.devices)
<1>1. Core /\ (job.active /\ job.base # NoCm => cm # NoCm)
  BY DEF SInv, Kept
<1>2. /\ Core' /\ (cm # NoCm => cm' # NoCm)
      /\ JobCommit /\ job.base # NoCm => cm'.devices = cm.devices
  <2>1. CASE JobCommit
    BY <1>1, <2>1, JobCommitCore DEF JobCommit
  <2>2. CASE ~JobCommit
    BY <1>1, <2>2, QuietCore
  <2> QED BY <2>1, <2>2
<1>3. made \subseteq made'
  BY DEF Next, JobNext, EnvNext, JobStart, ProvisionClass, DropClass, JobCommit, JobDie,
         EditSpec, CreateLv, DeleteLv, Unplug, Plug, Wipe, vars
<1>4. \/ ~job'.active
      \/ job'.base = cm
      \/ job'.active = job.active /\ job'.base = job.base
  <2>1. job \in Jobs
    BY <1>1 DEF Core, TypeOK
  <2>2. CASE JobStart
    BY <2>2 DEF JobStart
  <2>3. CASE JobDie \/ JobCommit
    BY <2>3 DEF JobDie, JobCommit, IdleJob
  <2>4. CASE \E vg \in VGs : ProvisionClass(vg) \/ DropClass(vg)
    BY <2>1, <2>4 DEF ProvisionClass, DropClass, Jobs
  <2>5. CASE EnvNext \/ UNCHANGED vars
    BY <2>5 DEF EnvNext, EditSpec, CreateLv, DeleteLv, Unplug, Plug, Wipe, vars
  <2> QED BY <2>2, <2>3, <2>4, <2>5 DEF Next, JobNext
<1>5. Kept'
  BY <1>2, <1>4 DEF SInv, Kept
<1>6. D!TypeOK' /\ DaemonSound'
  BY <1>3 DEF SInv, D!TypeOK, DaemonSound, SoundClasses
<1> QED BY <1>2, <1>5, <1>6 DEF SInv

LEMMA StorageStep == SInv /\ [StorageNext]_allVars => SInv'
BY DaemonStepInv, JobStepInv DEF StorageNext, allVars, vars

(* The invariant of the node with both writers.                            *)
THEOREM StorageInvariant == StorageSpec => []SInv
BY InitSInv, StorageStep, PTL DEF StorageSpec

(* Every variable of the job and of the daemon keeps its type.             *)
THEOREM StorageTypeCorrect == StorageSpec => [](TypeOK /\ D!TypeOK)
<1>1. SInv => TypeOK /\ D!TypeOK
  BY DEF SInv, Core
<1> QED BY <1>1, StorageInvariant, PTL

(* Neither writer removes or resets what belongs to the other.             *)
THEOREM KeysKeptAlways == StorageSpec => KeysKept
<1>1. SInv /\ [StorageNext]_allVars =>
        [/\ DaemonNext /\ cm # NoCm =>
              /\ cm'.lvmd = cm.lvmd
              /\ cm.status # NoData => cm'.status # NoData
         /\ JobCommit /\ job.base # NoCm => cm'.devices = cm.devices]_allVars
  <2> SUFFICES ASSUME SInv, StorageNext
               PROVE  /\ DaemonNext /\ cm # NoCm =>
                           /\ cm'.lvmd = cm.lvmd
                           /\ cm.status # NoData => cm'.status # NoData
                      /\ JobCommit /\ job.base # NoCm => cm'.devices = cm.devices
    OBVIOUS
  <2>1. DaemonNext => DaemonKeeps
    BY DaemonStepInv
  <2>2. JobCommit /\ job.base # NoCm => cm'.devices = cm.devices
    BY JobCommitCore DEF SInv, Kept, JobCommit
  <2> QED BY <2>1, <2>2 DEF DaemonKeeps
<1> QED BY <1>1, StorageInvariant, PTL DEF StorageSpec, KeysKept

(* However stale the status that the daemon puts back, it never counts a   *)
(* class as success and as failure.                                        *)
THEOREM StorageSuccessOrFailure == StorageSpec => []SuccessOrFailure
<1>1. SInv => SuccessOrFailure
  BY DEF SInv, Core, CmSound, StatusOf, SoundClasses, SuccessOrFailure, Classes
<1> QED BY <1>1, StorageInvariant, PTL

(* However stale the status that a run reads, it leaves the volume groups  *)
(* alone that no run has created, and the daemon touches none at all.      *)
THEOREM StorageForeignUntouched == StorageSpec => ForeignUntouched
<1>1. SInv /\ [StorageNext]_allVars =>
        [JobNext => \A vg \in VGs \ made :
                      VgExists(node, vg) => Members(node', vg) = Members(node, vg)]_vars
  BY ForeignStep DEF SInv, allVars, vars
<1> QED BY <1>1, StorageInvariant, PTL DEF StorageSpec, ForeignUntouched

(* The daemon touches no group and does not change what is served.         *)
LEMMA DaemonGroups ==
    ASSUME SInv, Offered, DaemonNext
    PROVE  UNCHANGED Owned!groups /\ Offered'
<1>1. UNCHANGED <<spec, job, made, node>>
  BY DEF DaemonNext, DaemonProbe, DaemonUdev, DaemonStep, DaemonDie, D!Step, D!Restart,
         D!StartProbe, D!PublishDevices, D!ReadStatus, D!ListVolumes, D!ReportStatus
<1>2. LvmdOf(cm)' = LvmdOf(cm) /\ (cm # NoCm => cm' # NoCm)
  BY DaemonStepInv DEF DaemonKeeps
<1>3. ServedVgs = (IF LvmdOf(cm) = NoData THEN {} ELSE {e.vg : e \in LvmdOf(cm).classes})
  BY DEF ServedVgs, LvmdEntries, LvmdOf
<1>4. ServedVgs' = (IF LvmdOf(cm)' = NoData THEN {} ELSE {e.vg : e \in LvmdOf(cm)'.classes})
  BY DEF ServedVgs, LvmdEntries, LvmdOf
<1>5. ServedVgs' = ServedVgs
  BY <1>2, <1>3, <1>4
<1>6. UNCHANGED Owned!groups
  BY <1>1, <1>5 DEF Owned!groups, Occupied
<1> QED BY <1>1, <1>2, <1>5, <1>6 DEF Offered, BusyOwned

(* With both writers the node's disks are still safe: the daemon may write *)
(* an old status back, which keeps the job from serving a group (the run   *)
(* lost_class), but never makes it touch or offer one that is not ours.    *)
THEOREM StorageGroupsAreOurs == StorageSpec => GroupsAreOurs
<1>1. StorageInit => Owned!Init /\ Offered
  BY InitGroups DEF StorageInit
<1>2. SInv /\ Offered /\ [StorageNext]_allVars => [Owned!Next]_(Owned!groups) /\ Offered'
  <2> SUFFICES ASSUME SInv, Offered, [StorageNext]_allVars
               PROVE  [Owned!Next]_(Owned!groups) /\ Offered'
    OBVIOUS
  <2>1. CASE DaemonNext
    BY <2>1, DaemonGroups
  <2>2. CASE [Next]_vars
    BY <2>2, GroupsStep DEF SInv
  <2> QED BY <2>1, <2>2 DEF StorageNext, allVars
<1>3. StorageSpec => []Offered
  BY <1>1, <1>2, StorageInvariant, PTL DEF StorageSpec
<1> QED BY <1>1, <1>2, <1>3, StorageInvariant, PTL
        DEF StorageSpec, GroupsAreOurs, Owned!Spec
=============================================================================
