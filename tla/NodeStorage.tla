---------------------------- MODULE NodeStorage ----------------------------
(***************************************************************************)
(* One node with both of its writers: the prepareVg job (PrepareVg) and    *)
(* the discover daemon (Discover).  They share the disks and the           *)
(* ConfigMap; both read the ConfigMap, work for a while, and patch it      *)
(* without a resource version, so each can write over what the other wrote *)
(* in between.                                                             *)
(***************************************************************************)
EXTENDS PrepareVg

VARIABLE disc   \* the discover daemon (Discover)

D == INSTANCE Discover

allVars == <<vars, disc>>

StorageInit == Init /\ D!Init

(* Deaths of the daemon and of the job share one budget.                   *)
DaemonDie == D!Restart /\ Spend("fault") /\ UNCHANGED <<spec, job, made>>

DaemonProbe == D!StartProbe(TRUE) /\ UNCHANGED <<spec, job, made, spent>>

DaemonUdev == D!StartProbe(FALSE) /\ UNCHANGED <<spec, job, made, spent>>

DaemonStep == D!Step /\ UNCHANGED <<spec, job, made, spent>>

DaemonNext == DaemonProbe \/ DaemonUdev \/ DaemonStep \/ DaemonDie

StorageNext == (Next /\ UNCHANGED disc) \/ DaemonNext

StorageSpec == StorageInit /\ [][StorageNext]_allVars

(* The daemon is one goroutine with a timer.  Udev events do not starve    *)
(* the timer for ever: strong fairness of the probe, which is disabled     *)
(* while an update is in progress.                                         *)
DaemonFairness == SF_allVars(DaemonProbe) /\ WF_allVars(DaemonStep)

FairStorageSpec == StorageSpec /\ DaemonFairness

-----------------------------------------------------------------------------
(* Properties.                                                             *)

(* The two writers keep out of each other's keys: the daemon never changes *)
(* lvmd.yaml and never removes the status, and a run that started after    *)
(* the ConfigMap existed never puts an old device list back.               *)
KeysKept ==
    [][/\ DaemonNext /\ cm # NoCm =>
            /\ cm'.lvmd = cm.lvmd
            /\ cm.status # NoData => cm'.status # NoData
       /\ JobCommit /\ job.base # NoCm => cm'.devices = cm.devices]_allVars

(* The published list of devices is right again and again, although the    *)
(* first write of a run may erase it (CreateOrPatchConfigmap) and disks    *)
(* come and go while the daemon works.                                     *)
DevicesPublished ==
    []<>(IF cm = NoCm THEN FALSE ELSE cm.devices = D!DeviceView(node))

(* A class shows as Ready exactly if all its recorded devices are members  *)
(* of its volume group.                                                    *)
StateShown(vg) ==
    LET c == cm.status.suc[vg]
    IN  c.state = "Ready"
          <=> {s[1] : s \in c.devs} \subseteq PhysicalVolumes(node, vg)

Recorded == IF cm = NoCm THEN {} ELSE IF cm.status = NoData THEN {}
            ELSE Classes(cm.status.suc)

(* The states of the recorded classes become right again and again, in     *)
(* both directions (a disk disappears, a disk comes back), whatever stale  *)
(* status a run writes in between, as long as LVM can list every recorded  *)
(* volume group.                                                           *)
StatesShown ==
    []<>((\A vg \in Recorded : Readable(node, vg)) =>
           \A vg \in Recorded : StateShown(vg))
=============================================================================
