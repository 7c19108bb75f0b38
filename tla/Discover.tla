------------------------------ MODULE Discover ------------------------------
(***************************************************************************)
(* The discover daemon of one node (pkg/operator/discover/discover.go).    *)
(* At every probe interval it publishes the disks of the node in the       *)
(* ConfigMap and then compares the recorded success classes with the       *)
(* volume groups; a udev event makes it publish the disks only.  All of it *)
(* runs on one goroutine, and every update reads the ConfigMap, works, and *)
(* patches it later.                                                       *)
(***************************************************************************)
EXTENDS NodeConfigMap

VARIABLES
    node,   \* the disks and volume groups (Lvm)
    cm,     \* the ConfigMap lvmdconfig-<node>
    disc    \* what the daemon is doing: its local variables

Steps == {"wait", "publish", "check", "list", "report"}

Daemons == [at:    Steps,
            probe: BOOLEAN,                   \* checkDeviceClass comes next
            base:  ConfigMaps \cup {NoCm},    \* the ConfigMap it read
            view:  DeviceViews,               \* GetAllDevices
            suc:   [VGs -> ClassStates \cup {NoClass}]]

NoView == [blank |-> {}, labelled |-> {}]

Waiting == [at |-> "wait", probe |-> FALSE, base |-> NoCm, view |-> NoView,
            suc |-> NoClasses]

TypeOK == disc \in Daemons

Init == disc = Waiting

-----------------------------------------------------------------------------
(* GetAllDevices lists the disks that are plugged in, with their contents. *)
DeviceView(n) ==
    [blank    |-> AvailableDevices(n),
     labelled |-> (Disks \ n.gone) \ AvailableDevices(n)]

(* Mutant: a published list is never read from the disks again.            *)
StartProbeCached(probe) ==
    /\ disc.at = "wait"
    /\ disc' = [disc EXCEPT !.at = "publish", !.probe = probe, !.base = cm,
                  !.view = IF cm # NoCm /\ cm.devices # NoData THEN cm.devices
                           ELSE DeviceView(node)]
    /\ UNCHANGED <<node, cm>>

(* The probe timer fires, or a udev event arrives: updateDeviceCM lists    *)
(* the devices and reads the ConfigMap.                                    *)
StartProbe(probe) ==
    /\ disc.at = "wait"
    /\ disc' = [disc EXCEPT !.at = "publish", !.probe = probe,
                            !.base = cm, !.view = DeviceView(node)]
    /\ UNCHANGED <<node, cm>>

(* The rest of updateDeviceCM.  Create fails when the ConfigMap appeared   *)
(* since it was read; the error is logged and the next probe tries again.  *)
PublishDevices ==
    LET published == [disc.base EXCEPT !.devices = disc.view]
    IN  /\ disc.at = "publish"
        /\ \/ /\ disc.base # NoCm
              /\ cm' = PatchConfigMap(disc.base, published, cm)
           \/ /\ disc.base = NoCm /\ cm = NoCm
              /\ cm' = [devices |-> disc.view, status |-> NoData, lvmd |-> NoData]
           \/ /\ disc.base = NoCm /\ cm # NoCm
              /\ UNCHANGED cm
        /\ disc' = IF disc.probe THEN [Waiting EXCEPT !.at = "check"] ELSE Waiting
        /\ UNCHANGED node

(* checkDeviceClass reads the ConfigMap; without a status it returns.      *)
ReadStatus ==
    LET status == IF cm = NoCm THEN NoData ELSE cm.status
    IN  /\ disc.at = "check"
        /\ disc' = IF status = NoData THEN Waiting
                   ELSE [disc EXCEPT !.at = "list", !.base = cm, !.suc = status.suc]
        /\ UNCHANGED <<node, cm>>

(* A recorded device that is no member any more is offline and makes its   *)
(* class unready.  Nothing sets a device online again.                     *)
Absent(vg, c) == {s \in c.devs : s[1] \notin PhysicalVolumes(node, vg)}

(* Mutant: a class is never set Ready again.                               *)
NeverReadyAgain(vg, c) ==
    [c EXCEPT !.state = IF Absent(vg, c) = {} THEN c.state ELSE "UnReady"]

Compared(vg, c) ==
    [c EXCEPT !.state = IF Absent(vg, c) = {} THEN "Ready" ELSE "UnReady",
              !.devs  = (c.devs \ Absent(vg, c))
                          \cup {<<s[1], "Offline">> : s \in Absent(vg, c)}]

(* The loop over the success classes; the first volume group that cannot   *)
(* be listed ends the function.                                            *)
ListVolumes ==
    /\ disc.at = "list"
    /\ disc' = IF \A vg \in Classes(disc.suc) : Readable(node, vg)
               THEN [disc EXCEPT !.at = "report",
                       !.suc = [vg \in VGs |->
                                  IF disc.suc[vg] = NoClass THEN NoClass
                                  ELSE Compared(vg, disc.suc[vg])]]
               ELSE Waiting
    /\ UNCHANGED <<node, cm>>

(* The patch that ends checkDeviceClass.                                   *)
ReportStatus ==
    /\ disc.at = "report"
    /\ cm' = PatchConfigMap(disc.base,
                            [disc.base EXCEPT !.status = [disc.base.status EXCEPT !.suc = disc.suc]],
                            cm)
    /\ disc' = Waiting
    /\ UNCHANGED node

(* The daemon is killed and started again: Run publishes the devices       *)
(* before it waits for anything.                                           *)
Restart ==
    /\ disc.at # "wait"
    /\ disc' = [Waiting EXCEPT !.at = "publish", !.base = cm, !.view = DeviceView(node)]
    /\ UNCHANGED <<node, cm>>

Step == PublishDevices \/ ReadStatus \/ ListVolumes \/ ReportStatus

Next == (\E probe \in BOOLEAN : StartProbe(probe)) \/ Step \/ Restart
=============================================================================
