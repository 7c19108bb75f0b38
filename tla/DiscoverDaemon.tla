--------------------------- MODULE DiscoverDaemon ---------------------------
(***************************************************************************)
(* The process of the discover daemon (pkg/operator/discover/discover.go): *)
(* the select loop of Run, the goroutine udevBlockMonitor that collapses   *)
(* udev events, the goroutine rawUdevBlockMonitor that reads udevadm, the  *)
(* channels between them, and the listing of the devices with commands     *)
(* that may fail (pkg/util/sys).  Discover has what the daemon does to the *)
(* ConfigMap; this module has when it does it.                             *)
(*                                                                         *)
(* Time is counted in ticks; a step may take any number of them.           *)
(***************************************************************************)
EXTENDS Naturals

CONSTANTS
    Devices,        \* the names of the block devices
    Members,        \* the recorded devices of the class
    ProbeInterval,  \* ticks between two probes
    Period,         \* udevEventPeriod: ticks for which events are collapsed
    MaxLines,       \* lines of udevadm that wait to be read; more count as one
    MaxChanges,     \* how often the devices change
    MaxFaults       \* how often a command or a call fails, or a process dies

ASSUME DaemonAssumption ==
    /\ Members \subseteq Devices
    /\ {ProbeInterval, Period, MaxLines} \subseteq Nat \ {0}
    /\ MaxChanges \in Nat /\ MaxFaults \in Nat

VARIABLES
    dev,      \* what each device is
    cm,       \* the ConfigMap: the published list, the shown state of the class
    main,     \* the select loop of Run: its local variables
    mon,      \* udevBlockMonitor
    raw,      \* rawUdevBlockMonitor and its udevadm
    unheard,  \* since the last update listed the devices, or failed to, one
              \* came or went under udevadm's eyes
    spent     \* how much of the bounds is used up

vars == <<dev, cm, main, mon, raw, unheard, spent>>

(* A parent has partitions; a formatted device has a file system or, if it *)
(* is a member of the class, a physical volume.                            *)
Kinds == {"absent", "blank", "formatted", "parent"}

(* An entry of the list, or none.                                          *)
Entries == {"none", "available", "unavailable"}

NoList == [d \in Devices |-> "none"]

Mains == [at:    {"down", "first", "select", "probe", "event", "publish", "check"},
          next:  {"select", "check"},      \* where publish leads
          timer: 0..ProbeInterval,         \* ticks since time.After was called
          udev:  BOOLEAN,                  \* udevEvents is not nil
          first: BOOLEAN,                  \* an error ends the process
          view:  [Devices -> Entries]]     \* what GetAllDevices returned

TypeOK ==
    /\ dev \in [Devices -> Kinds]
    /\ cm \in [list: [Devices -> Entries], ready: BOOLEAN]
    /\ main \in Mains
    /\ mon \in [at: {"off", "idle", "collect", "send", "closed"}, timer: 0..Period]
    /\ raw \in [at: {"off", "read", "send", "closed"}, alive: BOOLEAN, lines: 0..MaxLines]
    /\ unheard \in BOOLEAN
    /\ spent \in [change: 0..MaxChanges, fault: 0..MaxFaults]

Down    == [at |-> "down", next |-> "select", timer |-> 0, udev |-> FALSE,
            first |-> TRUE, view |-> NoList]
MonOff  == [at |-> "off", timer |-> 0]
RawOff  == [at |-> "off", alive |-> FALSE, lines |-> 0]

Init ==
    /\ dev \in [Devices -> Kinds \ {"absent"}]
    /\ \A d \in Members : dev[d] = "formatted"
    /\ cm = [list |-> NoList, ready |-> TRUE]
    /\ main = Down /\ mon = MonOff /\ raw = RawOff
    /\ unheard = FALSE
    /\ spent = [change |-> 0, fault |-> 0]

Fault == spent.fault < MaxFaults /\ spent' = [spent EXCEPT !.fault = @ + 1]

-----------------------------------------------------------------------------
(* Listing the devices.                                                    *)

(* The commands for one device: lsblk and sgdisk, udevadm info, and lsblk  *)
(* for the partitions.  Each may be among those that failed.               *)
Commands == {"props", "udev", "child"}

(* Without its properties a device is skipped.                             *)
Populated(kind, failed) == kind # "absent" /\ "props" \notin failed

(* Without udevadm info no file system is seen.                            *)
HasFilesystem(kind, failed) == kind = "formatted" /\ "udev" \notin failed

(* Partitions that cannot be listed are assumed to be none.                *)
HasChild(kind, failed) == kind = "parent" /\ "child" \notin failed

EntryOf(kind, failed) ==
    IF ~Populated(kind, failed) THEN "none"
    ELSE IF HasFilesystem(kind, failed) \/ HasChild(kind, failed) THEN "unavailable"
    ELSE "available"

Listed(failed) == [d \in Devices |-> EntryOf(dev[d], failed[d])]

NoneFailed == [d \in Devices |-> {}]

(* GetAllDevices, where one command may fail.                              *)
GetAllDevices(view) ==
    \/ view = Listed(NoneFailed) /\ UNCHANGED spent
    \/ \E d \in Devices, c \in Commands :
         view = Listed([NoneFailed EXCEPT ![d] = {c}]) /\ Fault

(* GetPhysicalVolume of the class: all of its members are listed.          *)
AllListed == \A d \in Members : dev[d] = "formatted"

-----------------------------------------------------------------------------
(* The devices and udevadm.                                                *)

Listening == raw.alive

Sooner(i, max) == IF i < max THEN i + 1 ELSE max

(* Lines of added and removed devices match; those of changed ones, and of *)
(* the devices that the exclusions name, do not (matchUdevEvent): they are *)
(* read and thrown away.                                                   *)
matchUdevEvent(from, to) == (from = "absent") # (to = "absent")

(* A line of another device that comes or goes.                            *)
Flap ==
    /\ Listening
    /\ raw' = [raw EXCEPT !.lines = Sooner(@, MaxLines)]
    /\ UNCHANGED <<dev, cm, main, mon, unheard, spent>>

Change(d, kind) ==
    /\ spent.change < MaxChanges /\ kind # dev[d]
    /\ spent' = [spent EXCEPT !.change = @ + 1]
    /\ dev' = [dev EXCEPT ![d] = kind]
    /\ IF Listening /\ matchUdevEvent(dev[d], kind)
       THEN /\ raw' = [raw EXCEPT !.lines = Sooner(@, MaxLines)]
            /\ unheard' = TRUE
       ELSE UNCHANGED <<raw, unheard>>
    /\ UNCHANGED <<cm, main, mon>>

UdevadmDies ==
    /\ Listening /\ Fault
    /\ raw' = [raw EXCEPT !.alive = FALSE]
    /\ UNCHANGED <<dev, cm, main, mon, unheard>>

-----------------------------------------------------------------------------
(* rawUdevBlockMonitor.                                                    *)

(* It starts with udevadm, or returns if that cannot be started.           *)
StartUdevadm ==
    /\ raw.at = "off" /\ mon.at # "off"
    /\ \/ raw' = [at |-> "read", alive |-> TRUE, lines |-> 0] /\ UNCHANGED spent
       \/ raw' = [RawOff EXCEPT !.at = "closed"] /\ Fault
    /\ UNCHANGED <<dev, cm, main, mon, unheard>>

ScanLine ==
    /\ raw.at = "read" /\ raw.lines > 0
    /\ raw' = [raw EXCEPT !.at = "send", !.lines = @ - 1]
    /\ UNCHANGED <<dev, cm, main, mon, unheard, spent>>

ScanEnd ==
    /\ raw.at = "read" /\ raw.lines = 0 /\ ~raw.alive
    /\ raw' = [raw EXCEPT !.at = "closed"]
    /\ UNCHANGED <<dev, cm, main, mon, unheard, spent>>

-----------------------------------------------------------------------------
(* udevBlockMonitor.                                                       *)

(* The channels are unbuffered: a send and its receive are one step.       *)
ReceiveEvent ==
    /\ raw.at = "send" /\ mon.at \in {"idle", "collect"}
    /\ raw' = [raw EXCEPT !.at = "read"]
    /\ mon' = IF mon.at = "idle" THEN [at |-> "collect", timer |-> 0] ELSE mon
    /\ UNCHANGED <<dev, cm, main, unheard, spent>>

(* It returns, also from the middle of a collection: the event is dropped. *)
ReceiveClosed ==
    /\ raw.at = "closed" /\ mon.at \in {"idle", "collect"}
    /\ mon' = [MonOff EXCEPT !.at = "closed"]
    /\ UNCHANGED <<dev, cm, main, raw, unheard, spent>>

(* Mutant: the event is thrown away if the loop is busy.                   *)
PeriodOverLossy ==
    /\ mon.at = "collect" /\ mon.timer = Period
    /\ mon' = [mon EXCEPT !.at = IF main.at = "select" THEN "send" ELSE "idle"]
    /\ UNCHANGED <<dev, cm, main, raw, unheard, spent>>

PeriodOver ==
    /\ mon.at = "collect" /\ mon.timer = Period
    /\ mon' = [mon EXCEPT !.at = "send"]
    /\ UNCHANGED <<dev, cm, main, raw, unheard, spent>>

MonitorStep == StartUdevadm \/ ScanLine \/ ScanEnd \/ ReceiveEvent \/ ReceiveClosed
               \/ PeriodOver

-----------------------------------------------------------------------------
(* Run.                                                                    *)

(* The process starts; the first updateDeviceCM comes before everything.   *)
StartProcess ==
    /\ main.at = "down"
    /\ main' = [Down EXCEPT !.at = "first"]
    /\ UNCHANGED <<dev, cm, mon, raw, unheard, spent>>

(* The process ends, and its goroutines with it.                           *)
EndProcess == main' = Down /\ mon' = MonOff /\ raw' = RawOff /\ unheard' = FALSE

Select(m) == [m EXCEPT !.at = "select", !.timer = 0, !.view = NoList]

(* updateDeviceCM lists the devices.                                       *)
ListDevices ==
    /\ main.at \in {"first", "probe", "event"}
    /\ \E view \in [Devices -> Entries] :
         /\ GetAllDevices(view)
         /\ main' = [main EXCEPT !.at = "publish", !.view = view,
                       !.next = IF main.at = "probe" THEN "check" ELSE "select"]
    /\ unheard' = FALSE
    /\ UNCHANGED <<dev, cm, mon, raw>>

(* What follows an update.  Before the first select the monitor starts.    *)
AfterUpdate ==
    IF main.first
    THEN /\ main' = [Select(main) EXCEPT !.first = FALSE, !.udev = TRUE]
         /\ mon' = [MonOff EXCEPT !.at = "idle"]
         /\ UNCHANGED <<raw, unheard>>
    ELSE /\ main' = IF main.next = "check" THEN [main EXCEPT !.at = "check"] ELSE Select(main)
         /\ UNCHANGED <<mon, raw, unheard>>

(* It writes the list if that differs.                                     *)
Publish ==
    /\ main.at = "publish"
    /\ cm' = [cm EXCEPT !.list = main.view]
    /\ AfterUpdate
    /\ UNCHANGED <<dev, spent>>

(* The list of the devices or a call of the API server fails: the first    *)
(* time the process ends, later the error is logged.                       *)
UpdateFails ==
    /\ main.at \in {"first", "probe", "event", "publish"} /\ Fault
    /\ IF main.first THEN EndProcess
       ELSE /\ main' = IF "probe" = main.at \/ (main.at = "publish" /\ main.next = "check")
                       THEN [main EXCEPT !.at = "check"] ELSE Select(main)
            /\ unheard' = (unheard /\ main.at = "publish")
            /\ UNCHANGED <<mon, raw>>
    /\ UNCHANGED <<dev, cm>>

(* checkDeviceClass; an error is not even logged.                          *)
CheckClass ==
    /\ main.at = "check"
    /\ \/ cm' = [cm EXCEPT !.ready = AllListed] /\ UNCHANGED spent
       \/ UNCHANGED cm /\ Fault
    /\ main' = Select(main)
    /\ UNCHANGED <<dev, mon, raw, unheard>>

(* Mutant: the timer makes it publish the devices only.                    *)
ProbeAsEvent ==
    /\ main.at = "select" /\ main.timer = ProbeInterval
    /\ main' = [main EXCEPT !.at = "event"]
    /\ UNCHANGED <<dev, cm, mon, raw, unheard, spent>>

Probe ==
    /\ main.at = "select" /\ main.timer = ProbeInterval
    /\ main' = [main EXCEPT !.at = "probe"]
    /\ UNCHANGED <<dev, cm, mon, raw, unheard, spent>>

ProbeOnEvent ==
    /\ main.at = "select" /\ main.udev /\ mon.at = "send"
    /\ main' = [main EXCEPT !.at = "event"]
    /\ mon' = [MonOff EXCEPT !.at = "idle"]
    /\ UNCHANGED <<dev, cm, raw, unheard, spent>>

(* Mutant: a closed channel, which is always ready, stays in the select.   *)
DisableUdevNever ==
    /\ main.at = "select" /\ main.udev /\ mon.at = "closed"
    /\ main' = Select(main)
    /\ UNCHANGED <<dev, cm, mon, raw, unheard, spent>>

(* The nil channel is never ready.                                         *)
DisableUdev ==
    /\ main.at = "select" /\ main.udev /\ mon.at = "closed"
    /\ main' = [Select(main) EXCEPT !.udev = FALSE]
    /\ UNCHANGED <<dev, cm, mon, raw, unheard, spent>>

(* SIGTERM in the select, or a death at any moment.                        *)
Terminate ==
    /\ main.at # "down" /\ Fault
    /\ EndProcess
    /\ UNCHANGED <<dev, cm>>

MainStep == StartProcess \/ ListDevices \/ Publish \/ UpdateFails \/ CheckClass
            \/ ProbeOnEvent \/ DisableUdev

(* Time passes for the two timers.                                         *)
Tick ==
    /\ main' = [main EXCEPT !.timer = IF main.at = "select" THEN Sooner(@, ProbeInterval) ELSE @]
    /\ mon' = [mon EXCEPT !.timer = IF mon.at = "collect" THEN Sooner(@, Period) ELSE @]
    /\ <<main', mon'>> # <<main, mon>>
    /\ UNCHANGED <<dev, cm, raw, unheard, spent>>

Next == MainStep \/ Probe \/ MonitorStep \/ Tick \/ Flap \/ UdevadmDies \/ Terminate
        \/ \E d \in Devices, kind \in Kinds : Change(d, kind)

Spec == Init /\ [][Next]_vars

(* Goroutines and time go on, and the pod is restarted.  When several      *)
(* cases of a select are ready Go takes one at random: the timer, when it  *)
(* has run down again and again, is taken again and again.                 *)
FairSpec ==
    /\ Spec
    /\ WF_vars(MainStep) /\ WF_vars(MonitorStep) /\ WF_vars(Tick)
    /\ SF_vars(Probe)

-----------------------------------------------------------------------------
(* Properties.                                                             *)

(* No wake-up is lost: the arrival or the removal of a device that udevadm *)
(* saw since the devices were listed last is on its way, in the pipe, in a *)
(* channel, in a collection or in the select loop, unless the monitor has  *)
(* ended.                                                                  *)
EventOnItsWay ==
    unheard =>
      \/ raw.lines > 0 \/ raw.at \in {"send", "closed"}
      \/ mon.at \in {"collect", "send", "closed"}
      \/ main.at \in {"probe", "event"}

(* Once the devices and the faults have come to rest the published list is *)
(* right for good, however many events other devices cause, and also when  *)
(* the monitor has ended or an event was missed: then by the timer.        *)
ListSettles == <>[](cm.list = Listed(NoneFailed))

(* The state of the class is only looked at when the timer fires, and each *)
(* event starts the timer anew.  If a probe interval passes without events *)
(* again and again, the shown state settles at the right one.              *)
StateSettles ==
    []<>(main.timer = ProbeInterval) => <>[](cm.ready = AllListed)
=============================================================================
