---------------------------- MODULE LoopDevices ----------------------------
(***************************************************************************)
(* Loop devices of one node.  The prepareVg job creates the files and loop *)
(* devices of disks with "auto", and records them in the ConfigMap         *)
(* (checkLoopDevice of controllers/preparevg_controller.go); the operator  *)
(* copies the records into the TopolvmCluster, from which the next run     *)
(* reads them; a reboot detaches every loop device, and the discover       *)
(* daemon sets the recorded ones up again when it starts                   *)
(* (checkLoopDevice of pkg/operator/discover/discover.go).                 *)
(*                                                                         *)
(* To LVM a loop device is the file behind it: here the Disks of module    *)
(* Lvm are files, and a file that no device is attached to is unplugged.   *)
(* There is one class with one volume group.  How lvm commands fail is in  *)
(* PrepareVg; here they fail only when LVM refuses.                        *)
(***************************************************************************)
EXTENDS Naturals, FiniteSets

CONSTANTS
    AutoDisks,   \* disks of type loop with auto: names of the specification
    UserDisks,   \* loop devices that a user has set up
    UserLoop,    \* the device number and the file of each of them
    Loops,       \* the numbers of loop devices
    Files,       \* the files behind loop devices, numbered as they are named
    Specs,       \* the lists of disks a user may give the class
    Vg,          \* the volume group of the class
    NoFile,      \* no device attached; a record without a file
    NoDev,       \* a record without a device name
    NoRecord,    \* the list of loops has no entry of this name
    MaxEdits, MaxFaults, MaxReboots, MaxBusy

VARIABLES
    spec,        \* the disks of the class
    attached,    \* the file behind each loop device
    own, busy,   \* the label in each file; the files that hold logical volumes
    names,       \* how many of Files have been used
    cm,          \* the node's status in the ConfigMap: loops and class
    copy,        \* the loops in the status of the TopolvmCluster
    job,         \* the running prepareVg job
    disc,        \* checkLoopDevice and retryLoopDevice of the daemon
    lagged,      \* history: a run has started from a copy that was behind
    taken,       \* history: a new loop got a device that a record names
    spent        \* how much of each bound is used

vars == <<spec, attached, own, busy, names, cm, copy, job, disc, lagged, taken, spent>>

LoopDisks == AutoDisks \cup UserDisks

(* LoopState.  ok stands for the status "successful".                      *)
Records == [ok: BOOLEAN, file: Files \cup {NoFile}, dev: Loops \cup {NoDev}]

LoopStates == [LoopDisks -> Records \cup {NoRecord}]

NoLoops == [d \in LoopDisks |-> NoRecord]

(* The class: no status at all, neither success nor fail class, or one.    *)
ClassStates == {"unknown", "none", "failed", "success"}

ASSUME LoopAssumption ==
    /\ AutoDisks \cap UserDisks = {}
    /\ Loops \subseteq Nat /\ IsFiniteSet(Files) /\ Files = 1..Cardinality(Files)
    /\ IsFiniteSet(Loops) /\ Cardinality(Loops) >= Cardinality(Files)
    /\ UserLoop \in [UserDisks -> [dev: Loops, file: Files]]
    /\ \A u, w \in UserDisks :
          UserLoop[u].dev = UserLoop[w].dev \/ UserLoop[u].file = UserLoop[w].file => u = w
    /\ \A u \in UserDisks : UserLoop[u].file <= Cardinality(UserDisks)
    /\ IsFiniteSet(AutoDisks) /\ IsFiniteSet(UserDisks)
    /\ NoFile \notin Files /\ NoDev \notin Loops /\ NoRecord \notin Records
    /\ {MaxEdits, MaxFaults, MaxReboots, MaxBusy} \subseteq Nat
    /\ Specs \subseteq (SUBSET LoopDisks) \ {{}}

L == INSTANCE Lvm WITH Disks <- Files, VGs <- {Vg}

ASSUME VgAssumption == Vg \notin {L!Raw, L!Orphan, L!Used}

Bound == [edit |-> MaxEdits, fault |-> MaxFaults, reboot |-> MaxReboots]

Spend(kind) == /\ spent[kind] < Bound[kind]
               /\ spent' = [spent EXCEPT ![kind] = spent[kind] + 1]

Jobs == [at: {"idle", "loops", "class", "commit"},
         want:  SUBSET LoopDisks,
         loops: LoopStates,          \* c.loopsState
         todo:  SUBSET LoopDisks,    \* disks that checkLoopDevice has not seen
         class: ClassStates]

IdleJob == [at |-> "idle", want |-> {}, loops |-> NoLoops, todo |-> {}, class |-> "unknown"]

Daemons == [at: {"read", "walk", "losetup", "sleep", "done"},
            loops:  LoopStates,
            todo:   SUBSET LoopDisks,
            cur:    SUBSET LoopDisks,    \* the loop about to be set up
            failed: BOOLEAN]

Starting == [at |-> "read", loops |-> NoLoops, todo |-> {}, cur |-> {}, failed |-> FALSE]

TypeOK ==
    /\ spec \in Specs
    /\ attached \in [Loops -> Files \cup {NoFile}]
    /\ own \in [Files -> L!Labels]
    /\ busy \subseteq Files
    /\ names \in Nat
    /\ cm \in [loops: LoopStates, class: ClassStates]
    /\ copy \in LoopStates
    /\ job \in Jobs
    /\ disc \in Daemons
    /\ lagged \in BOOLEAN /\ taken \in BOOLEAN
    /\ spent \in [edit: Nat, fault: Nat, reboot: Nat]

(* Users set their loop devices up before they name them.                  *)
Init ==
    /\ spec \in Specs
    /\ attached = [l \in Loops |->
                     IF \E u \in UserDisks : UserLoop[u].dev = l
                     THEN UserLoop[CHOOSE u \in UserDisks : UserLoop[u].dev = l].file
                     ELSE NoFile]
    /\ own = [f \in Files |-> L!Raw]
    /\ busy = {}
    /\ names = Cardinality(UserDisks)
    /\ cm = [loops |-> NoLoops, class |-> "unknown"]
    /\ copy = NoLoops
    /\ job = IdleJob
    /\ disc = Starting
    /\ lagged = FALSE /\ taken = FALSE
    /\ spent = [edit |-> 0, fault |-> 0, reboot |-> 0]

-----------------------------------------------------------------------------
(* What LVM sees through the loop devices.                                 *)

FilesBehind(devs) == {attached[l] : l \in devs \ {NoDev}} \ {NoFile}

Node == [own |-> own, busy |-> busy, gone |-> Files \ FilesBehind(Loops)]

Unattached == {l \in Loops : attached[l] = NoFile}

(* losetup -f: the first device that is not attached.                      *)
FirstFree == CHOOSE l \in Unattached : \A m \in Unattached : l <= m

-----------------------------------------------------------------------------
(* The job.                                                                *)

Created(r) == IF r = NoRecord THEN FALSE ELSE r.ok

(* Mutant: the run does not know the recorded loops.                       *)
RecordedNone == NoLoops

(* c.loopsState at the start: from the TopolvmCluster, not the ConfigMap.  *)
RecordedLoops == copy

(* Reconcile reads the TopolvmCluster: specification and recorded loops.   *)
JobStart ==
    /\ job.at = "idle"
    /\ names + Cardinality({d \in spec \cap AutoDisks : ~Created(RecordedLoops[d])}) <= Cardinality(Files)
    /\ job' = [IdleJob EXCEPT !.at = "loops", !.want = spec, !.loops = RecordedLoops, !.todo = spec]
    /\ lagged' = (lagged \/ copy # cm.loops)
    /\ UNCHANGED <<spec, attached, own, busy, names, cm, copy, disc, taken, spent>>

(* The devices that the ConfigMap names.                                   *)
Named == {cm.loops[d].dev : d \in {e \in LoopDisks : cm.loops[e] # NoRecord}}

Record(d, r) == job' = [job EXCEPT !.loops[d] = r, !.todo = @ \ {d}]

(* checkLoopDevice: a loop that was created before.                        *)
KnownLoop(d) ==
    /\ job.at = "loops" /\ d \in job.todo /\ Created(job.loops[d])
    /\ job' = [job EXCEPT !.todo = @ \ {d}]
    /\ UNCHANGED <<spec, attached, own, busy, names, cm, copy, disc, lagged, taken, spent>>

(* What is recorded of a creation: whatever CreateLoop returned, the       *)
(* status is "successful" in the end.                                      *)
LoopState(file, dev) == [ok |-> TRUE, file |-> file, dev |-> dev]

(* Mutant: losetup -l, whose first line is the first device.               *)
FirstListed == CHOOSE l \in Loops : \A m \in Loops : l <= m

(* losetup -j: the device that the file was attached to.                   *)
NewDevice == FirstFree

(* checkLoopDevice for a disk with auto, and CreateLoop: a new file,       *)
(* losetup -f, and the name of the device by losetup -j.  If the last      *)
(* command fails the device stays.                                         *)
CreateLoop(d) ==
    /\ job.at = "loops" /\ d \in job.todo \cap AutoDisks /\ ~Created(job.loops[d])
    /\ names' = names + 1
    /\ \/ /\ attached' = [attached EXCEPT ![FirstFree] = names']
          /\ Record(d, LoopState(names', NewDevice)) /\ UNCHANGED spent
       \/ /\ attached' \in {attached, [attached EXCEPT ![FirstFree] = names']}
          /\ Record(d, LoopState(names', NoDev)) /\ Spend("fault")
    /\ taken' = (taken \/ (attached' # attached /\ FirstFree \in Named))
    /\ UNCHANGED <<spec, own, busy, cm, copy, disc, lagged>>

(* checkLoopDevice for a user's loop device: GetLoopBackFile fails if the  *)
(* device is not attached.                                                 *)
RecordUserLoop(d) ==
    LET dev == UserLoop[d].dev
    IN  /\ job.at = "loops" /\ d \in job.todo \cap UserDisks /\ ~Created(job.loops[d])
        /\ \/ Record(d, LoopState(attached[dev], dev)) /\ UNCHANGED spent
           \/ Record(d, LoopState(NoFile, dev)) /\ Spend("fault")
        /\ UNCHANGED <<spec, attached, own, busy, names, cm, copy, disc, lagged, taken>>

Devices(disks) == {job.loops[d].dev : d \in disks}

(* createVg and createVgRetry.  A loop without a device name is skipped by *)
(* the check of the devices, not by pvcreate, which then fails on its      *)
(* name; so does vgcreate on a device that is given twice.                 *)
CreateVg(n) ==
    LET files == FilesBehind(Devices(job.want))
        usable == /\ \A l \in Devices(job.want) \ {NoDev} : attached[l] # NoFile
                  /\ files \subseteq L!AvailableDevices(n)
        named == /\ NoDev \notin Devices(job.want)
                 /\ Cardinality(files) = Cardinality(job.want)
        Class(o) == [node |-> o.node, class |-> IF o.ok THEN "success" ELSE "failed"]
    IN  IF ~usable THEN {[node |-> n, class |-> "failed"]}
        ELSE IF named THEN {Class(o) : o \in L!CreateVolumeGroup(n, Vg, files, FALSE)}
        ELSE {[node |-> L!Relabel(n, S, L!Orphan), class |-> "failed"] : S \in SUBSET files}

(* Mutant: the entry goes although the group stays.                        *)
AfterRemovalGone(ok) == "none"

(* A group that could not be removed stays a success class.                *)
AfterRemoval(ok) == IF ok THEN "none" ELSE "success"

(* checkVgIfExpand and checkVgIfShrink.  The first resolves the names of   *)
(* the loops in a copy; the second compares the members with the           *)
(* unresolved names, so that every loop with auto is to leave.             *)
ResizeVg(n) ==
    LET wanted   == FilesBehind(Devices(job.want))
        named    == FilesBehind(Devices(job.want \cap UserDisks))
        Grown    == {o.node : o \in UNION {
                       IF pvs = {} THEN {L!Done(n)} ELSE L!ExpandVolumeGroup(n, Vg, pvs, FALSE) :
                         pvs \in L!CreatePhysicalVolumes(n, wanted \ L!Members(n, Vg), FALSE)}}
        Reduced(m) ==
          LET pvs   == L!PhysicalVolumes(m, Vg)
              extra == pvs \ named
          IN  IF extra = {} THEN {[node |-> m, class |-> "success"]}
              ELSE IF extra = pvs /\ ~L!Partial(m, Vg)
              THEN {[node |-> o.node, class |-> AfterRemoval(o.ok)] :
                      o \in L!RemoveVolumeGroup(m, Vg, FALSE)}
              ELSE {[node |-> o.node, class |-> "success"] :
                      o \in L!ShrinkVolumeGroup(m, Vg, extra, FALSE)}
    IN  IF L!Readable(n, Vg) THEN UNION {Reduced(m) : m \in Grown}
        ELSE {[node |-> n, class |-> "success"]}

(* The rest of provision: the ConfigMap, and the one class.                *)
ProvisionClass ==
    /\ job.at = "loops" /\ job.todo = {}
    /\ \E o \in IF cm.class = "success" THEN ResizeVg(Node)
                ELSE IF cm.class = "unknown" /\ L!Readable(Node, Vg)
                THEN {[node |-> Node, class |-> "none"]}
                ELSE CreateVg(Node) :
          /\ own' = o.node.own
          /\ job' = [job EXCEPT !.at = "commit", !.class = o.class]
    /\ UNCHANGED <<spec, attached, busy, names, cm, copy, disc, lagged, taken, spent>>

JobCommit ==
    /\ job.at = "commit"
    /\ cm' = [loops |-> job.loops, class |-> job.class]
    /\ job' = IdleJob
    /\ UNCHANGED <<spec, attached, own, busy, names, copy, disc, lagged, taken, spent>>

JobDie ==
    /\ job.at # "idle" /\ Spend("fault")
    /\ job' = IdleJob
    /\ UNCHANGED <<spec, attached, own, busy, names, cm, copy, disc, lagged, taken>>

JobStep ==
    \/ \E d \in LoopDisks : KnownLoop(d) \/ RecordUserLoop(d)
    \/ \E d \in AutoDisks : CreateLoop(d)
    \/ ProvisionClass
    \/ JobCommit

-----------------------------------------------------------------------------
(* The daemon.                                                             *)

DaemonOnly == UNCHANGED <<spec, own, busy, names, cm, copy, job, lagged, taken>>

(* checkLoopDevice reads the ConfigMap; without a status it is done.       *)
ReadRecords ==
    /\ disc.at = "read"
    /\ disc' = IF cm.class = "unknown" THEN [Starting EXCEPT !.at = "done"]
               ELSE [at |-> "walk", loops |-> cm.loops, cur |-> {}, failed |-> FALSE,
                     todo |-> {d \in LoopDisks : Created(cm.loops[d])}]
    /\ DaemonOnly /\ UNCHANGED <<attached, spent>>

Listed(r) == IF r.dev = NoDev THEN FALSE ELSE attached[r.dev] # NoFile

(* Mutant: the devices are not listed first.                               *)
NothingToDoNever(r) == FALSE

NothingToDo(r) == Listed(r)

(* ReSetupLoop lists the devices: nothing to do if the device is there,    *)
(* whatever its file.                                                      *)
ListLoops(d) ==
    /\ disc.at = "walk" /\ d \in disc.todo
    /\ \/ /\ disc' = IF NothingToDo(disc.loops[d]) THEN [disc EXCEPT !.todo = @ \ {d}]
                     ELSE [disc EXCEPT !.at = "losetup", !.todo = @ \ {d}, !.cur = {d}]
          /\ UNCHANGED spent
       \/ /\ disc' = [disc EXCEPT !.todo = @ \ {d}, !.failed = TRUE]
          /\ Spend("fault")
    /\ DaemonOnly /\ UNCHANGED attached

(* losetup needs a device that is not in use and a file.                   *)
CanSetUp(r) == r.dev # NoDev /\ r.file # NoFile /\ ~Listed(r)

(* Mutant: losetup -f, which takes any free device.                        *)
SetUpLoopAnywhere(d) ==
    LET r == disc.loops[d]
    IN  /\ disc.at = "losetup" /\ disc.cur = {d}
        /\ \/ /\ CanSetUp(r)
              /\ attached' = [attached EXCEPT ![FirstFree] = r.file]
              /\ disc' = [disc EXCEPT !.at = "walk", !.cur = {}]
              /\ UNCHANGED spent
           \/ /\ UNCHANGED attached
              /\ disc' = [disc EXCEPT !.at = "walk", !.cur = {}, !.failed = TRUE]
              /\ IF CanSetUp(r) THEN Spend("fault") ELSE UNCHANGED spent
        /\ DaemonOnly

SetUpLoop(d) ==
    LET r == disc.loops[d]
    IN  /\ disc.at = "losetup" /\ disc.cur = {d}
        /\ \/ /\ CanSetUp(r)
              /\ attached' = [attached EXCEPT ![r.dev] = r.file]
              /\ disc' = [disc EXCEPT !.at = "walk", !.cur = {}]
              /\ UNCHANGED spent
           \/ /\ UNCHANGED attached
              /\ disc' = [disc EXCEPT !.at = "walk", !.cur = {}, !.failed = TRUE]
              /\ IF CanSetUp(r) THEN Spend("fault") ELSE UNCHANGED spent
        /\ DaemonOnly

(* Mutant: nothing is retried.                                             *)
EndWalkOnce ==
    /\ disc.at = "walk" /\ disc.todo = {}
    /\ disc' = [Starting EXCEPT !.at = "done"]
    /\ DaemonOnly /\ UNCHANGED <<attached, spent>>

(* One failure makes retryLoopDevice wait and start again.                 *)
EndWalk ==
    /\ disc.at = "walk" /\ disc.todo = {}
    /\ disc' = [Starting EXCEPT !.at = IF disc.failed THEN "sleep" ELSE "done"]
    /\ DaemonOnly /\ UNCHANGED <<attached, spent>>

RetryLoops ==
    /\ disc.at = "sleep"
    /\ disc' = Starting
    /\ DaemonOnly /\ UNCHANGED <<attached, spent>>

DaemonDie ==
    /\ disc.at # "read" /\ Spend("fault")
    /\ disc' = Starting
    /\ DaemonOnly /\ UNCHANGED attached

DaemonStep ==
    \/ ReadRecords
    \/ \E d \in LoopDisks : ListLoops(d) \/ SetUpLoop(d)
    \/ EndWalk
    \/ RetryLoops

-----------------------------------------------------------------------------
(* Everything around them.                                                 *)

(* The operator copies the status of the node into the TopolvmCluster.     *)
CopyStatus ==
    /\ cm.class # "unknown" /\ copy # cm.loops
    /\ copy' = cm.loops
    /\ UNCHANGED <<spec, attached, own, busy, names, cm, job, disc, lagged, taken, spent>>

EditSpec ==
    /\ Spend("edit")
    /\ spec' \in Specs \ {spec}
    /\ UNCHANGED <<attached, own, busy, names, cm, copy, job, disc, lagged, taken>>

(* The class is served as long as it is a success class.                   *)
CreateLv(f) ==
    /\ cm.class = "success" /\ own[f] = Vg /\ f \notin busy
    /\ Cardinality(busy) < MaxBusy
    /\ L!Readable(Node, Vg) /\ ~L!Partial(Node, Vg)
    /\ busy' = busy \cup {f}
    /\ UNCHANGED <<spec, attached, own, names, cm, copy, job, disc, lagged, taken, spent>>

DeleteLv(f) ==
    /\ f \in busy \ Node.gone
    /\ busy' = busy \ {f}
    /\ UNCHANGED <<spec, attached, own, names, cm, copy, job, disc, lagged, taken, spent>>

(* All loop devices are gone, and the processes with them.                 *)
Reboot ==
    /\ Spend("reboot")
    /\ attached' = [l \in Loops |-> NoFile]
    /\ job' = IdleJob
    /\ disc' = Starting
    /\ UNCHANGED <<spec, own, busy, names, cm, copy, lagged, taken>>

Next ==
    \/ JobStart \/ JobStep \/ JobDie
    \/ DaemonStep \/ DaemonDie
    \/ CopyStatus \/ EditSpec \/ Reboot
    \/ \E f \in Files : CreateLv(f) \/ DeleteLv(f)

Spec == Init /\ [][Next]_vars

(* The daemon is a goroutine with a sleep in it.                           *)
FairSpec == Spec /\ WF_vars(DaemonStep)

-----------------------------------------------------------------------------
(* Properties.                                                             *)

(* A record that says which file is behind which device.                   *)
Complete(r) == IF r = NoRecord THEN FALSE ELSE r.ok /\ r.file # NoFile /\ r.dev # NoDev

(* Until a node is rebooted, every complete record names the device that   *)
(* its file is attached to, although runs overlap with the daemon's losetup*)
(* and die at any point.  Two records then never share a device.           *)
RecordsTrue ==
    spent.reboot = 0 =>
      \A d \in LoopDisks :
        Complete(cm.loops[d]) => attached[cm.loops[d].dev] = cm.loops[d].file

(* No file is ever behind two loop devices, on which LVM would find the    *)
(* same physical volume twice: neither a run that takes free devices while *)
(* the daemon sets up recorded ones, nor records that are behind, nor a    *)
(* device that a new loop got after a reboot bring it about.               *)
OneDevice ==
    \A l, m \in Loops : attached[l] = attached[m] /\ attached[l] # NoFile => l = m

(* A run that reads an up-to-date copy does not create a loop device that  *)
(* is there already: without failures and reboots, every file that is      *)
(* attached between runs has a record.                                     *)
NoLeakedLoop ==
    /\ ~lagged /\ spent.fault = 0 /\ spent.reboot = 0 /\ job.at = "idle"
    /\ cm.class # "unknown"
    => \A f \in FilesBehind(Loops) :
         \/ \E d \in LoopDisks : cm.loops[d] # NoRecord /\ cm.loops[d].file = f
         \/ \E u \in UserDisks : UserLoop[u].file = f

(* A class with logical volumes stays a success class, also for a run      *)
(* between a reboot and the daemon's losetup, when LVM does not list the   *)
(* group, and although a run takes loops with auto for unlisted devices.   *)
UsedClassKept ==
    [][JobCommit /\ cm.class = "success" /\ L!HasLogicalVolume(Node, L!Members(Node, Vg))
         => cm'.class = "success"]_vars

(* "if node restart,operator will lostup loop again"                       *)
(* (docs/user_manual.md:296): whatever fails, and although other records   *)
(* cannot be set up, every complete record's file is attached to its       *)
(* device again.  There are two ways to lose it: a run that starts from a  *)
(* copy that is behind puts an old record back after the daemon is done,   *)
(* and a run that creates a loop before the daemon is done may be given    *)
(* the device, which the daemon then takes for the recorded one.           *)
LoopsRestored ==
    [](~lagged /\ ~taken) =>
      \A d \in LoopDisks :
        []<>(Complete(cm.loops[d]) => attached[cm.loops[d].dev] = cm.loops[d].file)

(* The goroutine that retries ends, if all records are complete.           *)
RetryEnds ==
    [](\A d \in LoopDisks : cm.loops[d] # NoRecord => Complete(cm.loops[d]))
      => <>[](disc.at = "done")
=============================================================================
