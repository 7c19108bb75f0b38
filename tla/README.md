# TopoLVM operator: specifications, model checking and proofs

The operator turns a `TopolvmCluster` resource into LVM volume groups on the
nodes of a Kubernetes cluster and keeps the node plugin's configuration
(`lvmd.yaml`) and the resource's status in step with them. This directory holds
TLA+ modules translated from the Go sources, TLC configurations that check
them on small instances, and TLAPS proofs that hold for every instance.

## The system

| component | state | operations | talks to |
|---|---|---|---|
| prepareVg job, one pod per run and node (`controllers/preparevg_controller.go`, `pkg/util/sys/lvm.go`) | local: wanted classes, available disks, the ConfigMap it read, success and fail classes | list disks; create, extend, reduce, remove volume groups; write status and `lvmd.yaml` | LVM; node ConfigMap; reads the TopolvmCluster |
| node ConfigMap `lvmdconfig-<node>` (`pkg/operator/k8sutil/configmap.go`) | keys `devices`, `status`, `lvmd` | patch, create or patch | written by job, discover, operator (owner references); mounted by topolvm-node |
| discover daemon, one pod per node (`pkg/operator/discover/discover.go`) | the select loop of `Run` with its timer, two goroutines for udev events, one for loop devices | publish the device list; compare recorded classes with LVM; set up loop devices again | LVM, udevadm; node ConfigMap |
| loop devices (`checkLoopDevice` of the job and of the daemon, `pkg/util/sys/loop.go`) | records in the node's status, and in the TopolvmCluster | create and record; set up again after a reboot | losetup; LVM; node ConfigMap |
| command execution (`pkg/util/exec/exec.go`) | one process, two pipes | run to the log, to a string, to a file, with a timeout | processes |
| TopolvmCluster controller (`controllers/topolvmcluster_controller.go`) | `lastCluster`, finalizer | start jobs, the controller deployment and the discover DaemonSet; clean up on deletion | Jobs, Deployments, TopolvmCluster |
| ConfigMap controller (`controllers/lvmdconfig_controller.go`) | informer cache | copy the status of a node into the TopolvmCluster; restart jobs; create the node deployment or restart its pod | node ConfigMap, TopolvmCluster, Deployments |
| status checker and metrics (`pkg/operator/monitor`, `pkg/metric`) | `statusLock`, a channel | phases of nodes and cluster, every minute | pods, TopolvmCluster, exporter |
| operator settings controller (`controllers/operatorconfig_controller.go`) | none | discover DaemonSet, CSI driver | settings ConfigMap |
| helpers (`pkg/operator/k8sutil`) | none | replaceable jobs, delete and wait, status update | API server |

The hard behaviour is at two places. On the node, the job and the daemon share
one ConfigMap which both read, work for seconds to minutes, and then patch
without a resource version; the job runs sequences of lvm commands each of which
may fail or be cut short by the death of the pod, and the next run has only the
ConfigMap to go by. In the operator, informer callbacks, reconciles,
goroutines and a timer update the same status and decide by copies of it
when another run is needed.

What makes each component correct:

- **Job**: it never touches volume groups it did not create; what it records
  about success, failure and served classes agrees; a group in use stays
  served; a disk is lost only with a class that cannot be had; a class that can be created
  eventually is.
- **ConfigMap**: writers keep each other's keys.
- **Daemon**: the device list and the states of the classes become right again,
  and no udev event is lost between its goroutines.
- **Loop devices**: a record says which file is behind which device, no file is
  behind two of them, no loop is created twice, and after a reboot the recorded ones are attached again.
- **Commands**: success means a complete output; no call waits for ever.
- **Controllers**: every edit is eventually applied; the status in the
  TopolvmCluster converges to the ConfigMaps; deletion cleans up.
- **Status checker**: the cluster is ready only if a node is; no one waits
  forever for the lock.

The list of what can go wrong, line by line, is under `hazards` in PROJECT.json.

## The modules

| module | models | state |
|---|---|---|
| `Lvm` | the wrappers of `pkg/util/sys/lvm.go` and `GetAvailableDevices`, as operators from a node to the set of its possible outcomes | none |
| `NodeConfigMap` | the ConfigMap's keys, `PatchConfigMap`, `CreateOrPatchConfigmap` | none |
| `PrepareVg` | the job, with users, disks and kubelet around it | `node`, `spec`, `cm`, `job`, history `made`, budgets `spent` |
| `JobRetries` | who runs the job again: the status on its way from the ConfigMap into the TopolvmCluster, by which the operator decides (EXTENDS `PrepareVg`) | and `reported`, `events`, history `lost` |
| `Discover` | the daemon | `node`, `cm`, `disc` |
| `NodeStorage` | job and daemon on one node and one ConfigMap (EXTENDS `PrepareVg`, INSTANCE `Discover`) | all of these |
| `DiscoverDaemon` | the daemon's process: select loop, udev goroutines, channels, listing with commands that fail | `dev`, `cm`, `main`, `mon`, `raw`, history `unheard` |
| `LoopDevices` | loop devices: a run of the job, the operator's copy, the daemon, reboots (INSTANCE `Lvm`) | `spec`, `attached`, `own`, `busy`, `names`, `cm`, `copy`, `job`, `disc`, histories `lagged`, `taken` |
| `CommandExecution` | the ways to run a command, and its process | `call`, `child`, `heir`, `pipe`, `reader` |
| `ClusterReconciler` | the reconcile of the TopolvmCluster, its deletion, the status checker's goroutine, the settings controller, the job and the node plugin as far as these depend on it | `cluster`, `leftover`, `daemonset`, `queue`, `recon`, `op`, `nodes` |
| `JobRunner` | the one prepareVg Job of a node and the goroutines that find, wait for, delete and create it | `edits`, `handled`, `caller`, `job`, `applied` |
| `StatusSync` | the two writers of the TopolvmCluster's status, the lock and the cache | `cm`, `pod`, `lost`, `cluster`, `cache`, `queue`, `informer`, `checker`, `metric` |
| `NodeDeployments` | the informer that creates and reloads the topolvm-node Deployments, and the update of images | `image`, `lvmd`, `dep`, `pod`, `template`, `recon`, `stream`, `known`, `hand` |
| `AtomicStatus` | abstract: the status changes as if each writer read and wrote it in one step | `status` |
| `EditedNode` | abstract: the versions of a specification are carried out in order | `edits`, `applied` |
| `OwnedGroups` | abstract: what the job may do to disks with data and to groups that it has not created | `members`, `data`, `ours`, `served` |
| `MCPrepareVg`, `MCJobRetries`, `MCNodeStorage`, `MCLoopDevices`, `MCStatusSync` | instances for TLC (the other modules' constants are given in their cfg) | |
| `PrepareVgProofs`, `NodeStorageProofs`, `DiscoverDaemonProofs`, `ClusterReconcilerProofs`, `JobRunnerProofs`, `StatusSyncProofs`, `LoopDevicesProofs`, `CommandExecutionProofs` | lemmas, inductive invariants, theorems | |

The two halves meet in a few places, and each module keeps the other side as
its environment. The ConfigMap's status that `PrepareVg` and `Discover` write
is `StatusSync`'s `WriteCm`, their `lvmd.yaml` is `NodeDeployments`' `WriteLvmd`.
`RunJobs` in `ClusterReconciler` is a run that `JobRunner` looks into, and
`JobRunner`'s pod is a run of `PrepareVg`. `DiscoverDaemon` says when the steps of
`Discover` happen: its `ListDevices`, `Publish` and `CheckClass` are `StartProbe`,
`PublishDevices` and the three steps after it. `LoopDevices` has the same job and
daemon once more, reduced to one class, for the devices that a reboot takes away.
`JobRetries` closes the loop: job, ConfigMap, informer, TopolvmCluster, reconcile, job.

### Refinement

`StatusSync` implements `AtomicStatus` (`StatusIsAtomic`): the mapping is the status that
the API server has. Each write of the informer must be a `Record` of one
node, each write of the checker an `Assess` of the status as it is at that moment,
although both compute it from copies taken earlier: that is what the resource version, the
lock and the refusal of stale updates are for. `Assess` says what an assessment
may do: keep every node and its classes, add nodes, call a node Ready only if it has a
Ready class. `JobRunner` implements `EditedNode` (`RunsInOrder`): a run that completes
carries out a version no older than the last one, whoever started it.

`PrepareVg` implements `OwnedGroups` (`GroupsAreOurs`), which knows no runs, no
specification and no ConfigMap: groups and their disks, the disks with data (a logical
volume or a file system), the groups that a run has created, and the groups of
`lvmd.yaml`. Each step, also that of a run that is cut short after any of its
commands, must be one of: a group that did not exist gets disks without data; a group
of ours loses or gains disks without data; `lvmd.yaml` is written anew, with groups of ours only
and with new ones that exist; a served group gets a logical volume; data is deleted. So nothing
that a run has read, however old or wrong, costs anyone a disk.

The refinements are model-checked, and proved for all values of the constants.

### How the models correspond to the code

*Disks.* A disk carries nothing (`Raw`), an LVM label without a group
(`Orphan`), a file system or mount (`Used`), or belongs to a group. This is
all that the code distinguishes: `GetAvailableDevices` takes a label for a file
system, and `pvcreate` accepts `Raw` and `Orphan`. Sizes, partitions and types
are left out. A group exists as long as a disk belongs to it, also when all of
its disks are unplugged (then LVM cannot list it). A group with a missing
member is listed with the member `[unknown]`, and LVM refuses to change it.

*Commands.* A wrapper such as `CreateVolumeGroup` runs several commands and
stops at the first error. Its operator is the set of all `[node, ok]` it can
leave: LVM's own refusals always, and every prefix of the commands when a
command may fail for another reason (`fault`). Only the job writes labels, and
LVM itself refuses what is unsafe, so the commands for one class are one action;
the death of a pod (`JobDie`) may leave any of the intermediate nodes too.

*A run.* `JobStart` joins the read of the TopolvmCluster, the disk scan and
the read of the ConfigMap: nothing that a run does in between depends on
their order. `ProvisionClass` is the body of the loop over the classes, in any
order (the order of the list does not matter as classes have different groups
and the scan of the disks is not repeated). `DropClass` is the loop of `checkVgIfDelete`.
`JobCommit` is the rest: `updateLvmdConf` or `createLvmdConf`, `updateVgStatus`
and the patch, which is computed from the ConfigMap the run read and applied
to the one that is there by then. Its first disjunct is `CreateOrPatchConfigmap`,
the third one stands for a status that says the same in another order
(`updateVgStatus` ranges over Go maps), so that the patch carries it. If the
ConfigMap appears between the read and the create of `CreateOrPatchConfigmap`, the
call fails and nothing is written: that is `JobDie`.
At most one job per node runs at a time (`RunReplaceableJob`).

*Specification.* `spec.classes` maps volume groups to classes, so a group is
listed once; within one specification class names differ (an assumption). With
`all` (useAllDevices) the job fills in the disks. A node that is missing from the
device classes altogether is not modelled; an empty list of classes is. (Such a
node's name stays empty in the run, which then works on another ConfigMap.)

*Status.* Success classes with state and device states, fail classes as marks.
Messages are dropped. A class that failed because its group already existed is
written without its VgName, so a later run does not find it: mark `existing`.
`lvmd.yaml` is a set of entries; the code's list could hold equal ones twice.

*Daemon.* `StartProbe` reads disks and ConfigMap, `PublishDevices` patches;
after a timer's probe `ReadStatus`, `ListVolumes` and `ReportStatus` follow.
`Restart` is the death and restart of the daemon's pod.

*Around them.* `EditSpec`, `CreateLv`/`DeleteLv` (on served groups only),
`Unplug`/`Plug`, `Wipe`. `MaxEdits`, `MaxFaults`, `MaxWipes` and `MaxUnplugs`
bound how often each of these may happen, `MaxEvents` all of them together; `made` is
a history variable that no action reads.

*Retries.* In `JobRetries` a commit of the job (`CommitSeen`) leaves an event, which the
informer handles later (`Report`, `UpdateStatus`): `reported` is the node's entry in the
status of the TopolvmCluster. An update from a copy that is behind is refused and not
repeated (`lost`); why copies are behind is in `StatusSync`. `HasFailClass` is the decision of
`startPrepareVolumeGroupJob`, made of `reported`. The daemon is left out here.

Definitions called "Mutant" are plausible bugs of the definition after them;
nothing uses them. Each shows that some property can fail.

*`DiscoverDaemon`.* `main.at` is the place of `Run`, `mon` and `raw` are the
goroutines `udevBlockMonitor` and `rawUdevBlockMonitor`. The channels are unbuffered,
so `ReceiveEvent` and `ProbeOnEvent` are a send and its receive in one step; a closed
channel is `closed` until the select sets its variable to nil (`DisableUdev`).
`timer` counts the ticks since `time.After` was called, and every arm of the select
calls it anew (`Select`). `GetAllDevices` runs three commands per device, and what
a failing one does to its entry is `EntryOf`: without the properties the device is
skipped, without udevadm info no file system is seen, and partitions that cannot be
listed count as none. `matchUdevEvent` lets through only lines of added and removed
devices: that a disk was formatted or became a physical volume is a `change`, which
only the timer finds. The state of the class (`cm.ready`) is one for all its members.

*`LoopDevices`.* To LVM a loop device is the file behind it, so the `Disks` of `Lvm`
are the files, and a file that nothing is attached to is unplugged. `names` counts
the files that `CreateLoop` has named (they are UUIDs). A run's loops come from
`copy`, the status in the TopolvmCluster, while the daemon's come from the ConfigMap.
`LoopState` is what is recorded of a creation, also of one that failed: line 764 of the
job overwrites the status. `CreateVg` and `ResizeVg` are `PrepareVg`'s
for one class, with what is different for loop devices: the names that are resolved and
those that are not. LVM fails here only when it refuses; any other failure is in `PrepareVg`.
`Reboot` detaches everything and ends both processes. The arguments of losetup, and
what it needs, are external.

*`CommandExecution`.* One call at a time of one of four kinds, its process with a
plan (how many lines on which pipe, whether one of them is too long for
`bufio.Scanner`, whether it hangs), a process it may leave behind (`heir`), and the two
readers: a goroutine and the caller itself for the log, the goroutines of os/exec
otherwise. `Wait` waits for the readers in the second case only. A pipe for the log that cannot
be made is no error (`StartUncollected`): the command runs, and nobody reads. Nobody in the repository
calls the two variants with a timeout today; the module has them since they are part of the
executor's interface.

### The operator's modules

*`ClusterReconciler`.* One action per stretch of `reconcile` and `onAdd`
between two calls to the API server; `recon.at` names what comes next, `recon.copy`
is the object that was fetched. `op` is the memory of the process: `lastCluster`,
`namespacedName` (`watched`), `stopCh`, the checker that listens to it, checkers that
listen to a channel nobody holds any more (`orphans`), the goroutine that is
about to start jobs. `Crash` loses it, and so does a panic (closing a nil or closed
channel, dereferencing a nil `lastCluster`), after which `Recover` starts the
process again. `ReturnError` is any call that fails and sends the name back to the
queue; the errors of `CleanCluster` and of patching a node are ignored or logged only.
`nodes` is the job and the node plugin of one node: `RunJobs` creates a job, or comes to nothing
(`missed`) because one is active or a call fails, of which the reconciler learns
nothing; the pod reads the TopolvmCluster later (`ReadStorage`). A job and a plugin whose
cluster is gone are collected some time later, and until then a plugin may annotate its node. The storage is a number, of which
`checkStorageConfig` refuses some; equality with `lastCluster`'s is all `onAdd`
asks. One TopolvmCluster exists at a time, `IsOperatorHub` holds (the clean-up runs
in the operator only then). What has to be cleaned up is `leftover`.

*`JobRunner`.* Each request is a goroutine; its places are the calls of
`RunReplaceableJob`. Edits are numbered; `applied` is the number the last
completed run has read. `Job` objects, their pods and foreground deletion
behave as Kubernetes documents; those definitions are marked external in the map.
The controller's answer to a request (which nodes get one) is
`ClusterReconciler`'s.

*`StatusSync`.* The classes of a node are one of three values: none, some, some of
which one is Ready; this is all that `checkStatus` asks about them. A copy of the
status carries the flag `latest`: whether its resource version is still current.
An update from a copy that is not is refused, and the code drops it
(`UpdateStatus`). The informer holds `statusLock` from `HandleEvent` to
`FinishEvent`, the checker from `ComputeStatus` to `WriteStatus`; listing pods and
the channel to the exporter are steps of their own. Client reads come from the
manager's cache, which `SyncCache` brings up to date.

*`NodeDeployments`.* `stream` is what the watch of the ConfigMaps will deliver,
`known` the informer's store (the old object of `onUpdate`). `CheckDeployment`,
`ReplaceNodePod`, `DeleteOld`, `WaitForDeletion` and `CreateNodeDeployment` are the
calls of `onAdd` and `onUpdate`. The loop of `startReplaceNodeDeployment`
works off the list it took, updates with the listed resource versions (`stale`), and
returns at the first Deployment that is up to date. `cluster.TopolvmImage` is
shared by both without a lock: `template`. A pod reads `lvmd.yaml` when it starts.

## The runs

| run | instance | shows |
|---|---|---|
| `prepare_vg` | 3 disks, 2 groups, 2 classes; nodes: one disk used, foreign group with data; 6 specifications; 2 events of any kind: edits, faults, a wipe, an unplugged disk; 1 status on its way to the TopolvmCluster, which may be refused; fair | `StatusMatchesLvmd`, `LvmdWellFormed`, `ServedExists`, `CreatedIsServed`, `GroupsAreOurs`, `KeepsInUse`, `StatusComplete`, `LossesExplained`, `EventuallyServed` |
| `node_storage` | 2 disks, 1 group; 1 edit, 1 fault, 1 unplugged disk; fair | `KeysKept`, `DevicesPublished`, `StatesShown` |
| `daemon` | 1 device of the class; 2 changes, 3 faults, any number of other events; fair | `EventOnItsWay`, `ListSettles`, `StateSettles` |
| `loops` | 2 disks with auto, 1 loop of a user; 3 files, 3 devices; 1 edit, 1 fault, 1 reboot; fair | `RecordsTrue`, `OneDevice`, `NoLeakedLoop`, `UsedClassKept`, `LoopsRestored`, `RetryEnds` |
| `commands` | pipes of 1 line, up to 2 lines on each; every plan and kind of call; fair | `SuccessIsComplete`, `CallsReturn` |
| `cluster` | 1 name, 3 storages of which 1 is refused; 3 of: 2 creations, an edit, a fault, a crash, a device change, a late annotation; fair | `OneChecker`, `StorageApplied`, `DeletionCompletes`, `CleanedUp`, `LoopsDiscovered` |
| `jobs` | 3 callers, 2 edits, 1 more request, 1 failing call, 1 killed pod, time-outs; fair | `CallServed`, `CallsReturn`, `RunsInOrder` |
| `status` | 2 nodes, pods up or missing; 2 writes, 1 change of a pod or node, 1 other update or restart; fair | `NoLostUpdate`, `PhasesConverge`, `StatusKept`, `MetricConverges`, `StatusIsAtomic` |
| `deployments` | 2 nodes; 1 new image, 2 writes of lvmd.yaml, 1 other change, 2 faults, 1 crash; fair | `DeploymentsCreated`, `LvmdReloaded`, `UpdateCompletes`, `FailureRepaired` |
| `lost_class` | 3 disks, a class of two and one whose disk is wiped; 1 unplug | finds a class lost to the daemon's stale write (`CreatedIsServed`) |
| `dropped_edit` | 1 caller, 2 edits, nothing fails; fair | finds an edit that no run carries out (`EditsApplied`) |
| `lost_status` | 2 nodes, 2 writes, nothing else; fair | finds classes that never reach the TopolvmCluster (`StatusConverges`) |

The type invariants are checked by no run, as they are proved for every module but
`NodeDeployments`, and so are `ForeignUntouched` and `SuccessOrFailure`.

The three runs that find something are the disagreements with the documentation
listed under `findings` in PROJECT.json, each with the quoted line. The models
contain more of them, without a run of their own:

- With useAllDevices a second run finds no available disk, takes all members of the
  (empty) group for surplus and removes it (`preparevg_controller.go:470`); "use all
  available devices of each node" (docs/user_manual.md:45) reads otherwise.
- The cluster's phase is computed from the copy of the range loop, before a node is set
  to Failure (`monitor/status.go:226`): it is Ready although every node failed, and
  the alert "Topolvm cluster is unavailable." (`monitor/rule.go:30`) does not fire.
- A loop device whose creation failed is recorded as successful, without a
  device (`preparevg_controller.go:764`): no run creates it again, and the daemon
  retries to set it up for ever.
- A run that starts from loop records that lag behind the ConfigMap puts the older
  records back, and creates a second loop device for the same disk. A run after a reboot
  may get the number of a recorded loop device for a new one, and the daemon, which
  only compares numbers, then takes that one for it (docs/user_manual.md:296:
  "if node restart,operator will lostup loop again").
- The finalizer is removed, with which the TopolvmCluster is gone, before annotations and CSI
  driver are removed (`topolvmcluster_controller.go:183`, 188, 194), so that an error or a crash
  in between leaves them; line 172 says "Set a finalizer so we can do cleanup before the object
  goes away".
- A second run of the job takes loop devices with auto for surplus, as it compares
  resolved with unresolved names (`preparevg_controller.go:410`).

*Bounds.* Three disks and two groups are enough for a class to grow, shrink,
and change its only disk while another class comes and goes, and for a foreign
group to hold the wanted name. Two events of any kind give add-then-remove,
grow-then-shrink, and a fault at any command, a wipe or an unplugged disk before or after an
edit, each followed by any number of further runs; the safety properties are proved for any
number of events. One status on its way lets the next run start from a decision
that was made on the one before.
Runs of the job, logical volumes and re-plugging are not bounded.
One device is enough in `daemon`, since the lines of others are `Flap`; an interval
longer than the period lets events come before, during and after a collection;
three faults let udevadm die, the process be restarted and a command fail. In `loops`
a file per disk and one that a second run may add show who gets which device.
A pipe of one line with two lines to come blocks, which is all a pipe does.
In the operator, what matters is one event between two steps of a handler, and what
comes after: two creations give a second cluster after a deletion,
one edit a storage that differs from `lastCluster`, one fault or crash hits any
call of any handler. With three callers one may create the Job while a second deletes
it and a third waits. Two nodes show that one node's update
leaves the other alone. Two faults let a Deployment be deleted and its
creation fail. The counters that grow (versions, edits, names) are bounded by these budgets.

*Restrictions that matter.* Four rules for the specifications that users write are
definitions of `PrepareVg`, hypotheses of the theorems that need them, and assumptions
that TLC checks of the specifications in `MCPrepareVg`. `NamesKeepGroups`: a class name stands for
one volume group (`KeepsInUse`, `ServedExists`, `LvmdWellFormed`). `GroupsKeepNames`: a
group keeps its class name, and `OneDefault`: one class of a node is the default (both
`LvmdWellFormed`). `DisjointDevices`: no disk is listed twice (`LossesExplained`). If a class moves to
another group, or a group gets another class name, the code leaves two default entries
in `lvmd.yaml`. `ServedExists` assumes that no command fails; `CreatedIsServed` and `EventuallyServed` moreover that the
specification stays as it is. `StatusComplete` leaves out a class whose group a run has
made and removed again, because after all disks of a class were replaced at once the
code removes the group and records the class nowhere. `LossesExplained` is about disks that
get a label of LVM and no group: no later run counts them as available, so they are lost to the
operator. The code does lose disks, and the property says which: in one step those of one
class only, and without a failing command only disks listed for a class that has a group of its name which no run has
recorded (a foreign one, or one whose record was dropped), or an unplugged disk. So after a
failing `vgcreate` the class fails for ever, but no disk of another class is affected.
`EventuallyServed` needs moreover that a refused update of the status is made up for by a later
one: the operator decides on retries from the TopolvmCluster's status, which stays wrong
after the last update was refused (`lost_status`).
`CreatedIsServed` holds for the job alone and fails once the daemon writes the same key
(`lost_class`); `StatusMatchesLvmd` is for the same reason a statement about the job alone.

`RecordsTrue` ends with the first reboot; `NoLeakedLoop` and `LoopsRestored` leave out
what the list above says of loop devices: runs that start from a lagging copy (`lagged`) and new
loops that get a recorded number (`taken`). `RetryEnds` assumes complete records. `StateSettles`
has a premise about the events, see Fairness. `CallsReturn` of `CommandExecution` says
of each kind of call what it depends on: without a timeout a process that hangs,
or one it leaves behind with its pipes open, keeps the call waiting, and
`ExecuteCommand` also waits for ever when a line is too long for the scanner
and more follows than the pipe holds.

Many properties of the operator carry a condition, since the code does not
keep them without it. The condition is part of the formula, and each stands for
a behaviour that the models contain:

- `OneChecker`: no call has failed. An error between `checkStorageConfig` and the end of
  `onAdd` leaves `lastCluster` unset, and the retry starts a second checker.
- `CleanedUp`: no call fails, no crash, no second cluster, no annotation after the cluster is
  gone. The clean-up comes after the finalizer is removed, so nothing brings
  the operator back to it, and the garbage collector removes the node plugins later than
  the operator their annotations.
- `StorageApplied`: from some point on no request for a job comes to nothing
  (`dropped_edit` shows one that does), and edits do not go back (`MayRevert`). One that goes
  back while a job reads the storage in between leaves that storage applied.
- `LoopsDiscovered`: the settings are handled before the cluster. Otherwise their
  DaemonSet replaces the one with loop devices.
- `CallServed`: pods run, no call fails and no caller gives up. A second caller may
  delete the running job of the first, but a later run then serves both.
- `StatusIsAtomic`: a Ready node lies in a Ready cluster, not the other way round.
- `StatusKept`, `MetricConverges`: no update is refused. The code never repeats one,
  and the gauges are sent before the update.
- `DeploymentsCreated`: no call fails. The event is not delivered again;
  `FailureRepaired` says that the next event of the node makes up for it.
- `LvmdReloaded`: no call fails and the operator stays up. A change of lvmd.yaml while it is
  down is an `onAdd`, which leaves a Deployment alone.
- `UpdateCompletes`: it starts from a list without an up-to-date Deployment, as the
  loop returns at the first of them.

A second TopolvmCluster under another name never gets a status checked, for
`namespacedName` is set once; the variable `watched` has it, no property, since
the documentation allows only one (docs/user_manual.md:41).

*Fairness.* Job (`JobRetries`): `WF(Retry)`: `startPrepareVolumeGroupJob` starts a job
for every node that has fail classes or no success classes in the status of the
TopolvmCluster (`reported`, not the ConfigMap), on every event of the TopolvmCluster, which
every status update and the periodic resync produce. `WF(FirstRun)`: without a `lastCluster` it
starts one anyway. `WF(Report)`: the informer handles its events. Nothing is assumed about
other runs, though they may start at any time (edits of other nodes' classes, a restart of
the operator). `WF(JobSteps)`: a started
pod goes on. Daemon: `WF(DaemonStep)`, its goroutine goes on, and
`SF(DaemonProbe)`: its timer fires eventually; the code creates the timer anew after
each udev event, so this assumes that the events, which only come when disks
are added or removed, pause. `DiscoverDaemon` has the timer itself: `StateSettles` names
the pause as its premise, and `ListSettles` does without, since an event publishes the
list too. There the goroutines, the passing of time and the restart of the pod are weakly fair,
and `SF(Probe)` is the random choice of Go's select among the ready cases. `LoopDevices`:
the daemon's goroutine. `CommandExecution`: the caller, its timers, the readers, and a process that
does not hang; a process that was left behind need not end.
`ClusterReconciler`: weak fairness of the worker, of the goroutines, of the settings
controller, of the job's pod and its collection, and of the restart after a panic (the pod's restart policy).
`JobRunner`: of each goroutine, of its time-outs (they are polls with a limit), of the
reconciler that sees an edit, and of the garbage collector. That pods run is a hypothesis
(`PodsRun`) and not an assumption: `CallsReturn` holds without it.
`StatusSync`: of the informer, of the checker's timer and of the watch behind the
cache. `NodeDeployments`: of the worker, the informer, and Kubernetes starting
and removing pods. Users, nodes, failures and deaths are never fair.

## The proofs

Every safety property of the passing runs is proved (invariants, action properties and
the three refinements), for all values of the constants; liveness is TLC's.

**The job.** `PrepareVgProofs` proves of `Spec`, for all disks, groups, class names, specifications,
initial nodes and budgets,

| theorem | property | hypotheses | invariant behind it |
|---|---|---|---|
| `TypeCorrect`, `SuccessOrFailureAlways` | `TypeOK`, `SuccessOrFailure` | | `IInv` |
| `ForeignUntouchedAlways` | `ForeignUntouched` | | `Core` |
| `StatusMatchesLvmdAlways` | `StatusMatchesLvmd` | | `IInv`, `RInv` |
| `StatusCompleteAlways` | `StatusComplete` | | `RInv` |
| `CreatedIsServedAlways` | `CreatedIsServed` | | `RInv`, `MadeInv` |
| `ServedExistsAlways` | `ServedExists` | `NamesKeepGroups` | `ExistInv`, `ServedOwn` |
| `KeepsInUseAlways` | `KeepsInUse` | `NamesKeepGroups` | `RInv`, `ServedOwn` |
| `LvmdWellFormedAlways` | `LvmdWellFormed` | `NamesKeepGroups`, `GroupsKeepNames`, `OneDefault` | `DefaultInv` |
| `LossesExplainedAlways` | `LossesExplained` | `DisjointDevices` | `AvailInv`, `RInv` |
| `ImplementsOwnedGroups` | `GroupsAreOurs` | | `BusyOwned`, `Offered` |

Apart from these hypotheses it needs the assumptions named in the modules: labels differ from
group names, the marks for absent values are not values, the specifications and initial states
have their types, logical volumes are in volume groups and the ConfigMap starts without a status.

It starts from the wrappers of `Lvm`: their outcomes are nodes, they change no group but the one
they are called for, and `CreateVolumeGroup` does not even change that one if it exists.
Steps of the job are taken apart by one lemma per function of the code (`CreateVgStep`,
`ClassStep`, `CommitParts`, ...), and the layers are

- `Core`: types, and what a status and a run say of themselves whoever else writes the
  ConfigMap. A class that the run created is among its success classes under the name it was asked
  for and is not looked at again; success classes, in the run and in the ConfigMap, are groups that
  some run has created. This is why a foreign group is safe: reducing and removing happen to success
  classes only, and creating leaves an existing group alone.
- `IInv`: the run's base is the current ConfigMap (in `PrepareVg` nobody else writes it), and
  the entries of `lvmd.yaml` carry names of success classes.
- `RInv`: how far the run has come. A wanted class that it has dealt with is a success, a failure,
  or one whose group was removed; what it has not dealt with is as in the status it read; and every
  success class of the ConfigMap has its entry.
- `ExistInv`, `MadeInv`: while nothing fails, the current success classes (the run's, or
  between runs the ConfigMap's) have groups that exist, and the existing groups of ours are among them.
- `AskInv`, `ServedOwn`: the success classes are named as some specification names their group, so with
  `NamesKeepGroups` an entry of `lvmd.yaml` belongs to the success class of its own
  group. Without it the entry of a class that has moved stays.
- `DefaultInv`: the flags of the entries are those of the last specification a run has worked
  on, so that two defaults would be two in one specification.
- `AvailInv`: the disks a run counts as available and has not yet used still carry nothing, so that
  `vgcreate` is not refused half-way.
- `BusyOwned`, `Offered`: logical volumes are in volume groups, served groups are among those that
  runs have created, the groups that a run has just made exist, and the `lvmd.yaml` it started from is
  still the current one, even where the daemon has rewritten the status. They need `Core` only.

The refinement of `OwnedGroups` looks at single disks. `Moves` says what any outcome of a
wrapper of `Lvm` does to a disk: it keeps its place, or it carried nothing of value and goes to the
group at hand, or it left that group without a logical volume on it. There is one lemma per wrapper, for
every prefix of its commands; the relation is transitive, so it holds of whole
steps of a run, and with `Core` (an existing group that changes is one of ours) each is a `Create`, a `Resize` or a
stutter.

**Job and daemon.** `NodeStorageProofs` proves of `StorageSpec`, in which the daemon writes the same
ConfigMap from reads that may be old,

- `StorageTypeCorrect`: `StorageSpec => [](TypeOK /\ D!TypeOK)`
- `KeysKeptAlways`: `StorageSpec => KeysKept`
- `StorageSuccessOrFailure`: `StorageSpec => []SuccessOrFailure`
- `StorageForeignUntouched`: `StorageSpec => ForeignUntouched`
- `StorageGroupsAreOurs`: `StorageSpec => GroupsAreOurs`

The invariant `SInv` joins `Core`, which no step of the daemon disturbs, with what the daemon
carries: a status it has read and is about to write back has the types of one, keeps success and
failure apart and lists no group that no run has created (`DaemonSound`). That is what survives of
the job's guarantees when a stale write undoes a newer status. `Kept` says that a ConfigMap
never disappears, so a patch computed from an old one leaves the other's keys alone.
The refinement of `OwnedGroups` survives whole: its invariants start from `Core`, and the daemon
writes neither disks nor `lvmd.yaml`. `StatusMatchesLvmd` and `CreatedIsServed` do not survive (`lost_class`).

`ClusterReconcilerProofs` proves, for all names, storages and bounds,

- `TypeCorrect`: `Spec => []TypeOK`
- `OneCheckerAlways`: `Spec => []OneChecker`

`OneChecker` speaks of the operator's variables only; the invariant `CheckerInv` adds
where the reconcile is. `onAdd` runs with a listening checker, the clean-up
without a `lastCluster`, and a listening checker without a `lastCluster` exists only while
one of these two is under way (or after a panic). So when `StartChecker` finds no
`lastCluster`, there is no checker to lose. A failing call breaks exactly this, hence the
hypothesis `spent.faults = 0`.

`StatusSyncProofs` proves, for every finite set of nodes and all bounds,

- `TypeCorrect`: `Spec => []TypeOK`
- `NoLostUpdateAlways`: `Spec => NoLostUpdate`
- `ImplementsAtomicStatus`: `Spec => StatusIsAtomic`, the refinement
- `ReadyIsSound`: `Spec => []Atomic!ReadySound`, from the refinement and the abstract
  specification alone

The invariant `SyncInv` says that the lock keeps the two writers apart, that a
copy with the latest resource version says what the API server says (the cache's,
the informer's, the checker's), and that the status the checker is about to write
keeps the classes of the copy it was computed from, and calls a node Ready only with a Ready
class. An update that goes through thus
replaces what the writer has read, and is one step of `AtomicStatus`.

`JobRunnerProofs` proves, for all callers and bounds,

- `TypeCorrect`: `Spec => []TypeOK`
- `ImplementsEditedNode`: `Spec => RunsInOrder`, the refinement

The invariant `ReadInv` says that the version a pod has read is not older than the
last one carried out and not newer than the last edit. It needs nothing about
the callers: whichever of them creates the Job, it is a new one that has read nothing, and
while a Job exists, no other completes.

`DiscoverDaemonProofs` proves, for all devices, periods and bounds,

- `TypeCorrect`: `Spec => []TypeOK`
- `EventOnItsWayAlways`: `Spec => []EventOnItsWay`

The invariant `MonitorInv` adds that before the first update is over no monitor
runs and nothing was heard of udevadm.

`LoopDevicesProofs` proves, for all disks, files, loop devices and specifications,

- `TypeCorrect`: `Spec => []TypeOK`
- `OneDeviceAlways`: `Spec => []OneDevice`
- `RecordsTrueAlways`: `Spec => []RecordsTrue`
- `NoLeakedLoopAlways`: `Spec => []NoLeakedLoop`
- `UsedClassKeptAlways`: `Spec => UsedClassKept`

A file is tied to a device if it is attached to it, or if a complete record somewhere (the
ConfigMap's, the TopolvmCluster's, the run's, the daemon's) names the two together. `TiedInv` says
that each file is tied to one device at most, and only if it has been named; it holds across
reboots, since the daemon attaches what a record ties already and a new loop gets a new
file. `OneDevice` follows. That `losetup -f` finds a free device follows by counting (the
pigeonhole theorem of the library): every file that is attached was named before, a run names
no more files than it has disks without a loop (`NamesLeft`), and there are at least as many
devices as files. Until the first reboot `AllTrue` adds that the file of every complete record
in anyone's hands is attached to its device: the daemon then finds the device listed and leaves it.
After a reboot it claims nothing, as `RecordsTrue` does not.
`LeakInv` says that the run's records, between runs the ConfigMap's, account for every attached file as long as
no run has started from a copy that lags, and `UsedInv` that a run about to take the class from
the success classes has left no member of its group. All of them but `UsedInv` need that a
record counts as created whatever failed (`AllSettled`), so that no run replaces one.

`CommandExecutionProofs` proves, for all sizes of pipes and outputs,

- `TypeCorrect`: `Spec => []TypeOK`
- `SuccessIsCompleteAlways`: `Spec => []SuccessIsComplete`

The invariant `EndInv` says that a process that succeeded has written everything, and
which kinds of call expire or interrupt; `CollectInv` that, unless the output only goes to the
log, a reader stops at the end of its pipe and not before the process has ended, and that a call
with a time-out counts as done only when everything is collected.

Assumptions on the constants are named in the modules (`StatusConstants`,
`ClusterConstants`, ...): marks for absent values are not values, bounds are natural
numbers, and TLC evaluates them in the runs.

Only model-checked: all liveness (fairness and ENABLED are out of the prover's
reach), which is every property of `NodeDeployments`, `DevicesPublished` and `StatesShown` of
`NodeStorage`, `EventuallyServed`, and the converging properties of the other modules.
`NodeDeployments` has no theorem: its properties are all of the form "eventually".

## Plan

The order was: the job and what it records, as everything else follows it; the
daemon that shares its ConfigMap; the operator; then the loop devices, the
commands, the daemon's goroutines and the first two refinements; then the proofs of every safety
property and the refinement of `OwnedGroups`. Left, in this order:

1. A node that is missing from the device classes: its run works on the ConfigMap of an
   empty node name, which the informer then copies into the status.
2. Type correctness of `NodeDeployments`, and a safety property behind `UpdateCompletes`: what the
   list of the update knows of the Deployments it has not come to.

## Not modelled

The construction of Kubernetes objects (`node.go` and `volume_controller.go` beyond the
calls they make, `psp.go`), the parsing of lsblk, sgdisk and udevadm output (beyond what a
failure does to the list), the certificate generator, command line set-up, several TopolvmClusters at
a time: data without control, or not supported. `DeleteConfigMap`, `CreateReplaceableConfigmap`,
`GetDevicePartitions`, `IsLV` and `GetDeviceFilesystems` are not called. The growing list of device
states of a disk that cannot be labelled (`preparevg_controller.go:421`), which the
model keeps as a set, and a class recorded without device states by a retry (line 532)
contradict no property. `LoopDevices` copies the status of the ConfigMap into the TopolvmCluster as it
is at that moment, whereas an event on its way may bring an older one; that a run starts
from a copy that is behind is in the model either way (`lagged`). `CreateVolumeGroup` of `Lvm` refuses a
group whose disks are all unplugged, which `vgs` does not list.
