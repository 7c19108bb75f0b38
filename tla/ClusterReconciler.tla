------------------------- MODULE ClusterReconciler -------------------------
(***************************************************************************)
(* The TopolvmCluster controller (controllers/topolvmcluster_controller.go)*)
(* as one process of the operator, from the creation of a TopolvmCluster   *)
(* to its deletion, with failing calls to the API server and deaths of the *)
(* operator: the finalizer, lastCluster, the status checker's goroutine    *)
(* and its channel, the jobs, what has to be cleaned up, and the discover  *)
(* DaemonSet, which the settings controller writes as well.  One node      *)
(* stands for all: its prepareVg job and its node plugin.                  *)
(* There is one TopolvmCluster at a time, and cluster.IsOperatorHub holds. *)
(***************************************************************************)
EXTENDS Naturals

CONSTANTS
    Names,          \* the names a TopolvmCluster may have
    Storages,       \* the values of spec.storage, numbers
    InvalidStorages,\* those that checkStorageConfig refuses
    UseLoop,        \* spec.storage.useLoop
    MayRevert,      \* whether an edit may go back to an earlier storage
    NoCluster, NoName, NoStorage,
    MaxCreates, MaxEdits, MaxFaults, MaxCrashes, MaxDevices,
    MaxLate,        \* bound on annotations written when the cluster is gone
    MaxEvents       \* bound on all of these together

VARIABLES
    cluster,    \* the TopolvmCluster in the API server
    leftover,   \* what was made for a cluster and is not cleaned up yet
    daemonset,  \* the discover DaemonSet
    queue,      \* the names in the work queue
    recon,      \* the reconcile under way
    op,         \* the other variables of the operator's process
    nodes,      \* the job and the plugin on the nodes
    spent

vars == <<cluster, leftover, daemonset, queue, recon, op, nodes, spent>>

Clusters == [name: Names, storage: Storages, deleting: BOOLEAN, finalizer: BOOLEAN,
             version: Nat]

(* Node annotations with capacities, and the CSI driver.                   *)
Kinds == {"annotations", "csidriver"}

DaemonSets == {"none", "plain", "loop"}

(* Where a reconcile is: idle, or about to do the named thing.             *)
Places == {"idle", "finalizer", "remove", "annotations", "clean", "close",
           "check", "csidriver", "daemonset", "jobs", "deployments"}

Reconciles == [at: Places, name: Names \cup {NoName}, copy: Clusters \cup {NoCluster}]

(* lastCluster; namespacedName; whether the ConfigMap controller runs; the *)
(* channel stopCh; whether the status checker that listens to it runs, and *)
(* how many run that listen to a channel nobody holds any more; whether a  *)
(* goroutine is about to start jobs; whether an event of the settings      *)
(* ConfigMap waits for its controller.                                     *)
Processes == [last:     Clusters \cup {NoCluster},
              watched:  Names \cup {NoName},
              informer: BOOLEAN,
              stopCh:   {"nil", "open", "closed"},
              checker:  BOOLEAN,
              orphans:  Nat,
              jobs:     BOOLEAN,
              settings: BOOLEAN,
              panicked: BOOLEAN]

(* The job; whether the cluster it belongs to still exists; the storage    *)
(* that the pod of the last job has read (history); whether the last       *)
(* request for a job came to nothing (history); whether the node plugin    *)
(* runs.                                                                   *)
NodeStates == [job:     {"none", "created", "running"},
               owned:   BOOLEAN,
               read:    Storages \cup {NoStorage},
               missed:  BOOLEAN,
               plugin:  BOOLEAN]

Budget == [creates |-> MaxCreates, edits |-> MaxEdits, faults |-> MaxFaults,
           crashes |-> MaxCrashes, devices |-> MaxDevices, late |-> MaxLate]

ASSUME ClusterConstants ==
    /\ Storages \subseteq Nat /\ InvalidStorages \subseteq Storages
    /\ NoStorage \notin Storages
    /\ UseLoop \in BOOLEAN /\ MayRevert \in BOOLEAN
    /\ MaxCreates \in Nat /\ MaxEdits \in Nat /\ MaxFaults \in Nat
    /\ MaxCrashes \in Nat /\ MaxDevices \in Nat /\ MaxLate \in Nat
    /\ MaxEvents \in Nat
    /\ NoCluster \notin Clusters /\ NoName \notin Names

(* A reconcile under way has fetched a cluster.                            *)
TypeOK ==
    /\ cluster \in Clusters \cup {NoCluster}
    /\ leftover \in SUBSET Kinds
    /\ daemonset \in DaemonSets
    /\ queue \in SUBSET Names
    /\ recon \in Reconciles
    /\ recon.at # "idle" => recon.name \in Names /\ recon.copy \in Clusters
    /\ op \in Processes
    /\ nodes \in NodeStates
    /\ spent \in [DOMAIN Budget -> Nat]

Resting == [at |-> "idle", name |-> NoName, copy |-> NoCluster]

NewProcess == [last |-> NoCluster, watched |-> NoName, informer |-> FALSE,
               stopCh |-> "nil", checker |-> FALSE, orphans |-> 0, jobs |-> FALSE,
               settings |-> TRUE, panicked |-> FALSE]

NoJobs == [job |-> "none", owned |-> FALSE, read |-> NoStorage, missed |-> FALSE,
           plugin |-> FALSE]

Init ==
    /\ cluster = NoCluster
    /\ leftover = {}
    /\ daemonset = "none"
    /\ queue = {}
    /\ recon = Resting
    /\ op = NewProcess
    /\ nodes = NoJobs
    /\ spent = [k \in DOMAIN Budget |-> 0]

-----------------------------------------------------------------------------
Spend(k) ==
    /\ spent[k] < Budget[k]
    /\ spent.creates + spent.edits + spent.faults + spent.crashes + spent.devices
         + spent.late < MaxEvents
    /\ spent' = [spent EXCEPT ![k] = @ + 1]

Exists == cluster # NoCluster

At(place) == recon.at = place /\ ~op.panicked

Goes(place) == recon' = [recon EXCEPT !.at = place]

(* reconcile returns an error: the name goes back to the queue.            *)
Requeued ==
    /\ recon' = Resting
    /\ queue' = queue \cup {recon.name}

(* Mutant: an error is not returned to the work queue.                     *)
ForgetError(place) ==
    /\ At(place)
    /\ Spend("faults")
    /\ recon' = Resting
    /\ UNCHANGED <<cluster, leftover, daemonset, queue, op, nodes>>

(* The places whose calls to the API server may fail.  The clean-up's      *)
(* error is not looked at, and closing the channel calls nobody.           *)
Failing == Places \ {"idle", "clean", "close"}

(* lastCluster is forgotten before the finalizer is removed.               *)
ReturnError(place) ==
    /\ At(place)
    /\ Spend("faults")
    /\ Requeued
    /\ op' = IF place = "remove" THEN [op EXCEPT !.last = NoCluster] ELSE op
    /\ UNCHANGED <<cluster, leftover, daemonset, nodes>>

-----------------------------------------------------------------------------
(* reconcile.                                                              *)

(* It fetches the cluster that was asked for; one that is gone is ignored. *)
Fetch(name) ==
    /\ At("idle") /\ name \in queue
    /\ queue' = queue \ {name}
    /\ IF Exists /\ cluster.name = name
       THEN /\ recon' = [at |-> "finalizer", name |-> name, copy |-> cluster]
            /\ op' = [op EXCEPT !.watched = IF @ = NoName THEN name ELSE @]
       ELSE UNCHANGED <<recon, op>>
    /\ UNCHANGED <<cluster, leftover, daemonset, nodes, spent>>

(* AddFinalizerIfNotPresent, whose update is refused if the cluster has    *)
(* changed since it was fetched; then the way parts for a deletion.        *)
AddFinalizer ==
    /\ At("finalizer")
    /\ \/ /\ recon.copy.finalizer
          /\ Goes(IF recon.copy.deleting THEN "remove" ELSE "check")
          /\ UNCHANGED <<cluster, queue>>
       \/ /\ ~recon.copy.finalizer /\ cluster = recon.copy
          /\ cluster' = [cluster EXCEPT !.finalizer = TRUE, !.version = @ + 1]
          /\ queue' = queue \cup {recon.name}
          /\ recon' = [recon EXCEPT !.at = "check", !.copy = cluster']
       \/ /\ ~recon.copy.finalizer /\ cluster # recon.copy
          /\ Requeued
          /\ UNCHANGED cluster
    /\ UNCHANGED <<leftover, daemonset, op, nodes, spent>>

(* The cluster is being deleted: lastCluster is forgotten and the          *)
(* finalizer removed, with which the cluster is gone.                      *)
RemoveFinalizer ==
    /\ At("remove")
    /\ op' = [op EXCEPT !.last = NoCluster]
    /\ IF Exists /\ cluster.name = recon.name
       THEN /\ cluster' = NoCluster /\ queue' = queue \cup {recon.name}
            /\ nodes' = [nodes EXCEPT !.owned = FALSE]
       ELSE UNCHANGED <<cluster, queue, nodes>>
    /\ Goes("annotations")
    /\ UNCHANGED <<leftover, daemonset, spent>>

(* A node whose patch fails keeps its annotation; that is only logged.     *)
RemoveNodeCapacityAnnotations ==
    /\ At("annotations")
    /\ \/ leftover' = leftover \ {"annotations"} /\ UNCHANGED spent
       \/ leftover' = leftover /\ Spend("faults")
    /\ Goes("clean")
    /\ UNCHANGED <<cluster, daemonset, queue, op, nodes>>

(* Mutant: what the cluster left is looked for through the cluster.        *)
CleanClusterIfThere ==
    /\ At("clean")
    /\ leftover' = IF Exists THEN leftover \ {"csidriver"} ELSE leftover
    /\ Goes("close")
    /\ UNCHANGED <<cluster, daemonset, queue, op, nodes, spent>>

(* cleanCluster; its error is not looked at.                               *)
CleanCluster ==
    /\ At("clean")
    /\ \/ leftover' = leftover \ {"csidriver"} /\ UNCHANGED spent
       \/ leftover' = leftover /\ Spend("faults")
    /\ Goes("close")
    /\ UNCHANGED <<cluster, daemonset, queue, op, nodes>>

(* close(r.stopCh) panics if the channel is nil or closed already.         *)
CloseStopCh ==
    /\ At("close")
    /\ op' = IF op.stopCh = "open" THEN [op EXCEPT !.stopCh = "closed"]
             ELSE [op EXCEPT !.panicked = TRUE]
    /\ recon' = Resting
    /\ UNCHANGED <<cluster, leftover, daemonset, queue, nodes, spent>>

(* A new channel and a status checker that listens to it; one that listens *)
(* to the channel before can no longer be stopped.                         *)
WithNewChecker(o) ==
    [o EXCEPT !.stopCh = "open", !.checker = TRUE,
              !.orphans = IF o.stopCh = "open" /\ o.checker THEN @ + 1 ELSE @]

(* Mutant: each reconcile starts a status checker.                         *)
StartCheckerAlways(o) == WithNewChecker([o EXCEPT !.informer = TRUE])

(* Without a lastCluster a status checker is started, whatever became of   *)
(* the one before.                                                         *)
StartChecker(o) ==
    IF o.last = NoCluster THEN WithNewChecker([o EXCEPT !.informer = TRUE])
    ELSE [o EXCEPT !.informer = TRUE]

(* checkStorageConfig, the ConfigMap controller, the status checker.       *)
CheckStorageConfig ==
    /\ At("check")
    /\ \/ /\ recon.copy.storage \in InvalidStorages
          /\ Requeued
          /\ UNCHANGED op
       \/ /\ recon.copy.storage \notin InvalidStorages
          /\ op' = StartChecker(op)
          /\ Goes("csidriver")
          /\ UNCHANGED queue
    /\ UNCHANGED <<cluster, leftover, daemonset, nodes, spent>>

(* onAdd: CheckTopolvmCsiDriverExisting creates the driver if it is        *)
(* missing; checkAndCreatePsp does the same for a policy that the garbage  *)
(* collector removes with the cluster.                                     *)
CreateCsiDriver ==
    /\ At("csidriver")
    /\ leftover' = leftover \cup {"csidriver"}
    /\ Goes("daemonset")
    /\ UNCHANGED <<cluster, daemonset, queue, op, nodes, spent>>

(* Mutant: a DaemonSet that is there is left alone.                        *)
CheckDaemonsetMissing ==
    /\ At("daemonset")
    /\ daemonset' = IF UseLoop /\ daemonset = "none" THEN "loop" ELSE daemonset
    /\ Goes("jobs")
    /\ UNCHANGED <<cluster, leftover, queue, op, nodes, spent>>

CheckUpdateDiscoverDaemonset ==
    /\ At("daemonset")
    /\ daemonset' = IF UseLoop THEN "loop" ELSE daemonset
    /\ Goes("jobs")
    /\ UNCHANGED <<cluster, leftover, queue, op, nodes, spent>>

(* startPrepareVolumeGroupJob starts jobs on all nodes, unless the storage *)
(* is the one that lastCluster has; then only a node that has failed, or   *)
(* whose status says so, gets one.                                         *)
StartJobs ==
    /\ At("jobs")
    /\ \/ op' = [op EXCEPT !.jobs = TRUE]
       \/ op.last # NoCluster /\ op.last.storage = recon.copy.storage /\ UNCHANGED op
    /\ Goes("deployments")
    /\ UNCHANGED <<cluster, leftover, daemonset, queue, nodes, spent>>

(* Mutant: lastCluster is the cluster as it is by now.                     *)
UpdateDeploymentsLatest ==
    /\ At("deployments")
    /\ op' = [op EXCEPT !.last = IF Exists THEN cluster ELSE recon.copy]
    /\ recon' = Resting
    /\ UNCHANGED <<cluster, leftover, daemonset, queue, nodes, spent>>

(* The controller deployment and the node deployments; then onAdd sets     *)
(* lastCluster.                                                            *)
UpdateDeployments ==
    /\ At("deployments")
    /\ op' = [op EXCEPT !.last = recon.copy]
    /\ recon' = Resting
    /\ UNCHANGED <<cluster, leftover, daemonset, queue, nodes, spent>>

Reconcile ==
    \/ \E name \in Names : Fetch(name)
    \/ AddFinalizer \/ RemoveFinalizer \/ RemoveNodeCapacityAnnotations
    \/ CleanCluster \/ CloseStopCh \/ CheckStorageConfig \/ CreateCsiDriver
    \/ CheckUpdateDiscoverDaemonset \/ StartJobs \/ UpdateDeployments

-----------------------------------------------------------------------------
(* The other goroutines of the operator.                                   *)

(* The status checker finds its channel closed.                            *)
CheckerStops ==
    /\ op.checker /\ op.stopCh = "closed" /\ ~op.panicked
    /\ op' = [op EXCEPT !.checker = FALSE]
    /\ UNCHANGED <<cluster, leftover, daemonset, queue, recon, nodes, spent>>

(* The goroutine calls MakeAndRunJob.  RunReplaceableJob drops the request *)
(* while a job is active, and an error is only logged; a job that has not  *)
(* read the TopolvmCluster yet will do what was asked.                     *)
RunJobs ==
    /\ op.jobs /\ ~op.panicked
    /\ op' = [op EXCEPT !.jobs = FALSE]
    /\ \/ /\ nodes.job = "none"
          /\ nodes' = [nodes EXCEPT !.job = "created", !.owned = Exists, !.missed = FALSE]
          /\ UNCHANGED spent
       \/ /\ nodes.job # "none"
          /\ nodes' = [nodes EXCEPT !.missed = (nodes.job = "running" \/ ~nodes.owned)]
          /\ UNCHANGED spent
       \/ /\ nodes' = [nodes EXCEPT !.missed = TRUE]
          /\ Spend("faults")
    /\ UNCHANGED <<cluster, leftover, daemonset, queue, recon>>

(* The informer sees another list of devices in a ConfigMap and asks       *)
(* UseAllNodeAndDevices, which dereferences lastCluster.                   *)
DevicesChanged ==
    /\ op.informer /\ ~op.panicked
    /\ Spend("devices")
    /\ op' = [op EXCEPT !.panicked = (op.last = NoCluster)]
    /\ UNCHANGED <<cluster, leftover, daemonset, queue, recon, nodes>>

(* The settings controller, with discovery enabled: CreateDaemonSet puts a *)
(* DaemonSet without loops in the place of the one there is.               *)
ReconcileSettings ==
    /\ op.settings /\ ~op.panicked
    /\ op' = [op EXCEPT !.settings = FALSE]
    /\ daemonset' = "plain"
    /\ UNCHANGED <<cluster, leftover, queue, recon, nodes, spent>>

-----------------------------------------------------------------------------
(* The node: the pod of the job reads the TopolvmCluster and does its work *)
(* (PrepareVg); without its cluster the job is collected.                  *)
ReadStorage ==
    /\ nodes.job = "created" /\ Exists
    /\ nodes' = [nodes EXCEPT !.job = "running", !.read = cluster.storage]
    /\ UNCHANGED <<cluster, leftover, daemonset, queue, recon, op, spent>>

FinishJob ==
    /\ nodes.job = "running"
    /\ nodes' = [nodes EXCEPT !.job = "none", !.owned = FALSE]
    /\ UNCHANGED <<cluster, leftover, daemonset, queue, recon, op, spent>>

CollectJob ==
    /\ nodes.job # "none" /\ ~nodes.owned
    /\ nodes' = [nodes EXCEPT !.job = "none", !.missed = TRUE]
    /\ UNCHANGED <<cluster, leftover, daemonset, queue, recon, op, spent>>

RunJob == ReadStorage \/ FinishJob \/ CollectJob

(* The informer creates the Deployment of the node plugin; the garbage     *)
(* collector removes it some time after the cluster is gone.               *)
StartPlugin ==
    /\ Exists /\ op.informer /\ ~op.panicked /\ ~nodes.plugin
    /\ nodes' = [nodes EXCEPT !.plugin = TRUE]
    /\ UNCHANGED <<cluster, leftover, daemonset, queue, recon, op, spent>>

CollectPlugin ==
    /\ ~Exists /\ nodes.plugin
    /\ nodes' = [nodes EXCEPT !.plugin = FALSE]
    /\ UNCHANGED <<cluster, leftover, daemonset, queue, recon, op, spent>>

(* A node plugin annotates its node as long as it runs.                    *)
Annotate ==
    /\ nodes.plugin
    /\ leftover' = leftover \cup {"annotations"}
    /\ IF Exists THEN UNCHANGED spent ELSE Spend("late")
    /\ UNCHANGED <<cluster, daemonset, queue, recon, op, nodes>>

-----------------------------------------------------------------------------
(* The user, topolvm-node, and the death of the operator.                  *)

Create(name, v) ==
    /\ ~Exists
    /\ Spend("creates")
    /\ cluster' = [name |-> name, storage |-> v, deleting |-> FALSE,
                   finalizer |-> FALSE, version |-> 0]
    /\ queue' = queue \cup {name}
    /\ UNCHANGED <<leftover, daemonset, recon, op, nodes>>

Edit(v) ==
    /\ Exists /\ ~cluster.deleting
    /\ MayRevert \/ v > cluster.storage
    /\ Spend("edits")
    /\ cluster' = [cluster EXCEPT !.storage = v, !.version = @ + 1]
    /\ queue' = queue \cup {cluster.name}
    /\ UNCHANGED <<leftover, daemonset, recon, op, nodes>>

(* Without a finalizer the cluster is gone at once.                        *)
DeleteCluster ==
    /\ Exists /\ ~cluster.deleting
    /\ IF cluster.finalizer
       THEN /\ cluster' = [cluster EXCEPT !.deleting = TRUE, !.version = @ + 1]
            /\ UNCHANGED nodes
       ELSE cluster' = NoCluster /\ nodes' = [nodes EXCEPT !.owned = FALSE]
    /\ queue' = queue \cup {cluster.name}
    /\ UNCHANGED <<leftover, daemonset, recon, op, spent>>

(* The operator starts again: it removes the annotations of the nodes,     *)
(* as far as the patches succeed, and the watches bring the cluster and    *)
(* the settings.                                                           *)
Restarted(removed) ==
    /\ recon' = Resting
    /\ op' = NewProcess
    /\ queue' = IF Exists THEN {cluster.name} ELSE {}
    /\ leftover' = leftover \ removed
    /\ UNCHANGED <<cluster, daemonset, nodes>>

Crash ==
    /\ ~op.panicked /\ Spend("crashes")
    /\ Restarted({}) \/ Restarted({"annotations"})

Recover ==
    /\ op.panicked
    /\ \/ Restarted({"annotations"}) /\ UNCHANGED spent
       \/ Restarted({}) /\ Spend("faults")

Next ==
    \/ Reconcile \/ CheckerStops \/ RunJobs \/ DevicesChanged \/ ReconcileSettings
    \/ \E place \in Failing : ReturnError(place)
    \/ \E name \in Names, v \in Storages : Create(name, v)
    \/ \E v \in Storages : Edit(v)
    \/ RunJob \/ StartPlugin \/ CollectPlugin \/ Annotate
    \/ DeleteCluster \/ Crash \/ Recover

Spec == Init /\ [][Next]_vars

(* The worker of the controller, the goroutines and the pods of the jobs   *)
(* run; a dead operator is restarted.                                      *)
FairSpec ==
    /\ Spec
    /\ WF_vars(Reconcile) /\ WF_vars(CheckerStops) /\ WF_vars(RunJobs)
    /\ WF_vars(ReconcileSettings) /\ WF_vars(Recover) /\ WF_vars(RunJob)

-----------------------------------------------------------------------------
(* Properties.                                                             *)

Wanted(v) == Exists /\ ~cluster.deleting /\ cluster.storage = v

(* A storage that stays is applied by jobs, whatever calls of the          *)
(* reconciler fail and whenever the operator dies, if not the last request *)
(* for a job comes to nothing: the code drops it while a job is active     *)
(* (job.go:48), or only logs that it failed, and lastCluster takes it for  *)
(* granted.  What it must not do is to let lastCluster run ahead of the    *)
(* requests.  The comment topolvmcluster_controller.go:423 keeps jobs from *)
(* running only "if device class not change".  Edits do not go back        *)
(* (MayRevert): the code misses a storage that is changed and changed back *)
(* between two reconciles while the jobs read the one in between.          *)
StorageApplied ==
    \A v \in Storages \ InvalidStorages :
        <>[]Wanted(v) /\ <>[]~nodes.missed => <>[](nodes.job = "none" /\ nodes.read = v)

(* A deletion is not held up, although closing stopCh may panic: the       *)
(* finalizer is removed in the end.                                        *)
DeletionCompletes == (Exists /\ cluster.deleting) ~> ~Exists

(* As long as no call fails, a status checker runs for the cluster the     *)
(* operator knows, and none that nobody can stop.  An error between        *)
(* checkStorageConfig and the end of onAdd has the next reconcile start a  *)
(* second one.                                                             *)
OneChecker ==
    spent.faults = 0 =>
        /\ op.orphans = 0
        /\ op.last # NoCluster => op.checker /\ op.stopCh = "open"

Undisturbed ==
    /\ spent.faults = 0 /\ spent.crashes = 0 /\ spent.devices = 0 /\ spent.late = 0
    /\ spent.creates <= 1

(* Everything is cleaned up after a cluster is gone, if no call fails, the *)
(* operator does not die, no plugin that outlives the cluster annotates    *)
(* its node again, and no other cluster is created: nothing repeats what   *)
(* the operator does once the finalizer is removed.                        *)
CleanedUp == []Undisturbed => (~Exists ~> leftover = {} \/ Exists)

(* With useLoop the daemon looks for loop devices:                         *)
(* docs/user_manual.md:46, "use loop devices present in nodes".  The code  *)
(* takes them away again if the settings are handled after the cluster.    *)
LoopsDiscovered ==
    UseLoop /\ [](op.last # NoCluster \/ recon.at \in {"jobs", "deployments"} => ~op.settings)
        => <>[](op.last # NoCluster /\ recon.at = "idle" => daemonset = "loop")
=============================================================================
