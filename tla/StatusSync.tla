---------------------------- MODULE StatusSync ----------------------------
(***************************************************************************)
(* The status of the TopolvmCluster.  Two goroutines of the operator write *)
(* it under one lock: the ConfigMap informer copies the classes of a node  *)
(* from the status in its ConfigMap (lvmdconfig_controller.go,             *)
(* UpdateStatus), and the status checker sets the phases of nodes and      *)
(* cluster every minute (monitor/status.go).  Both read through a cache    *)
(* that lags behind the API server, and an update made from an old copy is *)
(* a conflict.                                                             *)
(***************************************************************************)
EXTENDS Naturals, SequencesExt

CONSTANTS
    Nodes,
    UseAllNodes,   \* else the device classes list all of Nodes
    PodStates,     \* the states of topolvm-node pods to look at
    NoCm, Absent, NoMetric,
    MaxWrites,     \* status changes in ConfigMaps
    MaxPods,       \* changes of pods, and of the state of nodes
    MaxOthers      \* other updates of the TopolvmCluster, and restarts of
                   \* the operator

VARIABLES
    cm,        \* the classes in the status of each node's ConfigMap
    pod,       \* the topolvm-node pod of each node
    lost,      \* the nodes whose NodeReady condition is Unknown
    cluster,   \* the status of the TopolvmCluster in the API server
    cache,     \* the copy of the operator's client
    queue,     \* events that the informer has not handled yet
    informer,  \* the informer's goroutine
    checker,   \* the status checker's goroutine
    metric,    \* the gauges of the exporter
    refused,   \* whether an update was ever refused
    spent

vars == <<cm, pod, lost, cluster, cache, queue, informer, checker, metric, refused,
          spent>>

(* What the checker can tell of a node's classes: no success class, some,  *)
(* or one that is Ready.                                                   *)
ClassSets == {"empty", "unready", "ready"}

Phases == {"unset", "Ready", "Failure", "Unknown", "Pending"}

NodeStates == [phase: Phases, classes: ClassSets]

Statuses == [phase: Phases, nodes: [Nodes -> NodeStates \cup {Absent}]]

(* A copy, and whether it still has the latest resource version.           *)
Copies == [status: Statuses, latest: BOOLEAN]

Metrics == [cluster: BOOLEAN, nodes: SUBSET Nodes]

Empty == [phase |-> "unset", nodes |-> [n \in Nodes |-> Absent]]

Current == [status |-> cluster, latest |-> TRUE]

(* The phase of a node by its pod: pod.Status.Phase, and "unready" for a    *)
(* running pod with a container that is not ready.                         *)
PhaseOfPod == [none    |-> "Failure", running |-> "Ready",   unready |-> "Failure",
               failed  |-> "Failure", pending |-> "Pending", unknown |-> "Unknown"]

Budget == [writes |-> MaxWrites, pods |-> MaxPods, others |-> MaxOthers]

ASSUME StatusConstants ==
    /\ IsFiniteSet(Nodes) /\ UseAllNodes \in BOOLEAN
    /\ "none" \in PodStates
    /\ PodStates \subseteq DOMAIN PhaseOfPod
    /\ \A k \in DOMAIN Budget : Budget[k] \in Nat
    /\ Absent \notin NodeStates

Informers == [at: {"idle", "update"}, copy: Copies]

Checkers == [at:    {"idle", "listed", "send", "update"},
             pods:  [Nodes -> PodStates],   \* the pods it has listed
             copy:  Copies,                 \* the TopolvmCluster it has read
             new:   Statuses,               \* the status it has computed
             gauge: Metrics]

TypeOK ==
    /\ cm \in [Nodes -> ClassSets \cup {NoCm}]
    /\ pod \in [Nodes -> PodStates]
    /\ lost \in SUBSET Nodes
    /\ cluster \in Statuses
    /\ cache \in Copies
    /\ queue \in Seq([node: Nodes, classes: ClassSets])
    /\ informer \in Informers
    /\ checker \in Checkers
    /\ metric \in Metrics \cup {NoMetric}
    /\ refused \in BOOLEAN
    /\ spent \in [DOMAIN Budget -> Nat]

NoCopy == [status |-> Empty, latest |-> FALSE]

IdleInformer == [at |-> "idle", copy |-> NoCopy]

IdleChecker == [at   |-> "idle", pods  |-> [n \in Nodes |-> "none"], copy |-> NoCopy,
                new  |-> Empty,  gauge |-> [cluster |-> FALSE, nodes |-> {}]]

Init ==
    /\ cm = [n \in Nodes |-> NoCm]
    /\ pod = [n \in Nodes |-> "none"]
    /\ lost = {}
    /\ cluster = Empty
    /\ cache = Current
    /\ queue = <<>>
    /\ informer = IdleInformer
    /\ checker = IdleChecker
    /\ metric = NoMetric
    /\ refused = FALSE
    /\ spent = [k \in DOMAIN Budget |-> 0]

-----------------------------------------------------------------------------
Spend(k) ==
    /\ spent[k] < Budget[k]
    /\ spent' = [spent EXCEPT ![k] = @ + 1]

Stale(x) == [x EXCEPT !.copy.latest = FALSE]

(* statusLock: the informer holds it from its read to its update, the      *)
(* checker as well.                                                        *)
Unlocked == informer.at # "update" /\ checker.at \notin {"send", "update"}

(* Mutant: an update replaces whatever is there.                           *)
Overwrites(copy, new) == cluster' = new /\ UNCHANGED refused

(* k8sutil.UpdateStatus: a conflict is returned as an error, which all     *)
(* callers log; the retry after it is never reached.                       *)
UpdateStatus(copy, new) ==
    /\ cluster' = IF copy.latest THEN new ELSE cluster
    /\ refused' = (refused \/ ~copy.latest)

(* What an update does to the copies that others hold.                     *)
Outdate ==
    cache' = IF cluster' = cluster THEN cache ELSE [cache EXCEPT !.latest = FALSE]

-----------------------------------------------------------------------------
(* The informer: onAdd and onUpdate as far as they concern the status.     *)

(* Mutant: a node that is there already keeps what it has.                 *)
AddedNodeState(status, n, classes) ==
    IF status.nodes[n] # Absent THEN status
    ELSE [status EXCEPT !.nodes[n] = [phase |-> "unset", classes |-> classes]]

(* UpdateStatus (topolvmcluster_controller.go) replaces the state of the   *)
(* node, or appends it; the ConfigMap's status has no phase.               *)
WithNodeState(status, n, classes) ==
    [status EXCEPT !.nodes[n] = [phase |-> "unset", classes |-> classes]]

(* The informer delivers the next event, and UpdateStatus takes the lock.  *)
HandleEvent ==
    /\ queue # <<>> /\ informer.at = "idle" /\ Unlocked
    /\ informer' = [at |-> "update", copy |-> cache]
    /\ UNCHANGED <<cm, pod, lost, cluster, cache, queue, checker, metric, refused, spent>>

(* UpdateStatus writes and returns; the event is done with, also if the    *)
(* write was refused.                                                      *)
FinishEvent ==
    /\ informer.at = "update"
    /\ UpdateStatus(informer.copy,
                    WithNodeState(informer.copy.status, Head(queue).node, Head(queue).classes))
    /\ Outdate
    /\ queue' = Tail(queue)
    /\ informer' = IdleInformer
    /\ UNCHANGED <<cm, pod, lost, checker, metric, spent>>

-----------------------------------------------------------------------------
(* The status checker: checkStatus.                                        *)

ListPods ==
    /\ checker.at = "idle"
    /\ checker' = [IdleChecker EXCEPT !.at = "listed", !.pods = pod]
    /\ UNCHANGED <<cm, pod, lost, cluster, cache, queue, informer, metric, refused, spent>>

(* The nodes that have a ConfigMap, or all that the device classes list.   *)
Checked == IF UseAllNodes THEN {n \in Nodes : cm[n] # NoCm} ELSE Nodes

(* The phase of a node: by its pod, or Unknown if the node is.             *)
NodePhase(n, pods) == IF n \in lost THEN "Unknown" ELSE PhaseOfPod[pods[n]]

(* Mutant: nodes that are in the status already keep their phase.          *)
AddPhases(status, pods) ==
    [n \in Nodes |->
        CASE n \notin Checked \/ status.nodes[n] # Absent -> status.nodes[n]
          [] OTHER -> [phase |-> NodePhase(n, pods), classes |-> "empty"]]

WithPhases(status, pods) ==
    [n \in Nodes |->
        CASE n \notin Checked -> status.nodes[n]
          [] n \in Checked /\ status.nodes[n] = Absent ->
               [phase |-> NodePhase(n, pods), classes |-> "empty"]
          [] OTHER -> [status.nodes[n] EXCEPT !.phase = NodePhase(n, pods)]]

InStatus(nodes) == {n \in Nodes : nodes[n] # Absent}

ClassReady(nodes, n) == nodes[n].classes = "ready"

(* The loop over the nodes tests a copy of each from before it sets those  *)
(* without a Ready class to Failure.                                       *)
ClusterReady(phased) == \E n \in InStatus(phased) : phased[n].phase = "Ready"

(* Mutant: the phase of a node is that of its pod, whatever its classes.   *)
NewStatusByPod(status, pods) ==
    LET phased == WithPhases(status, pods)
    IN  [phase |-> IF ClusterReady(phased) THEN "Ready" ELSE "Failure", nodes |-> phased]

NewStatus(status, pods) ==
    LET phased == WithPhases(status, pods)
    IN  [phase |-> IF ClusterReady(phased) THEN "Ready" ELSE "Failure",
         nodes |-> [n \in Nodes |->
                      IF n \notin InStatus(phased) THEN Absent
                      ELSE IF ClassReady(phased, n) THEN phased[n]
                      ELSE [phased[n] EXCEPT !.phase = "Failure"]]]

(* Mutant: the gauges follow the status that was read.                     *)
GaugeOld(status, pods) ==
    [cluster |-> status.phase = "Ready",
     nodes   |-> {n \in InStatus(status.nodes) : status.nodes[n].phase = "Ready"}]

(* The gauges: 0 (available) for these nodes and, if so, for the cluster.  *)
Gauge(status, pods) ==
    LET phased == WithPhases(status, pods)
    IN  [cluster |-> ClusterReady(phased),
         nodes   |-> {n \in Checked : NodePhase(n, pods) = "Ready" /\ ClassReady(phased, n)}]

(* The checker takes the lock, reads, and computes.  A status that stays   *)
(* as it is ends the round, without a metric.                              *)
ComputeStatus ==
    LET read == cache   \* Client.Get, from the cache of the manager
        new  == NewStatus(read.status, checker.pods)
    IN  /\ checker.at = "listed" /\ Unlocked
        /\ checker' = IF new = read.status THEN IdleChecker
                      ELSE [IdleChecker EXCEPT !.at = "send", !.copy = read, !.new = new,
                                               !.gauge = Gauge(read.status, checker.pods)]
        /\ UNCHANGED <<cm, pod, lost, cluster, cache, queue, informer, metric, refused, spent>>

(* The exporter receives and sets the gauges; those of other nodes stay.   *)
SendMetric ==
    /\ checker.at = "send"
    /\ checker' = [checker EXCEPT !.at = "update", !.gauge = IdleChecker.gauge]
    /\ metric' = checker.gauge
    /\ UNCHANGED <<cm, pod, lost, cluster, cache, queue, informer, refused, spent>>

WriteStatus ==
    /\ checker.at = "update"
    /\ UpdateStatus(checker.copy, checker.new)
    /\ Outdate
    /\ checker' = IdleChecker
    /\ UNCHANGED <<cm, pod, lost, queue, informer, metric, spent>>

Check == ListPods \/ ComputeStatus \/ SendMetric \/ WriteStatus

-----------------------------------------------------------------------------
(* Everything else.                                                        *)

(* The job or the daemon changes the status in a ConfigMap.                *)
WriteCm(n, classes) ==
    /\ cm[n] # classes
    /\ Spend("writes")
    /\ cm' = [cm EXCEPT ![n] = classes]
    /\ queue' = Append(queue, [node |-> n, classes |-> classes])
    /\ UNCHANGED <<pod, lost, cluster, cache, informer, checker, metric, refused>>

ChangePod(n, state) ==
    /\ pod[n] # state
    /\ Spend("pods")
    /\ pod' = [pod EXCEPT ![n] = state]
    /\ UNCHANGED <<cm, lost, cluster, cache, queue, informer, checker, metric, refused>>

(* The node controller loses sight of a node, or finds it again.           *)
ChangeNode(n) ==
    /\ Spend("pods")
    /\ lost' = IF n \in lost THEN lost \ {n} ELSE lost \cup {n}
    /\ UNCHANGED <<cm, pod, cluster, cache, queue, informer, checker, metric, refused>>

(* Another update of the TopolvmCluster: its status stays, its resource    *)
(* version does not (an edit of the specification, a finalizer).           *)
EditCluster ==
    /\ Spend("others")
    /\ cache' = [cache EXCEPT !.latest = FALSE]
    /\ informer' = Stale(informer)
    /\ checker' = Stale(checker)
    /\ UNCHANGED <<cm, pod, lost, cluster, queue, metric, refused>>

SyncCache ==
    /\ ~cache.latest
    /\ cache' = Current
    /\ UNCHANGED <<cm, pod, lost, cluster, queue, informer, checker, metric, refused, spent>>

(* The operator is restarted: the informer delivers every ConfigMap anew.  *)
Restart ==
    /\ Spend("others")
    /\ \E order \in SetToSeqs({n \in Nodes : cm[n] # NoCm}) :
          queue' = [i \in DOMAIN order |-> [node |-> order[i], classes |-> cm[order[i]]]]
    /\ cache' = Current
    /\ informer' = IdleInformer
    /\ checker' = IdleChecker
    /\ metric' = NoMetric
    /\ UNCHANGED <<cm, pod, lost, cluster, refused>>

Operator == HandleEvent \/ FinishEvent \/ Check

Environment ==
    \/ \E n \in Nodes, classes \in ClassSets : WriteCm(n, classes)
    \/ \E n \in Nodes, state \in PodStates : ChangePod(n, state)
    \/ \E n \in Nodes : ChangeNode(n)
    \/ EditCluster \/ SyncCache \/ Restart

Next == Operator \/ Environment

Spec == Init /\ [][Next]_vars

(* The informer's goroutine, the checker's timer, and the watch that feeds *)
(* the cache all go on.                                                    *)
FairSpec ==
    Spec /\ WF_vars(HandleEvent \/ FinishEvent) /\ WF_vars(Check) /\ WF_vars(SyncCache)

-----------------------------------------------------------------------------
(* Properties.                                                             *)

(* No update is lost: an informer's update changes the state of no other   *)
(* node, and the checker never changes the classes of a node in the status *)
(* although it writes a whole status back that it has read earlier.        *)
NoLostUpdate ==
    [][/\ FinishEvent =>
            \A n \in Nodes : n # Head(queue).node => cluster'.nodes[n] = cluster.nodes[n]
       /\ WriteStatus =>
            \A n \in InStatus(cluster.nodes) :
                /\ cluster'.nodes[n] # Absent
                /\ cluster'.nodes[n].classes = cluster.nodes[n].classes]_vars

(* The TopolvmCluster ends up with the classes of every ConfigMap:         *)
(* README.md:62, "TopolvmCluster controller update TopolvmCluster status". *)
StatusConverges ==
    <>[](\A n \in Nodes : cm[n] # NoCm =>
            /\ cluster.nodes[n] # Absent
            /\ cluster.nodes[n].classes = cm[n])

(* It does as long as no update is refused, however far the cache lags.    *)
StatusKept == []~refused => StatusConverges

(* Whatever is refused or lost in between, every node ends up with the     *)
(* phase that its pod, its node and its recorded classes call for.         *)
PhasesConverge ==
    <>[](\A n \in Checked :
            /\ cluster.nodes[n] # Absent
            /\ cluster.nodes[n].phase =
                 IF ClassReady(cluster.nodes, n) THEN NodePhase(n, pod) ELSE "Failure")

(* As long as no update is refused, the gauge of the cluster ends up in    *)
(* agreement with its phase, so that the alert of rule.go:26-32 says       *)
(* whether the cluster is unavailable.  The code sends the gauges before   *)
(* the update and does not send them again if that is refused.             *)
MetricConverges ==
    []~refused => <>[](metric # NoMetric => (metric.cluster <=> cluster.phase = "Ready"))

(* The status changes as if each writer read and wrote it in one step.     *)
Atomic == INSTANCE AtomicStatus WITH status <- cluster

StatusIsAtomic == Atomic!Spec
=============================================================================
