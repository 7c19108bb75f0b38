---------------------- MODULE ClusterReconcilerProofs ----------------------
(***************************************************************************)
(* For all names, storages and bounds: the type invariant of               *)
(* ClusterReconciler, and that no status checker gets out of hand as long  *)
(* as no call fails (OneChecker).                                          *)
(***************************************************************************)
EXTENDS ClusterReconciler, TLAPS

Listening == op.checker /\ op.stopCh = "open"

(* What holds besides OneChecker until a call fails: onAdd runs with a     *)
(* status checker, the clean-up without a lastCluster, and a checker that  *)
(* can be stopped is only there without a lastCluster while one of these   *)
(* two is under way (or the operator has panicked).                        *)
CheckerInv ==
    /\ op.orphans = 0
    /\ op.last # NoCluster => Listening
    /\ recon.at \in {"csidriver", "daemonset", "jobs", "deployments"} => Listening
    /\ recon.at \in {"annotations", "clean", "close"} => op.last = NoCluster
    /\ recon.at \in {"idle", "finalizer", "remove", "check"} =>
         op.panicked \/ op.last # NoCluster \/ ~Listening

IInv == TypeOK /\ (spent.faults = 0 => CheckerInv)

-----------------------------------------------------------------------------
(* Spending keeps the type of spent, and does not undo a failed call.      *)
LEMMA SpendStep ==
    ASSUME spent \in [DOMAIN Budget -> Nat], NEW k \in DOMAIN Budget, Spend(k)
    PROVE  /\ spent' \in [DOMAIN Budget -> Nat]
           /\ k = "faults" => spent'.faults # 0
           /\ k # "faults" => spent'.faults = spent.faults
BY DEF Spend, Budget

(* The updates of a TopolvmCluster make a TopolvmCluster.                  *)
LEMMA ClusterTypes ==
    ASSUME NEW c \in Clusters
    PROVE  /\ c.name \in Names /\ c.storage \in Storages
           /\ [c EXCEPT !.finalizer = TRUE, !.version = @ + 1] \in Clusters
           /\ [c EXCEPT !.deleting = TRUE, !.version = @ + 1] \in Clusters
           /\ \A v \in Storages : [c EXCEPT !.storage = v, !.version = @ + 1] \in Clusters
<1> DEFINE next == c.version + 1
<1>1. c.name \in Names /\ c.storage \in Storages /\ next \in Nat
  BY DEF Clusters
<1> HIDE DEF next
<1>2. /\ [c EXCEPT !.finalizer = TRUE, !.version = next] \in Clusters
      /\ [c EXCEPT !.deleting = TRUE, !.version = next] \in Clusters
      /\ \A v \in Storages : [c EXCEPT !.storage = v, !.version = next] \in Clusters
  BY <1>1 DEF Clusters
<1> QED
  BY <1>1, <1>2 DEF next

(* The types of the job and of the plugin on the nodes.                    *)
LEMMA NodeTypes ==
    ASSUME ClusterConstants, nodes \in NodeStates, cluster \in Clusters \cup {NoCluster},
           \/ RunJobs \/ RunJob \/ StartPlugin \/ CollectPlugin
           \/ nodes' = [nodes EXCEPT !.owned = FALSE] \/ UNCHANGED nodes
    PROVE  nodes' \in NodeStates
<1>1. Exists => cluster.storage \in Storages
  BY DEF Clusters, Exists
<1>2. Exists \in BOOLEAN
  BY DEF Exists
<1>3. CASE RunJobs
  BY <1>2, <1>3 DEF RunJobs, NodeStates
<1>4. CASE RunJob
  BY <1>1, <1>4 DEF RunJob, ReadStorage, FinishJob, CollectJob, NodeStates
<1> QED
  BY <1>3, <1>4 DEF StartPlugin, CollectPlugin, NodeStates

LEMMA InitIInv == Init => IInv
BY ClusterConstants DEF Init, IInv, TypeOK, CheckerInv, Listening, Resting, NewProcess,
   Reconciles, Processes, Places, DaemonSets, Kinds, Budget, NodeStates, NoJobs

(* A new status checker listens; there was none to be stopped before.      *)
LEMMA StartCheckerStep ==
    ASSUME NEW o \in Processes
    PROVE  /\ StartChecker(o) \in Processes
           /\ StartChecker(o).last = o.last
           /\ StartChecker(o).panicked = o.panicked
           /\ o.last # NoCluster =>
                /\ StartChecker(o).checker = o.checker
                /\ StartChecker(o).stopCh = o.stopCh
                /\ StartChecker(o).orphans = o.orphans
           /\ o.last = NoCluster =>
                /\ StartChecker(o).checker
                /\ StartChecker(o).stopCh = "open"
                /\ ~(o.checker /\ o.stopCh = "open") => StartChecker(o).orphans = o.orphans
<1> DEFINE i == [o EXCEPT !.informer = TRUE]
<1>1. /\ i \in Processes
      /\ i.last = o.last /\ i.panicked = o.panicked /\ i.checker = o.checker
      /\ i.stopCh = o.stopCh /\ i.orphans = o.orphans
  BY DEF Processes
<1>2. /\ WithNewChecker(i) \in Processes
      /\ WithNewChecker(i).last = i.last /\ WithNewChecker(i).panicked = i.panicked
      /\ WithNewChecker(i).checker /\ WithNewChecker(i).stopCh = "open"
      /\ ~(i.checker /\ i.stopCh = "open") => WithNewChecker(i).orphans = i.orphans
  <2> DEFINE k == IF i.stopCh = "open" /\ i.checker THEN i.orphans + 1 ELSE i.orphans
  <2>1. i \in Processes /\ k \in Nat
    BY <1>1 DEF Processes
  <2>2. WithNewChecker(i) = [i EXCEPT !.stopCh = "open", !.checker = TRUE, !.orphans = k]
    BY DEF WithNewChecker
  <2>3. ~(i.checker /\ i.stopCh = "open") => k = i.orphans
    OBVIOUS
  <2> HIDE DEF i, k
  <2> QED
    BY <2>1, <2>2, <2>3 DEF Processes
<1>3. StartChecker(o) = IF o.last = NoCluster THEN WithNewChecker(i) ELSE i
  BY DEF StartChecker
<1> QED
  BY <1>1, <1>2, <1>3

LEMMA ReconcileStep == IInv /\ Reconcile => IInv'
<1> SUFFICES ASSUME IInv, Reconcile PROVE IInv'
  OBVIOUS
<1> USE ClusterConstants DEF IInv, TypeOK, CheckerInv, Listening, Resting, At, Goes, Exists,
        Reconciles, Processes, Places, DaemonSets, Kinds
<1>1. ASSUME NEW name \in Names, Fetch(name) PROVE IInv'
  <2>1. CASE UNCHANGED <<recon, op>>
    BY <1>1, <2>1 DEF Fetch
  <2>2. CASE /\ Exists /\ cluster.name = name
             /\ recon' = [at |-> "finalizer", name |-> name, copy |-> cluster]
             /\ op' = [op EXCEPT !.watched = IF @ = NoName THEN name ELSE @]
    <3>1. /\ op' \in Processes /\ recon' \in Reconciles
          /\ recon'.name \in Names /\ recon'.copy \in Clusters
          /\ op'.last = op.last /\ op'.checker = op.checker /\ op'.stopCh = op.stopCh
          /\ op'.orphans = op.orphans /\ op'.panicked = op.panicked
      BY <2>2
    <3> QED
      BY <1>1, <2>2, <3>1 DEF Fetch
  <2> QED
    BY <1>1, <2>1, <2>2 DEF Fetch
<1>2. CASE AddFinalizer
  <2>1. recon' = Resting => recon' \in Reconciles
    BY DEF Resting
  <2>2. cluster \in Clusters => [cluster EXCEPT !.finalizer = TRUE, !.version = @ + 1] \in Clusters
    BY ClusterTypes
  <2>3. recon.name \in Names /\ recon.copy \in Clusters
    BY <1>2 DEF AddFinalizer
  <2>4. CASE recon.copy.finalizer
    BY <1>2, <2>3, <2>4 DEF AddFinalizer
  <2>5. CASE ~recon.copy.finalizer /\ cluster = recon.copy
    <3>1. /\ cluster' = [cluster EXCEPT !.finalizer = TRUE, !.version = @ + 1]
          /\ queue' = queue \cup {recon.name}
          /\ recon' = [recon EXCEPT !.at = "check", !.copy = cluster']
          /\ recon.at = "finalizer"
          /\ UNCHANGED <<leftover, daemonset, op, nodes, spent>>
      BY <1>2, <2>5 DEF AddFinalizer
    <3>2. cluster' \in Clusters
      BY <2>2, <2>3, <2>5, <3>1
    <3>3. recon' \in Reconciles /\ recon'.at = "check" /\ recon'.name = recon.name
          /\ recon'.copy = cluster'
      BY <2>3, <3>1, <3>2
    <3> QED
      BY <2>3, <3>1, <3>2, <3>3
  <2>6. CASE ~recon.copy.finalizer /\ cluster # recon.copy
    BY <1>2, <2>1, <2>3, <2>6 DEF AddFinalizer, Requeued, Resting
  <2> QED
    BY <2>4, <2>5, <2>6
<1>3. CASE RemoveFinalizer
  <2>1. /\ op' \in Processes /\ op'.last = NoCluster /\ op'.orphans = op.orphans
        /\ recon' \in Reconciles /\ recon'.at = "annotations"
        /\ recon'.name = recon.name /\ recon'.copy = recon.copy
    BY <1>3 DEF RemoveFinalizer
  <2>2. /\ nodes' \in NodeStates /\ queue' \in SUBSET Names
        /\ cluster' \in Clusters \cup {NoCluster}
    BY <1>3, NodeTypes DEF RemoveFinalizer
  <2> QED
    BY <1>3, <2>1, <2>2 DEF RemoveFinalizer
<1>4. CASE RemoveNodeCapacityAnnotations
  BY <1>4, SpendStep DEF RemoveNodeCapacityAnnotations, Budget
<1>5. CASE CleanCluster
  BY <1>5, SpendStep DEF CleanCluster, Budget
<1>6. CASE CloseStopCh
  BY <1>6 DEF CloseStopCh
<1>7. CASE CheckStorageConfig
  <2>1. CASE Requeued /\ UNCHANGED op
    BY <1>7, <2>1 DEF CheckStorageConfig, Requeued, Resting
  <2>2. CASE op' = StartChecker(op) /\ Goes("csidriver") /\ UNCHANGED queue
    <3>1. op' \in Processes /\ recon' \in Reconciles
      BY <1>7, <2>2, StartCheckerStep DEF CheckStorageConfig
    <3>2. TypeOK'
      BY <1>7, <2>2, <3>1 DEF CheckStorageConfig
    <3>3. ASSUME spent.faults = 0 PROVE CheckerInv'
      BY <1>7, <2>2, <3>3, StartCheckerStep DEF CheckStorageConfig
    <3> QED
      BY <1>7, <3>2, <3>3 DEF CheckStorageConfig
  <2> QED
    BY <1>7, <2>1, <2>2 DEF CheckStorageConfig
<1>8. CASE CreateCsiDriver
  BY <1>8 DEF CreateCsiDriver
<1>9. CASE CheckUpdateDiscoverDaemonset
  BY <1>9 DEF CheckUpdateDiscoverDaemonset
<1>10. CASE StartJobs
  BY <1>10 DEF StartJobs
<1>11. CASE UpdateDeployments
  BY <1>11 DEF UpdateDeployments
<1> QED
  BY <1>1, <1>2, <1>3, <1>4, <1>5, <1>6, <1>7, <1>8, <1>9, <1>10, <1>11 DEF Reconcile

(* The other goroutines, the user, the node plugin and restarts.           *)
LEMMA OtherStep ==
    IInv /\ (Next \/ UNCHANGED vars) /\ ~Reconcile => IInv'
<1> SUFFICES ASSUME IInv, Next \/ UNCHANGED vars, ~Reconcile PROVE IInv'
  OBVIOUS
<1> USE ClusterConstants DEF IInv, TypeOK, CheckerInv, Listening, At, Exists, Reconciles,
        Processes, Places, DaemonSets, Kinds
<1>1. CASE CheckerStops
  BY <1>1 DEF CheckerStops
<1>2. CASE RunJobs
  <2>1. nodes' \in NodeStates
    BY <1>2, NodeTypes
  <2>2. op' \in Processes /\ op' = [op EXCEPT !.jobs = FALSE]
    BY <1>2 DEF RunJobs
  <2>3. /\ spent' \in [DOMAIN Budget -> Nat]
        /\ spent'.faults = 0 => spent.faults = 0
    BY <1>2, SpendStep DEF RunJobs, Budget
  <2> QED
    BY <1>2, <2>1, <2>2, <2>3 DEF RunJobs
<1>3. CASE DevicesChanged
  BY <1>3, SpendStep DEF DevicesChanged, Budget
<1>4. CASE ReconcileSettings
  BY <1>4 DEF ReconcileSettings
<1>5. ASSUME NEW place \in Failing, ReturnError(place) PROVE IInv'
  <2>1. op' \in Processes
    BY <1>5 DEF ReturnError
  <2> QED
    BY <1>5, <2>1, SpendStep DEF ReturnError, Requeued, Resting, Failing, Budget
<1>6. ASSUME NEW name \in Names, NEW v \in Storages, Create(name, v) PROVE IInv'
  BY <1>6, SpendStep DEF Create, Clusters, Budget
<1>7. ASSUME NEW v \in Storages, Edit(v) PROVE IInv'
  <2>1. cluster \in Clusters =>
          /\ [cluster EXCEPT !.storage = v, !.version = @ + 1] \in Clusters
          /\ cluster.name \in Names
    BY ClusterTypes
  <2> QED
    BY <1>7, <2>1, SpendStep DEF Edit, Budget
<1>8. CASE DeleteCluster
  <2>1. cluster \in Clusters =>
          /\ [cluster EXCEPT !.deleting = TRUE, !.version = @ + 1] \in Clusters
          /\ cluster.name \in Names
    BY ClusterTypes
  <2>2. nodes' \in NodeStates
    BY <1>8, NodeTypes DEF DeleteCluster
  <2> QED
    BY <1>8, <2>1, <2>2 DEF DeleteCluster
<1>9. CASE Annotate
  BY <1>9, SpendStep DEF Annotate, Budget
<1>10. ASSUME NEW removed, Restarted(removed), spent' \in [DOMAIN Budget -> Nat]
       PROVE  IInv'
  BY <1>10 DEF Restarted, Resting, NewProcess, Clusters
<1>11. CASE Crash
  BY <1>10, <1>11, SpendStep DEF Crash, Budget
<1>12. CASE Recover
  BY <1>10, <1>12, SpendStep DEF Recover, Budget
<1>13. CASE UNCHANGED vars
  BY <1>13 DEF vars
<1>14. CASE RunJob
  BY <1>14, NodeTypes DEF RunJob, ReadStorage, FinishJob, CollectJob
<1>15. CASE StartPlugin \/ CollectPlugin
  BY <1>15, NodeTypes DEF StartPlugin, CollectPlugin
<1> QED
  BY <1>1, <1>2, <1>3, <1>4, <1>5, <1>6, <1>7, <1>8, <1>9, <1>11, <1>12, <1>13, <1>14,
     <1>15 DEF Next

LEMMA Invariance == Spec => []IInv
<1>1. IInv /\ [Next]_vars => IInv'
  BY ReconcileStep, OtherStep
<1> QED
  BY InitIInv, <1>1, PTL DEF Spec

-----------------------------------------------------------------------------
(* The types of all variables, for every choice of names and storages.     *)
THEOREM TypeCorrect == Spec => []TypeOK
BY Invariance, PTL DEF IInv

(* Until a call fails there is never a status checker that nobody can      *)
(* stop, and the cluster the operator knows has one, however many          *)
(* clusters, edits and restarts there are.                                 *)
THEOREM OneCheckerAlways == Spec => []OneChecker
<1>1. IInv => OneChecker
  BY DEF IInv, CheckerInv, Listening, OneChecker
<1> QED
  BY Invariance, <1>1, PTL
=============================================================================
