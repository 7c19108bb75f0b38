----------------------------- MODULE JobRetries -----------------------------
(***************************************************************************)
(* Who runs the job of PrepareVg again.  The operator decides on it from   *)
(* the node's status in the TopolvmCluster, which its ConfigMap informer   *)
(* copies there from the ConfigMap, one event after the other and later    *)
(* than the job writes it; an update that is refused is not repeated.      *)
(* The daemon, which writes the status as well, is left out: with it the   *)
(* property does not hold (see lost_class in README.md).                   *)
(***************************************************************************)
EXTENDS PrepareVg, Sequences

CONSTANT MaxPending   \* bound on the events that wait for the informer

ASSUME JobRetriesAssumption == MaxPending \in Nat \ {0}

VARIABLES
    reported,   \* the node's entry in TopolvmCluster.Status.NodeStorageStatus
    events,     \* the statuses whose events the informer has not handled
    lost        \* history: the update for the last event handled was refused

retryVars == <<vars, reported, events, lost>>

RetryInit == Init /\ reported = NoData /\ events = <<>> /\ lost = FALSE

(* The status in the ConfigMap; the first run creates the ConfigMap.       *)
RecordedStatus == IF cm = NoCm THEN NoData ELSE cm.status

(* onAdd and checkUpdateClusterStatus pass on a status whose text differs  *)
(* from the text before, which it may do although it says the same.        *)
CommitSeen ==
    /\ JobCommit /\ Len(events) < MaxPending
    /\ events' \in {Append(events, cm'.status)}
                   \cup (IF cm'.status = RecordedStatus THEN {events} ELSE {})
    /\ UNCHANGED <<reported, lost>>

(* TopolvmClusterReconciler.UpdateStatus, which puts the status in the     *)
(* node's place, or is refused because the cached copy was behind.         *)
Report ==
    /\ events # <<>>
    /\ events' = Tail(events)
    /\ \/ reported' = Head(events) /\ lost' = FALSE
       \/ reported' = reported /\ lost' = TRUE
    /\ UNCHANGED vars

Quiet == UNCHANGED <<reported, events, lost>>

RetryNext ==
    \/ CommitSeen \/ Report
    \/ Quiet /\ \/ JobStart \/ JobDie
                \/ \E vg \in VGs : ProvisionClass(vg) \/ DropClass(vg)
                \/ EnvNext

RetrySpec == RetryInit /\ [][RetryNext]_retryVars

-----------------------------------------------------------------------------
(* Mutant: only a node without a success class gets another job.           *)
HasEmptyStatus == reported # NoData /\ Classes(reported.suc) = {}

(* With a storage like lastCluster's, startPrepareVolumeGroupJob creates a *)
(* job for each node in the status with fail classes or without success    *)
(* classes.                                                                *)
HasFailClass ==
    /\ reported # NoData
    /\ \/ Classes(reported.suc) = {}
       \/ \E vg \in VGs : reported.fail[vg] # "none"

(* Without a lastCluster it creates the first job of the node anyway.      *)
FirstRun == RecordedStatus = NoData /\ JobStart /\ Quiet

Retry == HasFailClass /\ JobStart /\ Quiet

JobSteps ==
    \/ CommitSeen
    \/ Quiet /\ \E vg \in VGs : ProvisionClass(vg) \/ DropClass(vg)

(* Every event of the TopolvmCluster and every resync of the controller's  *)
(* cache brings a reconcile, so a retry that stays due comes; a pod that   *)
(* runs goes on; the informer handles its events.                          *)
FairRetries ==
    /\ RetrySpec
    /\ WF_retryVars(FirstRun) /\ WF_retryVars(Retry)
    /\ WF_retryVars(JobSteps) /\ WF_retryVars(Report)

-----------------------------------------------------------------------------
(* A class can be provided: its group exists by our hand, or its name is   *)
(* free and its disks carry nothing.                                       *)
Provisionable(vg) ==
    /\ vg \in Classes(spec.classes)
    /\ spec.classes[vg].devs # {}
    /\ \/ vg \in made /\ VgExists(node, vg)
       \/ ~VgExists(node, vg) /\ spec.classes[vg].devs \subseteq AvailableDevices(node)

(* If the disks of a class stay usable, a class that failed at first       *)
(* (because a disk had a file system) is created by a later run and        *)
(* served.  This holds while the specification stays as it is (the runs    *)
(* that an edit starts are in JobRunner), nothing fails in the job, and    *)
(* the refused updates of the status are made up for by later ones: after  *)
(* one that is not, the operator may take the node for one it knows        *)
(* nothing of, or that needs nothing, and never run the job again.         *)
EventuallyServed ==
    [](spent.edit = 0 /\ spent.fault = 0) /\ <>[]~lost =>
        \A vg \in VGs : <>[]Provisionable(vg) => <>[](vg \in ServedVgs)
=============================================================================
