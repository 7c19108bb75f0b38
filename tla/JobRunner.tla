----------------------------- MODULE JobRunner -----------------------------
(***************************************************************************)
(* The replaceable prepareVg job of one node (pkg/operator/k8sutil/job.go, *)
(* pkg/operator/volumegroup/vgmanager.go).  Every request for a run, from  *)
(* an edit of the TopolvmCluster or for another reason, is a goroutine     *)
(* (caller) of its own that finds, waits for, deletes and creates the one  *)
(* Job object of the node.  The Job controller and the kubelet start its   *)
(* pod, which reads the TopolvmCluster once, when it starts.               *)
(***************************************************************************)
EXTENDS Naturals

CONSTANTS
    Callers,       \* the goroutines that may request a run
    NoJob,         \* there is no Job object
    MaxEdits,      \* edits of the node's device classes
    MaxRequests,   \* runs requested for other reasons
    MaxErrors,     \* calls to the API server that fail
    MaxFails,      \* pods of the job that are killed
    MayTimeOut     \* whether waiting may be given up

VARIABLES
    edits,    \* the number of edits so far: the version of the specification
    handled,  \* the version that the reconciler has seen (lastCluster)
    caller,   \* where each goroutine is, and the version it was started for
    job,      \* the Job object with its pod
    applied,  \* the version that the last completed run has carried out
    gaveUp,   \* whether some caller has given up waiting
    spent     \* how often each bounded event has happened

vars == <<edits, handled, caller, job, applied, gaveUp, spent>>

Versions == 0 .. MaxEdits

NotRead == MaxEdits + 1   \* the pod has not read the TopolvmCluster yet

Places == {"idle", "detect", "wait", "delete", "gone", "create"}

(* "initial" and "failed": no pod is active.                               *)
Phases == {"initial", "active", "failed", "succeeded"}

Jobs == [phase: Phases, read: Versions \cup {NotRead}, deleting: BOOLEAN]

NewJob == [phase |-> "initial", read |-> NotRead, deleting |-> FALSE]

Budget == [requests |-> MaxRequests, errors |-> MaxErrors, fails |-> MaxFails]

ASSUME JobConstants ==
    /\ MaxEdits \in Nat /\ MaxRequests \in Nat
    /\ MaxErrors \in Nat /\ MaxFails \in Nat
    /\ MayTimeOut \in BOOLEAN
    /\ NoJob \notin Jobs

TypeOK ==
    /\ edits \in Versions
    /\ handled \in Versions
    /\ caller \in [Callers -> [at: Places, want: Versions]]
    /\ job \in Jobs \cup {NoJob}
    /\ applied \in Versions
    /\ gaveUp \in BOOLEAN
    /\ spent \in [DOMAIN Budget -> Nat]
    /\ \A k \in DOMAIN Budget : spent[k] <= Budget[k]

Init ==
    /\ edits = 0 /\ handled = 0
    /\ caller = [c \in Callers |-> [at |-> "idle", want |-> 0]]
    /\ job = NoJob
    /\ applied = 0
    /\ gaveUp = FALSE
    /\ spent = [k \in DOMAIN Budget |-> 0]

-----------------------------------------------------------------------------
Spend(k) ==
    /\ spent[k] < Budget[k]
    /\ spent' = [spent EXCEPT ![k] = @ + 1]

Goes(c, from, to) ==
    /\ caller[c].at = from
    /\ caller' = [caller EXCEPT ![c].at = to]

(* A call to the API server that fails, where the code goes on to `to'.    *)
Errs(c, from, to) ==
    /\ Goes(c, from, to)
    /\ Spend("errors")
    /\ UNCHANGED <<edits, handled, job, applied, gaveUp>>

Exists == job # NoJob

Active == Exists /\ job.phase = "active"

Completed == Exists /\ job.phase \in {"failed", "succeeded"}

(* A user edits the device classes of the node.                            *)
Edit ==
    /\ edits < MaxEdits
    /\ edits' = edits + 1
    /\ UNCHANGED <<handled, caller, job, applied, gaveUp, spent>>

Request(c) ==
    /\ caller[c].at = "idle"
    /\ caller' = [caller EXCEPT ![c] = [at |-> "detect", want |-> edits]]

(* The reconciler finds a specification that differs from lastCluster and  *)
(* starts a goroutine for it, however many are still under way.            *)
ReconcileEdit(c) ==
    /\ handled # edits
    /\ Request(c)
    /\ handled' = edits
    /\ UNCHANGED <<edits, job, applied, gaveUp, spent>>

(* The node has failed classes, or its list of devices changed.            *)
RequestAgain(c) ==
    /\ Request(c)
    /\ Spend("requests")
    /\ UNCHANGED <<edits, handled, job, applied, gaveUp>>

-----------------------------------------------------------------------------
(* RunReplaceableJob, with deleteIfFound = FALSE.                          *)

(* An active job is left alone and the request is over; any other one has  *)
(* to complete first.  An error counts as "not found".                     *)
Detect(c) ==
    \/ /\ Goes(c, "detect", CASE Active -> "idle"
                              [] Exists /\ ~Active -> "wait"
                              [] OTHER -> "create")
       /\ UNCHANGED <<edits, handled, job, applied, gaveUp, spent>>
    \/ Errs(c, "detect", "create")

(* WaitForJobCompletion: the poll returns when the job has succeeded, has  *)
(* failed, or cannot be read.  Its error is logged only.                   *)
Poll(c) ==
    \/ /\ ~Exists \/ Completed
       /\ Goes(c, "wait", "delete")
       /\ UNCHANGED <<edits, handled, job, applied, gaveUp, spent>>
    \/ Errs(c, "wait", "delete")

(* Mutant: the hour is only looked at once the job has completed.          *)
PollTimeoutCompleted(c) ==
    /\ MayTimeOut /\ (~Exists \/ Completed)
    /\ Goes(c, "wait", "delete")
    /\ gaveUp' = TRUE
    /\ UNCHANGED <<edits, handled, job, applied, spent>>

(* One hour is over.                                                       *)
PollTimeout(c) ==
    /\ MayTimeOut
    /\ Goes(c, "wait", "delete")
    /\ gaveUp' = TRUE
    /\ UNCHANGED <<edits, handled, job, applied, spent>>

(* DeleteBatchJob deletes whatever job has the name by now; it stays until *)
(* its pod is gone (foreground).                                           *)
Delete(c) ==
    \/ /\ Goes(c, "delete", IF Exists THEN "gone" ELSE "create")
       /\ job' = IF Exists THEN [job EXCEPT !.deleting = TRUE] ELSE NoJob
       /\ UNCHANGED <<edits, handled, applied, gaveUp, spent>>
    \/ Errs(c, "delete", "create")

WaitGone(c) ==
    /\ ~Exists
    /\ Goes(c, "gone", "create")
    /\ UNCHANGED <<edits, handled, job, applied, gaveUp, spent>>

(* All retries are used up, after 40 seconds.                              *)
GiveUp(c) ==
    /\ MayTimeOut
    /\ Goes(c, "gone", "create")
    /\ gaveUp' = TRUE
    /\ UNCHANGED <<edits, handled, job, applied, spent>>

(* Mutant: the job is only ever created for the first request.             *)
CreateFirst(c) ==
    /\ Goes(c, "create", "idle")
    /\ job' = IF Exists \/ applied > 0 THEN job ELSE NewJob
    /\ UNCHANGED <<edits, handled, applied, gaveUp, spent>>

(* Mutant: the job is given the specification that its caller has seen.    *)
CreateForRequest(c) ==
    /\ Goes(c, "create", "idle")
    /\ job' = IF Exists THEN job ELSE [NewJob EXCEPT !.read = caller[c].want]
    /\ UNCHANGED <<edits, handled, applied, gaveUp, spent>>

(* Create fails if somebody else has created the job (AlreadyExists); all  *)
(* callers of MakeAndRunJob log the error and do nothing about it.         *)
Create(c) ==
    \/ /\ Goes(c, "create", "idle")
       /\ job' = IF Exists THEN job ELSE NewJob
       /\ UNCHANGED <<edits, handled, applied, gaveUp, spent>>
    \/ Errs(c, "create", "idle")

Call(c) == Detect(c) \/ Poll(c) \/ Delete(c) \/ WaitGone(c) \/ Create(c)

TimeOut(c) == PollTimeout(c) \/ GiveUp(c)

-----------------------------------------------------------------------------
(* Kubernetes: the Job controller, the kubelet and the garbage collector.  *)

UpdateJob(new) ==
    /\ job' = new
    /\ UNCHANGED <<edits, handled, caller, gaveUp>>

(* The first pod of the job, or the next one after a failed one.           *)
StartPod ==
    /\ Exists /\ ~Active /\ job.phase # "succeeded" /\ ~job.deleting
    /\ UpdateJob([job EXCEPT !.phase = "active"])
    /\ UNCHANGED <<applied, spent>>

(* PrePareVg.Reconcile reads the TopolvmCluster.                           *)
ReadSpec ==
    /\ Active /\ job.read = NotRead
    /\ UpdateJob([job EXCEPT !.read = edits])
    /\ UNCHANGED <<applied, spent>>

(* The pod always exits with 0, whatever provision returned.               *)
Succeed ==
    /\ Active /\ job.read # NotRead
    /\ UpdateJob([job EXCEPT !.phase = "succeeded"])
    /\ applied' = job.read
    /\ UNCHANGED spent

(* It exits with 0 as well if it could not read the TopolvmCluster.        *)
ReadFails ==
    /\ Active /\ job.read = NotRead
    /\ UpdateJob([job EXCEPT !.phase = "succeeded"])
    /\ Spend("errors")
    /\ UNCHANGED applied

Fail ==
    /\ Active
    /\ UpdateJob([job EXCEPT !.phase = "failed", !.read = NotRead])
    /\ Spend("fails")
    /\ UNCHANGED applied

Collect ==
    /\ Exists /\ job.deleting
    /\ UpdateJob(NoJob)
    /\ UNCHANGED <<applied, spent>>

Pod == StartPod \/ ReadSpec \/ Succeed

Next ==
    \/ Edit
    \/ \E c \in Callers : ReconcileEdit(c) \/ RequestAgain(c) \/ Call(c) \/ TimeOut(c)
    \/ Pod \/ ReadFails \/ Fail \/ Collect

Spec == Init /\ [][Next]_vars

(* Goroutines run, the reconciler sees every edit, the garbage collector   *)
(* removes what is deleted, and time passes.                               *)
FairSpec ==
    /\ Spec
    /\ \A c \in Callers : WF_vars(Call(c)) /\ WF_vars(TimeOut(c))
    /\ WF_vars(\E c \in Callers : ReconcileEdit(c))
    /\ WF_vars(Collect)

-----------------------------------------------------------------------------
(* Properties.                                                             *)

(* The node is up, so that pods get to run.                                *)
PodsRun == WF_vars(Pod)

Undisturbed == spent.errors = 0 /\ ~gaveUp

(* A request that got past Detect is answered, unless a call fails or the  *)
(* caller gives up: some run that carries out the version the request was  *)
(* made for, or a later one, completes.  The job that another caller       *)
(* created in between serves too, and so does the successor of a job that  *)
(* another caller deleted while it ran.                                    *)
CallServed ==
    PodsRun /\ []Undisturbed =>
        \A c \in Callers, v \in Versions :
            caller[c].at \notin {"idle", "detect"} /\ caller[c].want = v
                ~> applied >= v

(* Every goroutine ends, also when the pod of the job never gets to run    *)
(* and whatever calls fail: the informer is one of the callers.            *)
CallsReturn == \A c \in Callers : caller[c].at # "idle" ~> caller[c].at = "idle"

(* The versions are carried out in order, whichever callers delete and     *)
(* create the job, because its pod reads the TopolvmCluster when it runs   *)
(* and a deleted job is gone before the next one is created.               *)
Node == INSTANCE EditedNode

RunsInOrder == Node!Spec

(* Every edit of the device classes is carried out by some run:            *)
(* docs/user_manual.md:221, "you can add device to volume group just edit  *)
(* TopolvmCluster instance".                                               *)
EditsApplied == PodsRun => \A v \in Versions : edits = v ~> applied >= v
=============================================================================
