-------------------------- MODULE NodeDeployments --------------------------
(***************************************************************************)
(* The topolvm-node Deployments, one a node.  The informer of the          *)
(* ConfigMap controller (controllers/lvmdconfig_controller.go) creates the *)
(* Deployment of a node once its ConfigMap has an lvmd.yaml, and deletes   *)
(* the node's pod when lvmd.yaml changes, for lvmd reads it only when it   *)
(* starts.  The TopolvmCluster controller puts a new image into all        *)
(* Deployments (startReplaceNodeDeployment).  The two run at the same      *)
(* time and share cluster.TopolvmImage.  lvmd.yaml and the image are       *)
(* numbered by their versions.                                             *)
(***************************************************************************)
EXTENDS Naturals, Sequences

CONSTANTS
    N,          \* the number of nodes
    NoImage, Unlisted,
    MaxEdits, MaxWrites, MaxTouches, MaxFaults, MaxCrashes

VARIABLES
    image,      \* spec.topolvmVersion of the TopolvmCluster
    lvmd,       \* node -> version of lvmd.yaml in its ConfigMap, 0 for none
    dep,        \* node -> its Deployment
    pod,        \* node -> what its pod was started with
    queued,     \* whether the TopolvmCluster is in the work queue
    template,   \* cluster.TopolvmImage
    recon,      \* the reconcile of the TopolvmCluster
    stream,     \* node -> the versions of its ConfigMap to be delivered
    known,      \* node -> lvmd.yaml in the informer's store
    hand,       \* the call of onAdd or onUpdate under way
    spent

external == <<image, lvmd, pod>>
operator == <<queued, template, recon, stream, known, hand>>
vars == <<external, dep, operator, spent>>

Nodes == 1 .. N
Images == 0 .. MaxEdits
Versions == 0 .. MaxWrites
Budget == [edits |-> MaxEdits, writes |-> MaxWrites, touches |-> MaxTouches,
           faults |-> MaxFaults, crashes |-> MaxCrashes]

ASSUME DeploymentConstants ==
    /\ N \in Nat
    /\ \A k \in DOMAIN Budget : Budget[k] \in Nat
    /\ NoImage \notin Images /\ Unlisted \notin Versions

(* The image of a Deployment, NoImage without one, and whether it is being *)
(* deleted.                                                                *)
Deployments == [image : Images \cup {NoImage}, deleting : BOOLEAN]

(* The image to put in, what the list showed, the Deployment whose turn it *)
(* is, and those that changed since, for which an update conflicts.        *)
Reconciles == [at : {"idle", "list", "update"}, image : Images,
               listed : [Nodes -> Images \cup {NoImage}], next : 1 .. N + 1,
               stale : SUBSET Nodes]

(* A call for a node: lvmd.yaml before (Unlisted in onAdd) and after.      *)
Calls == [at : {"idle", "check", "replace", "create", "wait", "make"}, node : Nodes,
          old : Versions \cup {Unlisted}, new : Versions]

TypeOK ==
    /\ image \in Images
    /\ lvmd \in [Nodes -> Versions]
    /\ dep \in [Nodes -> Deployments]
    /\ \A n \in Nodes : dep[n].deleting => dep[n].image # NoImage
    /\ pod \in [Nodes -> [image : Images \cup {NoImage}, lvmd : Versions]]
    /\ queued \in BOOLEAN
    /\ template \in Images \cup {NoImage}
    /\ recon \in Reconciles
    /\ stream \in [Nodes -> Seq(Versions)]
    /\ known \in [Nodes -> Versions \cup {Unlisted}]
    /\ hand \in Calls
    /\ spent \in [DOMAIN Budget -> Nat]

Missing == [image |-> NoImage, deleting |-> FALSE]

NoPod == [image |-> NoImage, lvmd |-> 0]

Resting == [at |-> "idle", image |-> 0, listed |-> [n \in Nodes |-> NoImage],
            next |-> 1, stale |-> {}]

NoCall == [at |-> "idle", node |-> 1, old |-> Unlisted, new |-> 0]

Init ==
    /\ image = 0
    /\ lvmd = [n \in Nodes |-> 0]
    /\ dep = [n \in Nodes |-> Missing]
    /\ pod = [n \in Nodes |-> NoPod]
    /\ queued = TRUE
    /\ template = NoImage
    /\ recon = Resting
    /\ stream = [n \in Nodes |-> <<0>>]
    /\ known = [n \in Nodes |-> Unlisted]
    /\ hand = NoCall
    /\ spent = [k \in DOMAIN Budget |-> 0]

-----------------------------------------------------------------------------
Spend(k) ==
    /\ spent[k] < Budget[k]
    /\ spent' = [spent EXCEPT ![k] = @ + 1]

Present(n) == dep[n].image # NoImage

Stale(n) == IF recon.at = "update" THEN [recon EXCEPT !.stale = @ \cup {n}] ELSE recon

-----------------------------------------------------------------------------
(* The reconcile of the TopolvmCluster, as far as it is about images.      *)

Fetch ==
    /\ recon.at = "idle" /\ queued
    /\ queued' = FALSE
    /\ template' = image
    /\ recon' = [Resting EXCEPT !.at = "list", !.image = image]
    /\ UNCHANGED <<external, dep, stream, known, hand, spent>>

ListDeployments ==
    /\ recon.at = "list"
    /\ \/ /\ recon' = [recon EXCEPT !.at = "update", !.listed = [n \in Nodes |-> dep[n].image]]
          /\ UNCHANGED <<queued, spent>>
       \/ /\ Spend("faults")
          /\ recon' = Resting
          /\ queued' = TRUE
    /\ UNCHANGED <<external, dep, template, stream, known, hand>>

(* Mutant: a missing Deployment ends the loop as well.                     *)
FinishAtMissing ==
    /\ recon.at = "update"
    /\ recon.next > N \/ (recon.next <= N /\ recon.listed[recon.next] \in {recon.image, NoImage})
    /\ recon' = Resting
    /\ UNCHANGED <<external, dep, queued, template, stream, known, hand, spent>>

(* All are updated, or one has the image already: the loop returns.        *)
Finish ==
    /\ recon.at = "update"
    /\ recon.next <= N => recon.listed[recon.next] = recon.image
    /\ recon' = Resting
    /\ UNCHANGED <<external, dep, queued, template, stream, known, hand, spent>>

(* An update that fails or conflicts is logged and forgotten.              *)
UpdateNext ==
    /\ recon.at = "update" /\ recon.next <= N
    /\ recon.listed[recon.next] # recon.image
    /\ recon' = [recon EXCEPT !.next = @ + 1]
    /\ \/ /\ recon.listed[recon.next] # NoImage /\ recon.next \notin recon.stale
          /\ dep' = [dep EXCEPT ![recon.next].image = recon.image]
          /\ UNCHANGED spent
       \/ /\ recon.listed[recon.next] = NoImage \/ recon.next \in recon.stale
          /\ UNCHANGED <<dep, spent>>
       \/ Spend("faults") /\ UNCHANGED dep
    /\ UNCHANGED <<external, queued, template, stream, known, hand>>

Reconcile == Fetch \/ ListDeployments \/ Finish \/ UpdateNext

-----------------------------------------------------------------------------
(* The informer, which runs once a reconcile has started it.               *)

Returns == hand' = NoCall

(* Mutant: onAdd does nothing.                                             *)
TakeUpdate(n) ==
    /\ hand.at = "idle" /\ template # NoImage /\ stream[n] # <<>>
    /\ stream' = [stream EXCEPT ![n] = Tail(@)]
    /\ known' = [known EXCEPT ![n] = Head(stream[n])]
    /\ hand' = IF Head(stream[n]) = 0 \/ known[n] = Unlisted THEN NoCall
               ELSE [at |-> "check", node |-> n, old |-> known[n], new |-> Head(stream[n])]
    /\ UNCHANGED <<external, dep, queued, template, recon, spent>>

(* The next event of a node; without an lvmd.yaml there is nothing to do.  *)
TakeEvent(n) ==
    /\ hand.at = "idle" /\ template # NoImage /\ stream[n] # <<>>
    /\ stream' = [stream EXCEPT ![n] = Tail(@)]
    /\ known' = [known EXCEPT ![n] = Head(stream[n])]
    /\ hand' = IF Head(stream[n]) = 0 THEN NoCall
               ELSE [at |-> "check", node |-> n, old |-> known[n], new |-> Head(stream[n])]
    /\ UNCHANGED <<external, dep, queued, template, recon, spent>>

(* Mutant: a Deployment that is there is left alone by onUpdate as well.   *)
CheckDeploymentOnce ==
    /\ hand.at = "check"
    /\ hand' = IF Present(hand.node) THEN NoCall ELSE [hand EXCEPT !.at = "create"]
    /\ UNCHANGED <<external, dep, queued, template, recon, stream, known, spent>>

(* Mutant: only onAdd creates a Deployment.                                *)
CheckDeploymentAdded ==
    /\ hand.at = "check"
    /\ hand' = IF Present(hand.node) THEN
                  IF hand.old \in {Unlisted, hand.new} THEN NoCall
                  ELSE [hand EXCEPT !.at = "replace"]
               ELSE IF hand.old = Unlisted THEN [hand EXCEPT !.at = "create"] ELSE NoCall
    /\ UNCHANGED <<external, dep, queued, template, recon, stream, known, spent>>

(* checkingDeploymentExisting: an error counts as a Deployment that is not *)
(* there.  onAdd leaves a Deployment alone; onUpdate replaces its pod if   *)
(* lvmd.yaml has changed.                                                  *)
CheckDeployment ==
    /\ hand.at = "check"
    /\ \/ /\ Present(hand.node)
          /\ hand' = IF hand.old \in {Unlisted, hand.new} THEN NoCall
                     ELSE [hand EXCEPT !.at = "replace"]
          /\ UNCHANGED spent
       \/ /\ ~Present(hand.node)
          /\ hand' = [hand EXCEPT !.at = "create"]
          /\ UNCHANGED spent
       \/ /\ Present(hand.node)
          /\ Spend("faults")
          /\ hand' = [hand EXCEPT !.at = "create"]
    /\ UNCHANGED <<external, dep, queued, template, recon, stream, known>>

ReplaceNodePod ==
    /\ hand.at = "replace"
    /\ \/ pod' = [pod EXCEPT ![hand.node] = NoPod] /\ UNCHANGED spent
       \/ Spend("faults") /\ UNCHANGED pod
    /\ Returns
    /\ UNCHANGED <<image, lvmd, dep, queued, template, recon, stream, known>>

(* CreateReplaceDeployment deletes a Deployment that is there.             *)
DeleteOld ==
    /\ hand.at = "create"
    /\ \/ /\ ~Present(hand.node)
          /\ hand' = [hand EXCEPT !.at = "make"]
          /\ UNCHANGED <<dep, recon, spent>>
       \/ /\ Present(hand.node)
          /\ dep' = [dep EXCEPT ![hand.node].deleting = TRUE]
          /\ recon' = Stale(hand.node)
          /\ hand' = [hand EXCEPT !.at = "wait"]
          /\ UNCHANGED spent
       \/ /\ Spend("faults")
          /\ Returns
          /\ UNCHANGED <<dep, recon>>
    /\ UNCHANGED <<external, queued, template, stream, known>>

(* deleteResourceAndWait: it gives up after 90 seconds, or at an error.    *)
WaitForDeletion ==
    /\ hand.at = "wait"
    /\ \/ /\ ~Present(hand.node)
          /\ hand' = [hand EXCEPT !.at = "make"]
          /\ UNCHANGED spent
       \/ Spend("faults") /\ Returns
    /\ UNCHANGED <<external, dep, queued, template, recon, stream, known>>

(* The new Deployment gets the image that cluster.TopolvmImage names now.  *)
CreateNodeDeployment ==
    /\ hand.at = "make"
    /\ \/ /\ dep' = [dep EXCEPT ![hand.node] = [image |-> template, deleting |-> FALSE]]
          /\ recon' = Stale(hand.node)
          /\ UNCHANGED spent
       \/ Spend("faults") /\ UNCHANGED <<dep, recon>>
    /\ Returns
    /\ UNCHANGED <<external, queued, template, stream, known>>

Informer ==
    \/ \E n \in Nodes : TakeEvent(n)
    \/ CheckDeployment \/ ReplaceNodePod \/ DeleteOld \/ WaitForDeletion
    \/ CreateNodeDeployment

-----------------------------------------------------------------------------
(* Kubernetes, the user, the prepareVg job and the death of the operator.  *)

StartPod(n) ==
    /\ Present(n) /\ ~dep[n].deleting
    /\ pod[n].image # dep[n].image
    /\ pod' = [pod EXCEPT ![n] = [image |-> dep[n].image, lvmd |-> lvmd[n]]]
    /\ UNCHANGED <<image, lvmd, dep, operator, spent>>

Purge(n) ==
    /\ dep[n].deleting
    /\ dep' = [dep EXCEPT ![n] = Missing]
    /\ pod' = [pod EXCEPT ![n] = NoPod]
    /\ recon' = Stale(n)
    /\ UNCHANGED <<image, lvmd, queued, template, stream, known, hand, spent>>

(* The status of a Deployment, or the kubelet path that the settings       *)
(* controller puts in: its resource version changes.                       *)
TouchDeployment(n) ==
    /\ Present(n) /\ recon.at = "update"
    /\ Spend("touches")
    /\ recon' = Stale(n)
    /\ UNCHANGED <<external, dep, queued, template, stream, known, hand>>

EditImage ==
    /\ Spend("edits")
    /\ image' = image + 1
    /\ queued' = TRUE
    /\ UNCHANGED <<lvmd, pod, dep, template, recon, stream, known, hand>>

WriteLvmd(n) ==
    /\ Spend("writes")
    /\ lvmd' = [lvmd EXCEPT ![n] = @ + 1]
    /\ stream' = [stream EXCEPT ![n] = Append(@, lvmd'[n])]
    /\ UNCHANGED <<image, pod, dep, queued, template, recon, known, hand>>

(* Another key of the ConfigMap is written.                                *)
TouchConfigMap(n) ==
    /\ Spend("touches")
    /\ stream' = [stream EXCEPT ![n] = Append(@, lvmd[n])]
    /\ UNCHANGED <<external, dep, queued, template, recon, known, hand>>

(* The operator dies and starts again: the informer lists the ConfigMaps.  *)
Crash ==
    /\ Spend("crashes")
    /\ queued' = TRUE
    /\ template' = NoImage
    /\ recon' = Resting
    /\ stream' = [n \in Nodes |-> <<lvmd[n]>>]
    /\ known' = [n \in Nodes |-> Unlisted]
    /\ hand' = NoCall
    /\ UNCHANGED <<external, dep>>

Next ==
    \/ Reconcile \/ Informer \/ EditImage \/ Crash
    \/ \E n \in Nodes : \/ StartPod(n) \/ Purge(n) \/ TouchDeployment(n)
                        \/ WriteLvmd(n) \/ TouchConfigMap(n)

Spec == Init /\ [][Next]_vars

(* The worker, the informer and Kubernetes go on.                          *)
FairSpec ==
    /\ Spec
    /\ WF_vars(Reconcile) /\ WF_vars(Informer)
    /\ \A n \in Nodes : WF_vars(StartPod(n)) /\ WF_vars(Purge(n))

-----------------------------------------------------------------------------
(* Properties.                                                             *)

(* Every node with an lvmd.yaml has a Deployment in the end, as long as no *)
(* call fails: README.md:61, "`ConfigMap controller` finds the new `lvmd   *)
(* ConfigMap` then create `Topolvm-node` Deployment".  The code does not   *)
(* repeat an event whose handling failed.                                  *)
DeploymentsCreated ==
    [](spent.faults = 0) =>
        \A n \in Nodes : <>[](lvmd[n] > 0 => Present(n) /\ ~dep[n].deleting)

(* lvmd runs with the lvmd.yaml of its node in the end, as long as no call *)
(* fails and the operator sees every change: lvmdconfig_controller.go:197. *)
(* After a restart of the operator onAdd leaves an old pod alone.          *)
LvmdReloaded ==
    [](spent.faults = 0 /\ spent.crashes = 0) =>
        \A n \in Nodes : <>[](pod[n] # NoPod => pod[n].lvmd = lvmd[n])

(* The update of images that finds every Deployment with another image     *)
(* reaches all of them, those created or deleted meanwhile included, as    *)
(* long as nobody else changes a Deployment.                               *)
UpdateCompletes ==
    [](spent.faults = 0 /\ spent.touches = 0 /\ spent.crashes = 0) =>
        \A v \in Images :
            (/\ recon.at = "update" /\ recon.next = 1 /\ recon.image = v
             /\ \A n \in Nodes : recon.listed[n] # v)
            ~> image # v \/ \A n \in Nodes : dep[n].image \in {v, NoImage}

(* A Deployment that failing calls have lost is made again when the next   *)
(* event of its node arrives, unless it was still being deleted then:      *)
(* lvmdconfig_controller.go:195-203 falls back to the creation.            *)
FailureRepaired ==
    \A n \in Nodes :
        (/\ hand.at = "idle" /\ ~dep[n].deleting
         /\ stream[n] # <<>> /\ lvmd[n] > 0
         /\ spent.faults = MaxFaults /\ spent.crashes = MaxCrashes)
        ~> Present(n) /\ ~dep[n].deleting
=============================================================================
