-------------------------- MODULE StatusSyncProofs --------------------------
(***************************************************************************)
(* For all nodes, states of pods and bounds: the type invariant of         *)
(* StatusSync, and that the two writers of the status, each of which       *)
(* writes back a whole copy it has read earlier, lose nothing the other    *)
(* has written (NoLostUpdate).                                             *)
(***************************************************************************)
EXTENDS StatusSync, FiniteSetTheorems, TLAPS

(* A copy with the latest resource version says what the API server says.  *)
Faithful(copy) == copy.latest => copy.status = cluster

Writing == checker.at \in {"send", "update"}

(* A status that keeps the nodes of another one, with their classes.       *)
KeepsClasses(new, old) ==
    \A n \in InStatus(old.nodes) :
        new.nodes[n] # Absent /\ new.nodes[n].classes = old.nodes[n].classes

(* It calls nodes Ready that have a Ready class, in a Ready cluster, and   *)
(* adds nodes without classes.                                             *)
CallsReady(new, old) ==
    /\ new.phase \in {"Ready", "Failure"}
    /\ \A n \in Nodes :
        /\ old.nodes[n] = Absent /\ new.nodes[n] # Absent => new.nodes[n].classes = "empty"
        /\ new.nodes[n] # Absent /\ new.nodes[n].phase = "Ready" =>
             new.nodes[n].classes = "ready" /\ new.phase = "Ready"

Assesses(new, old) == KeepsClasses(new, old) /\ CallsReady(new, old)

(* The lock keeps the two writers apart; every copy that may be written    *)
(* back is faithful; the checker has computed its status from its copy.    *)
SyncInv ==
    /\ informer.at = "update" => queue # <<>> /\ ~Writing
    /\ Faithful(cache)
    /\ informer.at = "update" => Faithful(informer.copy)
    /\ Writing => Faithful(checker.copy) /\ Assesses(checker.new, checker.copy.status)

IInv == TypeOK /\ SyncInv

-----------------------------------------------------------------------------
LEMMA SpendType ==
    ASSUME spent \in [DOMAIN Budget -> Nat], NEW k \in DOMAIN Budget, Spend(k)
    PROVE  spent' \in [DOMAIN Budget -> Nat]
BY DEF Spend

(* A status whose node states are replaced by node states is a status.     *)
LEMMA StatusType ==
    ASSUME NEW status \in Statuses, NEW n \in Nodes, NEW classes \in ClassSets
    PROVE  /\ WithNodeState(status, n, classes) \in Statuses
           /\ \A m \in Nodes : m # n =>
                WithNodeState(status, n, classes).nodes[m] = status.nodes[m]
<1> DEFINE st == [phase |-> "unset", classes |-> classes]
<1>1. st \in NodeStates
  BY DEF NodeStates, Phases
<1>2. status.nodes \in [Nodes -> NodeStates \cup {Absent}]
  BY DEF Statuses
<1>3. [status.nodes EXCEPT ![n] = st] \in [Nodes -> NodeStates \cup {Absent}]
  BY <1>1, <1>2
<1>4. WithNodeState(status, n, classes)
        = [status EXCEPT !.nodes = [status.nodes EXCEPT ![n] = st]]
  BY DEF WithNodeState
<1> QED
  BY <1>2, <1>3, <1>4 DEF Statuses

LEMMA PodPhases ==
    ASSUME NEW pods \in [Nodes -> PodStates], NEW n \in Nodes
    PROVE  NodePhase(n, pods) \in Phases
BY StatusConstants DEF NodePhase, PhaseOfPod, Phases

(* What the checker computes for one node.                                 *)
LEMMA NewNodes ==
    ASSUME NEW status \in Statuses, NEW pods \in [Nodes -> PodStates], NEW n \in Nodes
    PROVE  LET new == NewStatus(status, pods)
           IN  new.nodes[n] # Absent =>
                 /\ status.nodes[n] = Absent => new.nodes[n].classes = "empty"
                 /\ new.nodes[n].phase = "Ready" =>
                      new.nodes[n].classes = "ready" /\ new.phase = "Ready"
<1> DEFINE phased == WithPhases(status, pods)
           new == NewStatus(status, pods)
           phase == NodePhase(n, pods)
<1>1. phase \in Phases /\ status.nodes[n] \in NodeStates \cup {Absent}
  BY PodPhases DEF Statuses
<1>2. /\ new.nodes[n] = IF n \notin InStatus(phased) THEN Absent
                        ELSE IF ClassReady(phased, n) THEN phased[n]
                        ELSE [phased[n] EXCEPT !.phase = "Failure"]
      /\ new.phase = IF ClusterReady(phased) THEN "Ready" ELSE "Failure"
  BY DEF NewStatus
<1>3. /\ n \in InStatus(phased) <=> phased[n] # Absent
      /\ n \in InStatus(phased) /\ phased[n].phase = "Ready" => ClusterReady(phased)
      /\ ClassReady(phased, n) <=> phased[n].classes = "ready"
  BY DEF InStatus, ClusterReady, ClassReady
<1>4. /\ phased[n] \in NodeStates \cup {Absent}
      /\ phased[n] # Absent /\ status.nodes[n] = Absent => phased[n].classes = "empty"
  <2>1. phased[n] = CASE n \notin Checked -> status.nodes[n]
                      [] n \in Checked /\ status.nodes[n] = Absent ->
                           [phase |-> phase, classes |-> "empty"]
                      [] OTHER -> [status.nodes[n] EXCEPT !.phase = phase]
    BY DEF WithPhases
  <2> HIDE DEF phased, phase
  <2> QED
    BY <1>1, <2>1 DEF NodeStates, ClassSets
<1> HIDE DEF phased, new, phase
<1> QED
  <2>1. CASE ~(phased[n] # Absent)
    BY <1>2, <1>3, <2>1 DEF new
  <2>2. CASE phased[n] # Absent /\ phased[n].classes = "ready"
    BY <1>2, <1>3, <1>4, <2>2 DEF new
  <2>3. CASE phased[n] # Absent /\ phased[n].classes # "ready"
    <3>1. new.nodes[n] = [phased[n] EXCEPT !.phase = "Failure"]
      BY <1>2, <1>3, <2>3
    <3>2. phased[n] \in NodeStates
      BY <1>4, <2>3
    <3>3. new.nodes[n].phase = "Failure" /\ new.nodes[n].classes = phased[n].classes
      BY <3>1, <3>2 DEF NodeStates
    <3> QED
      BY <1>4, <2>3, <3>3 DEF new
  <2> QED
    BY <2>1, <2>2, <2>3

(* The status the checker computes keeps the classes of the one it read.   *)
LEMMA NewStatusKeeps ==
    ASSUME NEW status \in Statuses, NEW pods \in [Nodes -> PodStates]
    PROVE  /\ NewStatus(status, pods) \in Statuses
           /\ Assesses(NewStatus(status, pods), status)
<1> DEFINE phased == WithPhases(status, pods)
           new == NewStatus(status, pods)
<1>1. ASSUME NEW n \in Nodes
      PROVE  /\ phased[n] \in NodeStates \cup {Absent}
             /\ status.nodes[n] # Absent =>
                  phased[n] # Absent /\ phased[n].classes = status.nodes[n].classes
  <2>1. status.nodes[n] \in NodeStates \cup {Absent}
    BY DEF Statuses
  <2>2. NodePhase(n, pods) \in Phases
    BY PodPhases
  <2>3. CASE n \notin Checked
    BY <2>1, <2>3 DEF WithPhases
  <2>4. CASE n \in Checked /\ status.nodes[n] = Absent
    BY <2>2, <2>4 DEF WithPhases, NodeStates, ClassSets
  <2>5. CASE n \in Checked /\ status.nodes[n] # Absent
    <3>1. phased[n] = [status.nodes[n] EXCEPT !.phase = NodePhase(n, pods)]
      BY <2>5 DEF WithPhases
    <3> QED
      BY <2>1, <2>2, <2>5, <3>1, StatusConstants DEF NodeStates
  <2> QED
    BY <2>3, <2>4, <2>5
<1>2. ASSUME NEW n \in Nodes
      PROVE  /\ new.nodes[n] \in NodeStates \cup {Absent}
             /\ phased[n] # Absent =>
                  new.nodes[n] # Absent /\ new.nodes[n].classes = phased[n].classes
  <2>1. new.nodes[n] = IF n \notin InStatus(phased) THEN Absent
                       ELSE IF ClassReady(phased, n) THEN phased[n]
                       ELSE [phased[n] EXCEPT !.phase = "Failure"]
    BY DEF NewStatus
  <2>2. phased[n] # Absent <=> n \in InStatus(phased)
    BY DEF InStatus
  <2>3. phased[n] # Absent => [phased[n] EXCEPT !.phase = "Failure"] \in NodeStates
    BY <1>1 DEF NodeStates, Phases
  <2>4. phased[n] # Absent => [phased[n] EXCEPT !.phase = "Failure"].classes = phased[n].classes
    BY <1>1 DEF NodeStates
  <2> HIDE DEF phased, new
  <2> QED
    BY <1>1, <2>1, <2>2, <2>3, <2>4, StatusConstants
<1>3. new \in Statuses
  <2>1. new = [phase |-> new.phase, nodes |-> new.nodes] /\ new.phase \in Phases
    BY DEF NewStatus, Phases
  <2>2. new.nodes \in [Nodes -> NodeStates \cup {Absent}]
    <3>1. new.nodes = [n \in Nodes |-> new.nodes[n]]
      BY DEF NewStatus
    <3> HIDE DEF new
    <3> QED
      BY <1>2, <3>1
  <2> HIDE DEF new
  <2> QED
    BY <2>1, <2>2 DEF Statuses
<1> HIDE DEF phased, new
<1>4. KeepsClasses(new, status)
  BY <1>1, <1>2 DEF KeepsClasses, InStatus
<1>5. CallsReady(new, status)
  <2>1. new.phase = (IF ClusterReady(phased) THEN "Ready" ELSE "Failure")
    BY DEF NewStatus, new, phased
  <2>2. ASSUME NEW n \in Nodes, status.nodes[n] = Absent, new.nodes[n] # Absent
        PROVE  new.nodes[n].classes = "empty"
    BY <1>1, <1>2, <2>2, NewNodes DEF new, phased
  <2>3. ASSUME NEW n \in Nodes, new.nodes[n] # Absent, new.nodes[n].phase = "Ready"
        PROVE  new.nodes[n].classes = "ready" /\ new.phase = "Ready"
    BY <2>3, NewNodes DEF new, phased
  <2> QED
    BY <2>1, <2>2, <2>3 DEF CallsReady
<1> QED
  BY <1>3, <1>4, <1>5 DEF new, Assesses

LEMMA GaugeType ==
    ASSUME NEW status \in Statuses, NEW pods \in [Nodes -> PodStates]
    PROVE  Gauge(status, pods) \in Metrics
BY DEF Gauge, Metrics, ClusterReady, Checked

LEMMA InitIInv == Init => IInv
<1> SUFFICES ASSUME Init PROVE IInv
  OBVIOUS
<1>1. Empty \in Statuses
  BY DEF Empty, Statuses, Phases
<1>2. NoCopy \in Copies /\ cache \in Copies /\ Faithful(cache)
  BY <1>1 DEF Init, NoCopy, Copies, Current, Faithful
<1>3. IdleChecker \in Checkers /\ IdleInformer \in Informers
  BY <1>1, <1>2, StatusConstants DEF IdleChecker, IdleInformer, Checkers, Informers, Metrics
<1>4. queue \in Seq([node: Nodes, classes: ClassSets])
  BY DEF Init
<1>5. spent \in [DOMAIN Budget -> Nat]
  BY DEF Init
<1>6. TypeOK
  BY <1>1, <1>2, <1>3, <1>4, <1>5, StatusConstants DEF Init, TypeOK
<1>7. SyncInv
  BY <1>2 DEF Init, SyncInv, Writing, IdleChecker, IdleInformer
<1> QED
  BY <1>6, <1>7 DEF IInv

-----------------------------------------------------------------------------
(* A write back: the latest copy is replaced, and no copy that is not the  *)
(* latest any more counts as faithful.                                     *)
LEMMA WriteBack ==
    ASSUME IInv, NEW copy \in Copies, Faithful(copy), NEW new \in Statuses,
           UpdateStatus(copy, new), Outdate
    PROVE  /\ cluster' \in Statuses /\ cache' \in Copies /\ refused' \in BOOLEAN
           /\ Faithful(cache)'
           /\ cluster' = cluster \/ (cluster = copy.status /\ cluster' = new)
<1>1. cluster' \in Statuses /\ refused' \in BOOLEAN
  BY DEF UpdateStatus, IInv, TypeOK, Copies
<1>2. cache' \in Copies
  BY DEF Outdate, IInv, TypeOK, Copies
<1>3. Faithful(cache)'
  BY DEF Outdate, Faithful, IInv, SyncInv, TypeOK, Copies
<1>4. cluster' = cluster \/ (cluster = copy.status /\ cluster' = new)
  <2>1. CASE copy.latest
    BY <2>1 DEF UpdateStatus, Faithful
  <2>2. CASE ~copy.latest
    BY <2>2 DEF UpdateStatus
  <2> QED
    BY <2>1, <2>2
<1> QED
  BY <1>1, <1>2, <1>3, <1>4

LEMMA HandleEventStep == IInv /\ HandleEvent => IInv'
<1> SUFFICES ASSUME IInv, HandleEvent PROVE IInv'
  OBVIOUS
<1>1. informer' \in Informers /\ informer'.at = "update" /\ informer'.copy = cache
  BY DEF HandleEvent, IInv, TypeOK, Informers
<1>2. TypeOK'
  BY <1>1 DEF HandleEvent, IInv, TypeOK
<1>3. SyncInv'
  BY <1>1 DEF HandleEvent, IInv, SyncInv, Unlocked, Writing, Faithful
<1> QED
  BY <1>2, <1>3 DEF IInv

LEMMA FinishEventStep ==
    ASSUME IInv, FinishEvent
    PROVE  /\ IInv'
           /\ \A n \in Nodes : n # Head(queue).node => cluster'.nodes[n] = cluster.nodes[n]
<1> DEFINE e == Head(queue)
           new == WithNodeState(informer.copy.status, e.node, e.classes)
<1>1. informer.at = "update" /\ queue # <<>> /\ ~Writing /\ Faithful(informer.copy)
  BY DEF FinishEvent, IInv, SyncInv
<1>2. /\ informer.copy \in Copies /\ informer.copy.status \in Statuses
      /\ queue \in Seq([node: Nodes, classes: ClassSets])
  BY DEF IInv, TypeOK, Informers, Copies
<1>3. /\ e \in [node: Nodes, classes: ClassSets]
      /\ queue' \in Seq([node: Nodes, classes: ClassSets])
  <2> DEFINE Events == [node: Nodes, classes: ClassSets]
  <2>1. queue \in Seq(Events) /\ queue # <<>> /\ queue' = Tail(queue)
    BY <1>1, <1>2 DEF FinishEvent
  <2> HIDE DEF Events
  <2>2. Head(queue) \in Events /\ queue' \in Seq(Events)
    BY <2>1
  <2> QED
    BY <2>2 DEF Events
<1>4. /\ new \in Statuses
      /\ \A n \in Nodes : n # e.node => new.nodes[n] = informer.copy.status.nodes[n]
  BY <1>2, <1>3, StatusType
<1>5. UpdateStatus(informer.copy, new) /\ Outdate
  BY DEF FinishEvent
<1> HIDE DEF new, e
<1>6. /\ cluster' \in Statuses /\ cache' \in Copies /\ refused' \in BOOLEAN
      /\ Faithful(cache)'
      /\ cluster' = cluster \/ (cluster = informer.copy.status /\ cluster' = new)
  BY <1>1, <1>2, <1>4, <1>5, WriteBack
<1>7. informer' \in Informers /\ informer'.at = "idle"
  BY InitIInv DEF FinishEvent, IdleInformer, NoCopy, Informers, Copies, Empty, Statuses, Phases
<1>8. TypeOK'
  BY <1>3, <1>6, <1>7 DEF FinishEvent, IInv, TypeOK
<1>9. SyncInv'
  BY <1>1, <1>6, <1>7 DEF FinishEvent, SyncInv, Writing
<1>10. \A n \in Nodes : n # e.node => cluster'.nodes[n] = cluster.nodes[n]
  BY <1>4, <1>6
<1> QED
  BY <1>8, <1>9, <1>10 DEF IInv, e

-----------------------------------------------------------------------------
(* The rounds of the status checker.                                       *)
LEMMA IdleTypes == IdleChecker \in Checkers /\ IdleInformer \in Informers
<1>1. NoCopy \in Copies /\ Empty \in Statuses
  BY DEF NoCopy, Copies, Empty, Statuses, Phases
<1> QED
  BY <1>1, StatusConstants DEF IdleChecker, IdleInformer, Checkers, Informers, Metrics

LEMMA ListPodsStep == IInv /\ ListPods => IInv'
<1> SUFFICES ASSUME IInv, ListPods PROVE IInv'
  OBVIOUS
<1>1. checker' \in Checkers /\ checker'.at = "listed"
  BY IdleTypes DEF ListPods, IInv, TypeOK, Checkers
<1>2. TypeOK'
  BY <1>1 DEF ListPods, IInv, TypeOK
<1>3. SyncInv'
  BY <1>1 DEF ListPods, IInv, SyncInv, Writing, Faithful
<1> QED
  BY <1>2, <1>3 DEF IInv

LEMMA ComputeStatusStep == IInv /\ ComputeStatus => IInv'
<1> SUFFICES ASSUME IInv, ComputeStatus PROVE IInv'
  OBVIOUS
<1> DEFINE new == NewStatus(cache.status, checker.pods)
           gauge == Gauge(cache.status, checker.pods)
<1>1. cache \in Copies /\ cache.status \in Statuses /\ checker.pods \in [Nodes -> PodStates]
  BY DEF IInv, TypeOK, Copies, Checkers
<1>2. new \in Statuses /\ Assesses(new, cache.status) /\ gauge \in Metrics
  BY <1>1, NewStatusKeeps, GaugeType
<1>3. checker' = IF new = cache.status THEN IdleChecker
                 ELSE [IdleChecker EXCEPT !.at = "send", !.copy = cache, !.new = new,
                                          !.gauge = gauge]
  BY DEF ComputeStatus
<1> HIDE DEF new, gauge
<1>4. /\ checker' \in Checkers
      /\ \/ checker'.at = "idle"
         \/ checker'.at = "send" /\ checker'.copy = cache /\ checker'.new = new
  <2>1. CASE new = cache.status
    BY <1>3, <2>1, IdleTypes DEF IdleChecker
  <2>2. CASE new # cache.status
    BY <1>1, <1>2, <1>3, <2>2, IdleTypes DEF Checkers
  <2> QED
    BY <2>1, <2>2
<1>5. TypeOK'
  BY <1>4 DEF ComputeStatus, IInv, TypeOK
<1>6. informer.at # "update"
  BY DEF ComputeStatus, Unlocked
<1>7. UNCHANGED <<cache, cluster, informer, queue>>
  BY DEF ComputeStatus
<1>8. SyncInv'
  BY <1>2, <1>4, <1>6, <1>7 DEF IInv, SyncInv, Writing, Faithful, KeepsClasses, CallsReady, Assesses, InStatus
<1> QED
  BY <1>5, <1>8 DEF IInv

LEMMA SendMetricStep == IInv /\ SendMetric => IInv'
<1> SUFFICES ASSUME IInv, SendMetric PROVE IInv'
  OBVIOUS
<1>1. checker \in Checkers /\ IdleChecker.gauge \in Metrics
  BY IdleTypes DEF IInv, TypeOK, Checkers
<1>2. /\ checker' \in Checkers /\ checker'.at = "update"
      /\ checker'.copy = checker.copy /\ checker'.new = checker.new
  BY <1>1 DEF SendMetric, Checkers
<1>3. TypeOK'
  BY <1>1, <1>2 DEF SendMetric, IInv, TypeOK, Checkers
<1>4. SyncInv'
  BY <1>2 DEF SendMetric, IInv, SyncInv, Writing, Faithful, KeepsClasses, CallsReady, Assesses, InStatus
<1> QED
  BY <1>3, <1>4 DEF IInv

LEMMA WriteStatusStep ==
    ASSUME IInv, WriteStatus
    PROVE  /\ IInv' /\ KeepsClasses(cluster', cluster)
           /\ cluster' = cluster \/ (cluster' \in Statuses /\ Assesses(cluster', cluster))
<1>1. Writing /\ Faithful(checker.copy) /\ Assesses(checker.new, checker.copy.status)
  BY DEF WriteStatus, IInv, SyncInv, Writing
<1>2. checker.copy \in Copies /\ checker.new \in Statuses
  BY DEF IInv, TypeOK, Checkers
<1>3. /\ cluster' \in Statuses /\ cache' \in Copies /\ refused' \in BOOLEAN
      /\ Faithful(cache)'
      /\ cluster' = cluster \/ (cluster = checker.copy.status /\ cluster' = checker.new)
  BY <1>1, <1>2, WriteBack DEF WriteStatus
<1>4. TypeOK'
  BY <1>3, IdleTypes DEF WriteStatus, IInv, TypeOK
<1>5. informer'.at # "update" /\ ~Writing'
  BY <1>1 DEF WriteStatus, IInv, SyncInv, Writing, IdleChecker
<1>6. SyncInv'
  BY <1>3, <1>5 DEF SyncInv
<1>7. KeepsClasses(cluster', cluster)
  BY <1>1, <1>3 DEF KeepsClasses, Assesses, InStatus
<1> QED
  BY <1>1, <1>3, <1>4, <1>6, <1>7 DEF IInv

-----------------------------------------------------------------------------
LEMMA EnvironmentStep == IInv /\ Environment => IInv'
<1> SUFFICES ASSUME IInv, Environment PROVE IInv'
  OBVIOUS
<1>1. ASSUME NEW n \in Nodes, NEW classes \in ClassSets, WriteCm(n, classes) PROVE IInv'
  <2> DEFINE Events == [node: Nodes, classes: ClassSets]
             e == [node |-> n, classes |-> classes]
  <2>1. e \in Events /\ queue \in Seq(Events) /\ queue' = Append(queue, e)
    BY <1>1 DEF WriteCm, IInv, TypeOK
  <2> HIDE DEF Events, e
  <2>2. queue' \in Seq(Events) /\ queue' # <<>>
    BY <2>1
  <2>3. TypeOK'
    BY <1>1, <2>2, SpendType DEF WriteCm, IInv, TypeOK, Events, Budget
  <2>4. SyncInv'
    BY <1>1, <2>2 DEF WriteCm, IInv, SyncInv, Writing, Faithful, KeepsClasses, CallsReady, Assesses, InStatus
  <2> QED
    BY <2>3, <2>4 DEF IInv
<1>2. ASSUME NEW n \in Nodes, NEW state \in PodStates, ChangePod(n, state) PROVE IInv'
  BY <1>2, SpendType DEF ChangePod, IInv, TypeOK, Budget, SyncInv, Writing, Faithful,
     KeepsClasses, CallsReady, Assesses, InStatus
<1>3. ASSUME NEW n \in Nodes, ChangeNode(n) PROVE IInv'
  BY <1>3, SpendType DEF ChangeNode, IInv, TypeOK, Budget, SyncInv, Writing, Faithful,
     KeepsClasses, CallsReady, Assesses, InStatus
<1>4. CASE EditCluster
  <2>1. /\ cache' \in Copies /\ ~cache'.latest
        /\ informer' \in Informers /\ ~informer'.copy.latest /\ informer'.at = informer.at
        /\ checker' \in Checkers /\ ~checker'.copy.latest /\ checker'.at = checker.at
        /\ checker'.new = checker.new /\ checker'.copy.status = checker.copy.status
    BY <1>4 DEF EditCluster, Stale, IInv, TypeOK, Copies, Informers, Checkers
  <2>2. TypeOK'
    BY <1>4, <2>1, SpendType DEF EditCluster, IInv, TypeOK, Budget
  <2>3. SyncInv'
    BY <1>4, <2>1 DEF EditCluster, IInv, SyncInv, Writing, Faithful, KeepsClasses, CallsReady, Assesses, InStatus
  <2> QED
    BY <2>2, <2>3 DEF IInv
<1>5. CASE SyncCache
  BY <1>5 DEF SyncCache, Current, IInv, TypeOK, Copies, SyncInv, Writing, Faithful,
     KeepsClasses, CallsReady, Assesses, InStatus
<1>6. CASE Restart
  <2> DEFINE Events == [node: Nodes, classes: ClassSets]
             known == {n \in Nodes : cm[n] # NoCm}
  <2>1. PICK order \in SetToSeqs(known) :
          queue' = [i \in DOMAIN order |-> [node |-> order[i], classes |-> cm[order[i]]]]
    BY <1>6 DEF Restart
  <2>2. Cardinality(known) \in Nat
    BY StatusConstants, FS_Subset, FS_CardinalityType
  <2>3. order \in [1 .. Cardinality(known) -> known]
    BY <2>1 DEF SetToSeqs
  <2>4. \A i \in 1 .. Cardinality(known) : [node |-> order[i], classes |-> cm[order[i]]] \in Events
    BY <2>3 DEF IInv, TypeOK
  <2>5. queue' \in Seq(Events)
    <3> HIDE DEF Events, known
    <3> QED
      BY <2>1, <2>2, <2>3, <2>4
  <2>6. TypeOK'
    BY <1>6, <2>5, IdleTypes, SpendType DEF Restart, IInv, TypeOK, Budget, Current, Copies
  <2>7. SyncInv'
    BY <1>6 DEF Restart, IInv, SyncInv, Writing, Faithful, IdleInformer, IdleChecker, Current
  <2> QED
    BY <2>6, <2>7 DEF IInv
<1> QED
  BY <1>1, <1>2, <1>3, <1>4, <1>5, <1>6 DEF Environment

LEMMA StutterStep == IInv /\ UNCHANGED vars => IInv'
BY DEF vars, IInv, TypeOK, SyncInv, Writing, Faithful, KeepsClasses, CallsReady, Assesses, InStatus

LEMMA Invariance == Spec => []IInv
<1>1. IInv /\ [Next]_vars => IInv'
  BY HandleEventStep, FinishEventStep, ListPodsStep, ComputeStatusStep, SendMetricStep,
     WriteStatusStep, EnvironmentStep, StutterStep DEF Next, Operator, Check
<1> QED
  BY InitIInv, <1>1, PTL DEF Spec

-----------------------------------------------------------------------------
(* The types of all variables, for every set of nodes and bounds.          *)
THEOREM TypeCorrect == Spec => []TypeOK
BY Invariance, PTL DEF IInv

(* No update of the status is lost: the lock and the resource version      *)
(* together keep each writer from undoing what the other has written.      *)
THEOREM NoLostUpdateAlways == Spec => NoLostUpdate
<1>1. IInv /\ [Next]_vars =>
        [/\ FinishEvent =>
              \A n \in Nodes : n # Head(queue).node => cluster'.nodes[n] = cluster.nodes[n]
         /\ WriteStatus =>
              \A n \in InStatus(cluster.nodes) :
                  /\ cluster'.nodes[n] # Absent
                  /\ cluster'.nodes[n].classes = cluster.nodes[n].classes]_vars
  BY FinishEventStep, WriteStatusStep DEF KeepsClasses
<1> QED
  BY Invariance, <1>1, PTL DEF Spec, NoLostUpdate

-----------------------------------------------------------------------------
(* Refinement.                                                             *)

LEMMA AtomicInit == Init => Atomic!Init
BY DEF Init, Empty, Atomic!Init

LEMMA AtomicStep == IInv /\ [Next]_vars => [Atomic!Next]_cluster
<1> SUFFICES ASSUME IInv, [Next]_vars, cluster' # cluster PROVE Atomic!Next
  OBVIOUS
<1>1. CASE FinishEvent
  <2> DEFINE e == Head(queue)
             st == [phase |-> "unset", classes |-> e.classes]
  <2>1. queue \in Seq([node: Nodes, classes: ClassSets]) /\ queue # <<>>
    BY <1>1 DEF IInv, TypeOK, SyncInv, FinishEvent
  <2>2. e.node \in Nodes /\ e.classes \in ClassSets
    <3> DEFINE Events == [node: Nodes, classes: ClassSets]
    <3>1. queue \in Seq(Events)
      BY <2>1
    <3> HIDE DEF Events
    <3>2. Head(queue) \in Events
      BY <2>1, <3>1
    <3> QED
      BY <3>2 DEF Events
  <2>3. cluster' = WithNodeState(informer.copy.status, e.node, e.classes)
        /\ informer.copy.status = cluster
    BY <1>1 DEF FinishEvent, UpdateStatus, IInv, SyncInv, Faithful
  <2>4. Atomic!Record(e.node, e.classes)
    BY <2>3 DEF WithNodeState, Atomic!Record
  <2> QED
    BY <2>2, <2>4 DEF Atomic!Next, Atomic!ClassSets, ClassSets
<1>2. CASE WriteStatus
  <2>1. cluster' \in Statuses /\ Assesses(cluster', cluster)
    BY <1>2, WriteStatusStep
  <2>2. cluster' \in [phase: {"Ready", "Failure"}, nodes: [Nodes -> NodeStates \cup {Absent}]]
    BY <2>1 DEF Assesses, CallsReady, Statuses
  <2>3. Atomic!Assessed(cluster')
    BY <2>1 DEF Assesses, CallsReady, KeepsClasses, InStatus, Atomic!Assessed
  <2> QED
    BY <2>2, <2>3 DEF Atomic!Next, Atomic!Assess, Atomic!NodeStates, NodeStates,
       Atomic!Phases, Phases, Atomic!ClassSets, ClassSets
<1>3. CASE HandleEvent \/ ListPods \/ ComputeStatus \/ SendMetric \/ Environment \/ UNCHANGED vars
  BY <1>3 DEF HandleEvent, ListPods, ComputeStatus, SendMetric, Environment, WriteCm,
     ChangePod, ChangeNode, EditCluster, SyncCache, Restart, vars
<1> QED
  BY <1>1, <1>2, <1>3 DEF Next, Operator, Check

(* The detailed specification implements the abstract one: the cache, the  *)
(* lock, the refused updates and the restarts do not show in the status    *)
(* otherwise than by a change that comes later or not at all.              *)
THEOREM ImplementsAtomicStatus == Spec => StatusIsAtomic
BY Invariance, AtomicInit, AtomicStep, PTL DEF Spec, StatusIsAtomic, Atomic!Spec

(* What follows for the reader of the status, from the abstract            *)
(* specification alone: a node that shows as Ready has a Ready class.      *)
THEOREM ReadyIsSound == Spec => []Atomic!ReadySound
<1> DEFINE S == Atomic!ReadySound
<1>1. Atomic!Init => S
  BY DEF Atomic!Init, Atomic!ReadySound
<1>2. TypeOK /\ S /\ Atomic!Next => S'
  <2> SUFFICES ASSUME TypeOK, S, Atomic!Next PROVE S'
    OBVIOUS
  <2>1. CASE Atomic!Assess
    BY <2>1 DEF Atomic!Assess, Atomic!Assessed, Atomic!ReadySound
  <2>2. ASSUME NEW n \in Nodes, NEW classes \in Atomic!ClassSets, Atomic!Record(n, classes)
        PROVE  S'
    BY <2>2 DEF Atomic!Record, Atomic!ReadySound, TypeOK, Statuses
  <2> QED
    BY <2>1, <2>2 DEF Atomic!Next
<1>3. S /\ UNCHANGED cluster => S'
  BY DEF Atomic!ReadySound
<1> QED
  BY <1>1, <1>2, <1>3, ImplementsAtomicStatus, TypeCorrect, PTL
     DEF StatusIsAtomic, Atomic!Spec
=============================================================================
