-------------------------- MODULE JobRunnerProofs --------------------------
(***************************************************************************)
(* For all callers and bounds: the type invariant of JobRunner, and that   *)
(* its jobs implement EditedNode, although any number of goroutines        *)
(* delete and create the one Job object.                                   *)
(***************************************************************************)
EXTENDS JobRunner, TLAPS

(* A job carries out what its pod has read of the TopolvmCluster, which is *)
(* not older than what earlier jobs have carried out.                      *)
ReadInv == Exists /\ job.read # NotRead => applied <= job.read /\ job.read <= edits

IInv == TypeOK /\ applied <= edits /\ ReadInv

-----------------------------------------------------------------------------
LEMMA JobTypes ==
    /\ NewJob \in Jobs
    /\ \A j \in Jobs, phase \in Phases, read \in Versions \cup {NotRead} :
         /\ [j EXCEPT !.phase = phase] \in Jobs
         /\ [j EXCEPT !.read = read] \in Jobs
         /\ [j EXCEPT !.phase = phase, !.read = read] \in Jobs
         /\ [j EXCEPT !.deleting = TRUE] \in Jobs
<1>1. NewJob \in Jobs
  BY DEF NewJob, Jobs, Phases
<1>2. ASSUME NEW j \in Jobs, NEW phase \in Phases, NEW read \in Versions \cup {NotRead}
      PROVE  /\ [j EXCEPT !.phase = phase] \in Jobs
             /\ [j EXCEPT !.read = read] \in Jobs
             /\ [j EXCEPT !.phase = phase, !.read = read] \in Jobs
             /\ [j EXCEPT !.deleting = TRUE] \in Jobs
  BY DEF Jobs
<1> QED
  BY <1>1, <1>2

LEMMA InitIInv == Init => IInv
<1> SUFFICES ASSUME Init PROVE IInv
  OBVIOUS
<1>1. 0 \in Versions /\ 0 <= 0
  BY JobConstants DEF Versions
<1>2. caller \in [Callers -> [at: Places, want: Versions]]
  BY <1>1 DEF Init, Places
<1>3. spent \in [DOMAIN Budget -> Nat] /\ \A k \in DOMAIN Budget : spent[k] <= Budget[k]
  BY JobConstants DEF Init, Budget
<1> QED
  BY <1>1, <1>2, <1>3 DEF Init, IInv, TypeOK, ReadInv, Exists

LEMMA SpendType ==
    ASSUME IInv, NEW k \in DOMAIN Budget, Spend(k)
    PROVE  /\ spent' \in [DOMAIN Budget -> Nat]
           /\ \A i \in DOMAIN Budget : spent'[i] <= Budget[i]
<1>1. spent \in [DOMAIN Budget -> Nat] /\ \A i \in DOMAIN Budget : spent[i] <= Budget[i]
  BY DEF IInv, TypeOK
<1>2. Budget[k] \in Nat /\ spent[k] < Budget[k] /\ spent' = [spent EXCEPT ![k] = spent[k] + 1]
  BY JobConstants DEF Spend, Budget
<1> HIDE DEF Budget
<1> QED
  BY <1>1, <1>2

LEMMA GoesType ==
    ASSUME IInv, NEW c \in Callers, NEW from, NEW to \in Places, Goes(c, from, to)
    PROVE  caller' \in [Callers -> [at: Places, want: Versions]]
BY DEF Goes, IInv, TypeOK

LEMMA EditStep == IInv /\ Edit => IInv'
BY JobConstants DEF Edit, IInv, TypeOK, ReadInv, Exists, Versions, Jobs, NotRead

(* The reconciler and the callers neither read nor carry out anything: if  *)
(* they replace the job, by one that has read nothing.                     *)
LEMMA CallerStep ==
    ASSUME IInv, NEW c \in Callers,
           ReconcileEdit(c) \/ RequestAgain(c) \/ Call(c) \/ TimeOut(c)
    PROVE  IInv' /\ UNCHANGED <<edits, applied>>
<1>1. CASE ReconcileEdit(c)
  BY <1>1 DEF ReconcileEdit, Request, IInv, TypeOK, ReadInv, Exists, Places
<1>2. CASE RequestAgain(c)
  BY <1>2, SpendType DEF RequestAgain, Request, IInv, TypeOK, ReadInv, Exists, Places, Budget
<1>3. ASSUME NEW from, NEW to \in Places, Errs(c, from, to)
      PROVE  IInv' /\ UNCHANGED <<edits, applied>>
  BY <1>3, SpendType, GoesType DEF Errs, IInv, TypeOK, ReadInv, Exists, Budget
<1>4. ASSUME NEW from, NEW to \in Places, Goes(c, from, to),
             UNCHANGED <<edits, handled, applied, spent>>, gaveUp' \in BOOLEAN,
             \/ UNCHANGED job
             \/ job' = NewJob
             \/ Exists /\ job' = [job EXCEPT !.deleting = TRUE]
             \/ job' = NoJob
      PROVE  IInv' /\ UNCHANGED <<edits, applied>>
  <2>1. TypeOK'
    BY <1>4, GoesType, JobTypes DEF IInv, TypeOK, Exists, Phases
  <2>2. ReadInv'
    BY <1>4, JobConstants DEF IInv, TypeOK, ReadInv, Exists, NewJob, Jobs, NotRead
  <2> QED
    BY <1>4, <2>1, <2>2 DEF IInv
<1>5. {"idle", "wait", "create", "delete", "gone"} \subseteq Places /\ gaveUp \in BOOLEAN
  BY DEF Places, IInv, TypeOK
<1>6. CASE Detect(c)
  BY <1>3, <1>4, <1>5, <1>6 DEF Detect
<1>7. CASE Poll(c)
  BY <1>3, <1>4, <1>5, <1>7 DEF Poll
<1>8. CASE Delete(c)
  BY <1>3, <1>4, <1>5, <1>8 DEF Delete
<1>9. CASE WaitGone(c)
  BY <1>4, <1>5, <1>9 DEF WaitGone
<1>10. CASE Create(c)
  BY <1>3, <1>4, <1>5, <1>10 DEF Create
<1>11. CASE TimeOut(c)
  BY <1>4, <1>5, <1>11 DEF TimeOut, PollTimeout, GiveUp
<1> QED
  BY <1>1, <1>2, <1>6, <1>7, <1>8, <1>9, <1>10, <1>11 DEF Call

(* The pod reads the latest version, and carries out what it has read.     *)
LEMMA PodStep ==
    ASSUME IInv, Pod \/ ReadFails \/ Fail \/ Collect
    PROVE  /\ IInv' /\ UNCHANGED edits
           /\ applied' = applied \/ (applied <= applied' /\ applied' <= edits)
<1>1. /\ Versions \subseteq Nat /\ NotRead \in Nat /\ NotRead \notin Versions
      /\ {"active", "succeeded", "failed"} \subseteq Phases
  BY JobConstants DEF Versions, NotRead, Phases
<1>2. CASE StartPod
  BY <1>1, <1>2, JobTypes DEF StartPod, UpdateJob, IInv, TypeOK, ReadInv, Exists, Jobs
<1>3. CASE ReadSpec
  <2>1. job \in Jobs /\ job' = [job EXCEPT !.read = edits] /\ edits \in Versions
    BY <1>3 DEF ReadSpec, UpdateJob, Active, Exists, IInv, TypeOK
  <2>2. job' \in Jobs /\ job'.read = edits
    BY <2>1, JobTypes DEF Jobs
  <2>3. TypeOK'
    BY <1>3, <2>2 DEF ReadSpec, UpdateJob, IInv, TypeOK
  <2> QED
    BY <1>1, <1>3, <2>1, <2>2, <2>3 DEF ReadSpec, UpdateJob, IInv, ReadInv
<1>4. CASE Succeed
  <2>1. job \in Jobs /\ job' = [job EXCEPT !.phase = "succeeded"]
        /\ applied' = job.read /\ job.read \in Versions
    BY <1>4 DEF Succeed, UpdateJob, Active, Exists, IInv, TypeOK, Jobs
  <2>2. job' \in Jobs /\ job'.read = job.read
    BY <1>1, <2>1, JobTypes DEF Jobs
  <2>3. applied <= job.read /\ job.read <= edits
    BY <1>4 DEF Succeed, Active, IInv, ReadInv
  <2>4. TypeOK'
    BY <1>4, <2>1, <2>2 DEF Succeed, UpdateJob, IInv, TypeOK
  <2> QED
    BY <1>1, <1>4, <2>1, <2>2, <2>3, <2>4 DEF Succeed, UpdateJob, IInv, ReadInv
<1>5. CASE ReadFails
  <2>1. /\ spent' \in [DOMAIN Budget -> Nat]
        /\ \A i \in DOMAIN Budget : spent'[i] <= Budget[i]
    BY <1>5, SpendType DEF ReadFails, Budget
  <2>2. job \in Jobs /\ job' = [job EXCEPT !.phase = "succeeded"]
    BY <1>5 DEF ReadFails, UpdateJob, Active, Exists, IInv, TypeOK
  <2>3. job' \in Jobs /\ job'.read \in {job.read, NotRead}
    BY <1>1, <2>2, JobTypes DEF Jobs
  <2>4. TypeOK'
    BY <1>5, <2>1, <2>3 DEF ReadFails, UpdateJob, IInv, TypeOK, Budget
  <2> QED
    BY <1>5, <2>3, <2>4 DEF ReadFails, UpdateJob, Active, IInv, ReadInv, Exists
<1>6. CASE Fail
  <2>1. /\ spent' \in [DOMAIN Budget -> Nat]
        /\ \A i \in DOMAIN Budget : spent'[i] <= Budget[i]
    BY <1>6, SpendType DEF Fail, Budget
  <2>2. job \in Jobs /\ job' = [job EXCEPT !.phase = "failed", !.read = NotRead]
    BY <1>6 DEF Fail, UpdateJob, Active, Exists, IInv, TypeOK
  <2>3. job' \in Jobs /\ job'.read \in {job.read, NotRead}
    BY <1>1, <2>2, JobTypes DEF Jobs
  <2>4. TypeOK'
    BY <1>6, <2>1, <2>3 DEF Fail, UpdateJob, IInv, TypeOK, Budget
  <2> QED
    BY <1>6, <2>3, <2>4 DEF Fail, UpdateJob, Active, IInv, ReadInv, Exists
<1>7. CASE Collect
  BY <1>7 DEF Collect, UpdateJob, IInv, TypeOK, ReadInv, Exists
<1> QED
  BY <1>2, <1>3, <1>4, <1>5, <1>6, <1>7 DEF Pod

LEMMA StutterStep == IInv /\ UNCHANGED vars => IInv'
BY DEF vars, IInv, TypeOK, ReadInv, Exists

LEMMA NextStep == IInv /\ [Next]_vars => IInv'
BY EditStep, CallerStep, PodStep, StutterStep DEF Next

LEMMA Invariance == Spec => []IInv
BY InitIInv, NextStep, PTL DEF Spec

-----------------------------------------------------------------------------
(* The types of all variables, for any callers and bounds.                 *)
THEOREM TypeCorrect == Spec => []TypeOK
BY Invariance, PTL DEF IInv

LEMMA NodeInit == Init => Node!Init
BY DEF Init, Node!Init

LEMMA NodeStep == IInv /\ [Next]_vars => [Node!Next]_<<edits, applied>>
<1> SUFFICES ASSUME IInv, [Next]_vars PROVE [Node!Next]_<<edits, applied>>
  OBVIOUS
<1>1. CASE Edit
  BY <1>1 DEF Edit, Node!Next, Node!Edit
<1>2. CASE \E c \in Callers : ReconcileEdit(c) \/ RequestAgain(c) \/ Call(c) \/ TimeOut(c)
  BY <1>2, CallerStep
<1>3. CASE Pod \/ ReadFails \/ Fail \/ Collect
  <2>1. /\ UNCHANGED edits
        /\ applied' = applied \/ (applied <= applied' /\ applied' <= edits)
        /\ applied' \in Nat /\ edits \in Nat
    BY <1>3, PodStep, JobConstants DEF IInv, TypeOK, Versions
  <2> QED
    BY <2>1 DEF Node!Next, Node!CarryOut
<1>4. CASE UNCHANGED vars
  BY <1>4 DEF vars
<1> QED
  BY <1>1, <1>2, <1>3, <1>4 DEF Next

(* However many callers wait, give up, delete and create, and whatever     *)
(* calls fail: no run carries out an older version after a later one.      *)
THEOREM ImplementsEditedNode == Spec => RunsInOrder
BY Invariance, NodeInit, NodeStep, PTL DEF Spec, RunsInOrder, Node!Spec
=============================================================================
