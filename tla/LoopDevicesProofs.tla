------------------------- MODULE LoopDevicesProofs -------------------------
(***************************************************************************)
(* For all disks, files, loop devices and specifications: types, one       *)
(* device per file (OneDevice), true records until a reboot (RecordsTrue), *)
(* no lost loop devices (NoLeakedLoop) and classes in use that stay        *)
(* (UsedClassKept).  The argument follows what ties a file to a device:    *)
(* an attachment, or a complete record in someone's hands.                 *)
(***************************************************************************)
EXTENDS LoopDevices, FiniteSetTheorems, WellFoundedInduction, TLAPS

LoopTypes ==
    /\ attached \in [Loops -> Files \cup {NoFile}]
    /\ names \in Nat
    /\ cm \in [loops: LoopStates, class: ClassStates]
    /\ copy \in LoopStates
    /\ job \in Jobs
    /\ disc \in Daemons

RestTypes ==
    /\ spec \in Specs
    /\ own \in [Files -> L!Labels] /\ busy \subseteq Files
    /\ lagged \in BOOLEAN /\ taken \in BOOLEAN
    /\ spent \in [edit: Nat, fault: Nat, reboot: Nat]

Pending(j) == {d \in j.todo \cap AutoDisks : ~Created(j.loops[d])}

(* A run names as many files as it has disks to create a loop for.         *)
NamesLeft == job.at = "loops" => names + Cardinality(Pending(job)) <= Cardinality(Files)

(* The daemon only sets up loops that count as created.                    *)
DaemonInv == \A d \in disc.todo \cup disc.cur : Created(disc.loops[d])

(* Every record is of a loop that counts as created.                       *)
Settled(loops) == \A d \in LoopDisks : loops[d] # NoRecord => loops[d].ok

Attaches(f, l) == attached[l] = f /\ f # NoFile

Places(loops, f, l) ==
    \E d \in LoopDisks : Complete(loops[d]) /\ loops[d].file = f /\ loops[d].dev = l

(* Device l may come to be attached to file f.                             *)
Tied(f, l) ==
    \/ Attaches(f, l)
    \/ Places(cm.loops, f, l) \/ Places(copy, f, l)
    \/ Places(job.loops, f, l) \/ Places(disc.loops, f, l)

(* A file is tied to one device, and the next one to be named to none.     *)
TiedInv ==
    \A f \in Files, l \in Loops :
        Tied(f, l) => f <= names /\ \A m \in Loops : Tied(f, m) => l = m

AllSettled == Settled(cm.loops) /\ Settled(copy) /\ Settled(job.loops)

(* What holds of files, devices and records in every state, after reboots  *)
(* too.                                                                    *)
Held == LoopTypes /\ NamesLeft /\ DaemonInv /\ TiedInv /\ AllSettled

True(loops) ==
    \A d \in LoopDisks : Complete(loops[d]) => attached[loops[d].dev] = loops[d].file

(* Everyone's copy of the records is true.                                 *)
AllTrue == True(cm.loops) /\ True(copy) /\ True(job.loops) /\ True(disc.loops)

IInv == Held /\ RestTypes /\ (spent.reboot = 0 => AllTrue)

-----------------------------------------------------------------------------
(* Numbers of devices.                                                     *)

LEMMA HasLeast ==
    ASSUME NEW S \in SUBSET Nat, S # {}
    PROVE  \E l \in S : \A m \in S : l <= m
<1>1. \E l \in S : \A m \in S : <<m, l>> \notin OpToRel(<, Nat)
  BY WFMin, NatLessThanWellFounded, Zenon
<1>2. PICK l \in S : \A m \in S : <<m, l>> \notin OpToRel(<, Nat)
  BY <1>1, Zenon
<1>3. \A m \in S : ~(m < l)
  BY <1>2, Zenon DEF OpToRel
<1> QED
  BY <1>3

LEMMA FilesAreNumbers ==
    Cardinality(Files) \in Nat /\ Files = 1..Cardinality(Files) /\ Files \subseteq Nat
<1>1. Cardinality(Files) \in Nat /\ Files = 1..Cardinality(Files)
  BY LoopAssumption, FS_CardinalityType
<1> DEFINE n == Cardinality(Files)
<1> HIDE DEF n
<1>2. n \in Nat => 1..n \subseteq Nat
  OBVIOUS
<1> QED BY <1>1, <1>2 DEF n

(* There is a device for every file that is still to be named.             *)
LEMMA FreeDevice ==
    ASSUME LoopTypes, TiedInv, names < Cardinality(Files)
    PROVE  FirstFree \in Unattached
<1>1. Unattached # {}
  <2> SUFFICES ASSUME Unattached = {} PROVE FALSE
    OBVIOUS
  <2>1. IsFiniteSet(1..names) /\ Cardinality(1..names) = names
    BY FS_Interval DEF LoopTypes
  <2>2. /\ Cardinality(Files) \in Nat /\ Cardinality(Loops) \in Nat
        /\ IsFiniteSet(Loops) /\ Cardinality(Loops) >= Cardinality(Files)
    BY LoopAssumption, FS_CardinalityType
  <2>3. \A l \in Loops : attached[l] \in Files /\ Tied(attached[l], l)
    BY DEF Unattached, LoopTypes, Tied, Attaches
  <2>4. \A l \in Loops : attached[l] \in 1..names
    <3> SUFFICES ASSUME NEW l \in Loops PROVE attached[l] \in 1..names
      OBVIOUS
    <3>1. attached[l] \in 1..Cardinality(Files)
      BY <2>3, LoopAssumption
    <3>2. attached[l] <= names
      BY <2>3 DEF TiedInv
    <3> QED BY <2>2, <3>1, <3>2 DEF LoopTypes
  <2>5. attached \in [Loops -> 1..names]
    BY <2>4 DEF LoopTypes
  <2>6. \E l, m \in Loops : l # m /\ attached[l] = attached[m]
    <3>1. Cardinality(1..names) < Cardinality(Loops)
      BY <2>1, <2>2 DEF LoopTypes
    <3> QED
      BY <2>1, <2>2, <2>5, <3>1, FS_PigeonHole
  <2> QED
    BY <2>3, <2>6 DEF TiedInv
<1>2. Unattached \in SUBSET Nat
  BY LoopAssumption DEF Unattached
<1>3. \E l \in Unattached : \A m \in Unattached : l <= m
  BY <1>1, <1>2, HasLeast
<1> QED
  BY <1>3 DEF FirstFree

LEMMA PendingFinite ==
    ASSUME NEW j
    PROVE  IsFiniteSet(Pending(j)) /\ Cardinality(Pending(j)) \in Nat
<1>1. Pending(j) \in SUBSET AutoDisks
  BY DEF Pending
<1> QED
  BY <1>1, LoopAssumption, FS_Subset, FS_CardinalityType

LEMMA NoRecords ==
    /\ NoLoops \in LoopStates /\ IdleJob \in Jobs /\ Starting \in Daemons
    /\ IdleJob.loops = NoLoops /\ Starting.loops = NoLoops
    /\ \A d \in LoopDisks : ~Complete(NoLoops[d]) /\ ~Created(NoLoops[d])
    /\ Settled(NoLoops) /\ True(NoLoops)
    /\ \A f, l : ~Places(NoLoops, f, l)
<1>1. NoLoops \in LoopStates
  BY DEF NoLoops, LoopStates
<1>2. \A d \in LoopDisks : ~Complete(NoLoops[d]) /\ ~Created(NoLoops[d])
  BY DEF NoLoops, Complete, Created
<1>3. IdleJob \in Jobs /\ IdleJob.loops = NoLoops
  BY <1>1 DEF IdleJob, Jobs, ClassStates
<1>4. Starting \in Daemons /\ Starting.loops = NoLoops
  BY <1>1 DEF Starting, Daemons
<1> QED
  BY <1>1, <1>2, <1>3, <1>4 DEF True, Settled, Places, NoLoops

(* Nothing new is tied.                                                    *)
LEMMA TiedLess ==
    ASSUME TiedInv, LoopTypes, names' \in Nat, names <= names',
           \A f \in Files, l \in Loops : Tied(f, l)' => Tied(f, l)
    PROVE  TiedInv'
<1>1. Files \subseteq Nat
  BY FilesAreNumbers
<1> SUFFICES ASSUME NEW f \in Files, NEW l \in Loops, Tied(f, l)'
             PROVE  f <= names' /\ \A m \in Loops : Tied(f, m)' => l = m
  BY DEF TiedInv
<1>2. f <= names /\ \A m \in Loops : Tied(f, m) => l = m
  BY DEF TiedInv
<1> QED BY <1>1, <1>2 DEF LoopTypes

(* Records are passed on, or forgotten.                                    *)
Moved ==
    /\ UNCHANGED <<attached, names>>
    /\ {cm'.loops, copy', job'.loops} \subseteq {cm.loops, copy, job.loops, NoLoops}
    /\ disc'.loops \in {disc.loops, cm.loops, NoLoops}

LEMMA MovedRecords ==
    ASSUME Moved, LoopTypes
    PROVE  /\ TiedInv => TiedInv'
           /\ AllSettled => AllSettled'
           /\ AllTrue => AllTrue'
<1>1. \A f, l : Tied(f, l)' => Tied(f, l)
  BY NoRecords DEF Moved, Tied, Attaches, Places
<1>2. TiedInv => TiedInv'
  BY <1>1, TiedLess DEF Moved, LoopTypes
<1>3. AllSettled => AllSettled'
  BY NoRecords DEF Moved, AllSettled, Settled
<1>4. AllTrue => AllTrue'
  BY NoRecords DEF Moved, AllTrue, True
<1> QED BY <1>2, <1>3, <1>4

LEMMA MovedHeld ==
    ASSUME Held, Moved, LoopTypes', NamesLeft', DaemonInv'
    PROVE  Held' /\ (AllTrue => AllTrue')
BY MovedRecords DEF Held

-----------------------------------------------------------------------------
(* What the commands do to the labels in the files.                        *)

LEMMA RelabelType ==
    ASSUME NEW n \in L!Nodes, NEW S, NEW x \in L!Labels
    PROVE  /\ L!Relabel(n, S, x) \in L!Nodes
           /\ \A f \in Files : L!Relabel(n, S, x).own[f] = IF f \in S THEN x ELSE n.own[f]
BY DEF L!Relabel, L!Nodes

LEMMA LabelsOfLvm == {L!Raw, L!Orphan, Vg} \subseteq L!Labels /\ Vg # L!Raw
BY VgAssumption DEF L!Labels

(* Every outcome of the wrappers is a node; a removed group has no member. *)
LEMMA WrapperOutcomes ==
    ASSUME NEW n \in L!Nodes, NEW S, NEW o,
           \/ o \in L!CreateVolumeGroup(n, Vg, S, FALSE)
           \/ o \in L!ExpandVolumeGroup(n, Vg, S, FALSE)
           \/ o \in L!ShrinkVolumeGroup(n, Vg, S, FALSE)
           \/ o = L!Done(n)
    PROVE  o.node \in L!Nodes
<1>1. \/ \E T : o = L!Failed(L!Relabel(n, T, L!Orphan))
      \/ o = L!Done(L!Relabel(n, S, Vg))
      \/ o = L!Done(L!Relabel(n, S, L!Raw))
      \/ o \in {L!Done(n), L!Failed(n)}
  <2>1. CASE o \in L!CreateVolumeGroup(n, Vg, S, FALSE)
    BY <2>1 DEF L!CreateVolumeGroup
  <2>2. CASE o \in L!ExpandVolumeGroup(n, Vg, S, FALSE)
    BY <2>2 DEF L!ExpandVolumeGroup
  <2>3. CASE o \in L!ShrinkVolumeGroup(n, Vg, S, FALSE)
    BY <2>3 DEF L!ShrinkVolumeGroup
  <2> QED BY <2>1, <2>2, <2>3
<1>2. \A m : L!Done(m).node = m /\ L!Failed(m).node = m
  BY DEF L!Done, L!Failed
<1>3. \A T : \A x \in L!Labels : L!Relabel(n, T, x) \in L!Nodes
  BY RelabelType
<1>4. L!Raw \in L!Labels /\ L!Orphan \in L!Labels /\ Vg \in L!Labels
  BY LabelsOfLvm
<1> QED BY <1>1, <1>2, <1>3, <1>4

LEMMA RemovalOutcomes ==
    ASSUME NEW n \in L!Nodes, NEW o \in L!RemoveVolumeGroup(n, Vg, FALSE)
    PROVE  /\ o.node \in L!Nodes /\ o.ok \in BOOLEAN
           /\ o.ok => L!Members(o.node, Vg) = {}
<1> DEFINE pvs == L!Members(n, Vg)
<1>1. o \in {L!Done(L!Relabel(n, pvs, L!Raw)), L!Failed(n)}
  BY DEF L!RemoveVolumeGroup
<1>2. CASE o = L!Failed(n)
  BY <1>2 DEF L!Failed
<1>3. CASE o = L!Done(L!Relabel(n, pvs, L!Raw))
  <2>1. o.node = L!Relabel(n, pvs, L!Raw) /\ o.ok = TRUE
    BY <1>3 DEF L!Done
  <2>2. L!Raw \in L!Labels /\ L!Raw # Vg
    BY LabelsOfLvm
  <2>3. /\ o.node \in L!Nodes
        /\ \A f \in Files : o.node.own[f] = IF f \in pvs THEN L!Raw ELSE n.own[f]
    BY <2>1, <2>2, RelabelType
  <2> QED BY <2>1, <2>2, <2>3 DEF L!Members
<1> QED BY <1>1, <1>2, <1>3

(* createVg, as ProvisionClass uses it.                                    *)
LEMMA CreateVgOutcomes ==
    ASSUME NEW n \in L!Nodes, NEW o \in CreateVg(n)
    PROVE  o.node \in L!Nodes /\ o.class \in ClassStates
<1>1. \/ o \in {[node |-> n, class |-> "failed"]}
      \/ \E files : o \in {[node |-> p.node, class |-> IF p.ok THEN "success" ELSE "failed"] :
                            p \in L!CreateVolumeGroup(n, Vg, files, FALSE)}
      \/ \E files : o \in {[node |-> L!Relabel(n, S, L!Orphan), class |-> "failed"] :
                            S \in SUBSET files}
  BY Zenon DEF CreateVg
<1>2. ASSUME NEW files, NEW p \in L!CreateVolumeGroup(n, Vg, files, FALSE),
             o = [node |-> p.node, class |-> IF p.ok THEN "success" ELSE "failed"]
      PROVE  o.node \in L!Nodes /\ o.class \in ClassStates
  BY <1>2, WrapperOutcomes DEF ClassStates
<1>3. ASSUME NEW S, o = [node |-> L!Relabel(n, S, L!Orphan), class |-> "failed"]
      PROVE  o.node \in L!Nodes /\ o.class \in ClassStates
  <2>1. L!Orphan \in L!Labels
    BY LabelsOfLvm
  <2> QED BY <1>3, <2>1, RelabelType DEF ClassStates
<1>4. CASE o = [node |-> n, class |-> "failed"]
  BY <1>4 DEF ClassStates
<1> QED BY <1>1, <1>2, <1>3, <1>4

(* The reduction that ends ResizeVg, of the group as the expansion left it.*)
LEMMA ResizeVgOutcomes ==
    ASSUME NEW n \in L!Nodes, NEW o \in ResizeVg(n)
    PROVE  /\ o.node \in L!Nodes /\ o.class \in ClassStates
           /\ o.class # "success" => L!Members(o.node, Vg) = {}
<1> DEFINE grown == L!CreatePhysicalVolumes(n, FilesBehind(Devices(job.want)) \ L!Members(n, Vg), FALSE)
           Steps(pvs) == IF pvs = {} THEN {L!Done(n)} ELSE L!ExpandVolumeGroup(n, Vg, pvs, FALSE)
           Grown == {e.node : e \in UNION {Steps(pvs) : pvs \in grown}}
<1>1. \A m \in Grown : m \in L!Nodes
  <2> SUFFICES ASSUME NEW pvs, NEW e \in Steps(pvs) PROVE e.node \in L!Nodes
    OBVIOUS
  <2> QED BY WrapperOutcomes
<1> HIDE DEF Grown
<1>2. \/ o = [node |-> n, class |-> "success"]
      \/ \E m \in Grown : o \in {[node |-> m, class |-> "success"]}
      \/ \E m \in Grown : o \in {[node |-> p.node, class |-> AfterRemoval(p.ok)] :
                                   p \in L!RemoveVolumeGroup(m, Vg, FALSE)}
      \/ \E m \in Grown : \E extra : o \in {[node |-> p.node, class |-> "success"] :
                                               p \in L!ShrinkVolumeGroup(m, Vg, extra, FALSE)}
  BY Zenon DEF ResizeVg, Grown
<1>3. ASSUME NEW m \in L!Nodes, NEW p \in L!RemoveVolumeGroup(m, Vg, FALSE),
             o = [node |-> p.node, class |-> AfterRemoval(p.ok)]
      PROVE  /\ o.node \in L!Nodes /\ o.class \in ClassStates
             /\ o.class # "success" => L!Members(o.node, Vg) = {}
  BY <1>3, RemovalOutcomes DEF AfterRemoval, ClassStates
<1>4. ASSUME NEW m \in L!Nodes, NEW extra, NEW p \in L!ShrinkVolumeGroup(m, Vg, extra, FALSE),
             o = [node |-> p.node, class |-> "success"]
      PROVE  o.node \in L!Nodes /\ o.class = "success"
  BY <1>4, WrapperOutcomes
<1>5. ASSUME NEW m \in L!Nodes, o = [node |-> m, class |-> "success"]
      PROVE  o.node \in L!Nodes /\ o.class = "success"
  BY <1>5
<1>6. "success" \in ClassStates
  BY DEF ClassStates
<1> HIDE DEF Steps, grown
<1> QED BY <1>1, <1>2, <1>3, <1>4, <1>5, <1>6

-----------------------------------------------------------------------------
LEMMA InitHeld == Init => Held /\ AllTrue
<1> SUFFICES ASSUME Init PROVE Held /\ AllTrue
  OBVIOUS
<1> DEFINE Of(l) == CHOOSE u \in UserDisks : UserLoop[u].dev = l
<1>1. \A l \in Loops : attached[l] = IF \E u \in UserDisks : UserLoop[u].dev = l
                                      THEN UserLoop[Of(l)].file ELSE NoFile
  BY DEF Init
<1>2. \A l \in Loops : (\E u \in UserDisks : UserLoop[u].dev = l) =>
        Of(l) \in UserDisks /\ UserLoop[Of(l)].dev = l
  OBVIOUS
<1> HIDE DEF Of
<1>3. names \in Nat /\ names = Cardinality(UserDisks)
  BY LoopAssumption, FS_CardinalityType DEF Init
<1>4. \A l \in Loops : attached[l] \in Files \cup {NoFile}
  BY <1>1, <1>2, LoopAssumption
<1>5. attached \in [Loops -> Files \cup {NoFile}]
  BY <1>4 DEF Init
<1>6. LoopTypes
  BY <1>3, <1>5, NoRecords DEF Init, LoopTypes, ClassStates
<1>7. /\ job = IdleJob /\ disc = Starting /\ cm.loops = NoLoops /\ copy = NoLoops
      /\ job.loops = NoLoops /\ disc.loops = NoLoops
  BY NoRecords DEF Init
<1>8. TiedInv
  <2>1. \A f, l : Tied(f, l) => Attaches(f, l)
    BY <1>7, NoRecords DEF Tied
  <2>2. ASSUME NEW l \in Loops, attached[l] # NoFile
        PROVE  Of(l) \in UserDisks /\ UserLoop[Of(l)].dev = l /\ attached[l] = UserLoop[Of(l)].file
    BY <2>2, <1>1, <1>2
  <2>3. ASSUME NEW l \in Loops, attached[l] # NoFile PROVE attached[l] <= names
    BY <2>2, <2>3, <1>3, LoopAssumption
  <2>4. ASSUME NEW l \in Loops, NEW m \in Loops, attached[l] = attached[m], attached[l] # NoFile
        PROVE  l = m
    <3>1. Of(l) \in UserDisks /\ UserLoop[Of(l)].dev = l /\ attached[l] = UserLoop[Of(l)].file
      BY <2>2, <2>4
    <3>2. Of(m) \in UserDisks /\ UserLoop[Of(m)].dev = m /\ attached[m] = UserLoop[Of(m)].file
      BY <2>2, <2>4
    <3>3. Of(l) = Of(m)
      BY <3>1, <3>2, <2>4, LoopAssumption
    <3> QED
      BY <3>1, <3>2, <3>3
  <2> QED
    BY <2>1, <2>3, <2>4 DEF TiedInv, Attaches
<1>9. NamesLeft /\ DaemonInv
  BY <1>7 DEF NamesLeft, DaemonInv, IdleJob, Starting
<1>10. AllSettled /\ AllTrue
  BY <1>7, NoRecords DEF AllSettled, AllTrue
<1> QED
  BY <1>6, <1>8, <1>9, <1>10 DEF Held

-----------------------------------------------------------------------------
(* The job.                                                                *)

LEMMA JobStartStep ==
    ASSUME Held, spec \in Specs, JobStart
    PROVE  Held' /\ (AllTrue => AllTrue')
<1>1. /\ IdleJob \in Jobs /\ spec \in SUBSET LoopDisks /\ copy \in LoopStates
      /\ job' = [IdleJob EXCEPT !.at = "loops", !.want = spec, !.loops = copy, !.todo = spec]
  BY NoRecords, LoopAssumption DEF JobStart, RecordedLoops, Held, LoopTypes
<1>2. job' \in Jobs /\ job'.loops = copy /\ job'.todo = spec
  BY <1>1 DEF Jobs
<1>3. LoopTypes'
  BY <1>2 DEF JobStart, Held, LoopTypes
<1>4. Pending(job') = {d \in spec \cap AutoDisks : ~Created(RecordedLoops[d])}
  BY <1>2 DEF Pending, RecordedLoops
<1>5. NamesLeft'
  BY <1>4 DEF NamesLeft, JobStart, Pending
<1>6. DaemonInv'
  BY DEF JobStart, Held, DaemonInv
<1>7. Moved
  BY <1>2 DEF JobStart, Moved
<1> QED
  BY <1>3, <1>5, <1>6, <1>7, MovedHeld

(* A disk that has been dealt with is no longer pending.                   *)
LEMMA RecordStep ==
    ASSUME Held, job.at = "loops", NEW d \in job.todo, NEW r \in Records, Record(d, r)
    PROVE  /\ job' \in Jobs /\ job'.at = "loops" /\ job'.loops = [job.loops EXCEPT ![d] = r]
           /\ Pending(job') = Pending(job) \ {d}
           /\ d \in LoopDisks
           /\ \A e \in LoopDisks : job'.loops[e] = IF e = d THEN r ELSE job.loops[e]
<1>1. job \in Jobs /\ d \in LoopDisks
  BY DEF Held, LoopTypes, Jobs
<1>2. job' = [job EXCEPT !.loops = [job.loops EXCEPT ![d] = r], !.todo = job.todo \ {d}]
  BY <1>1 DEF Record, Jobs
<1>3. [job.loops EXCEPT ![d] = r] \in LoopStates
  BY <1>1 DEF Jobs, LoopStates
<1>4. /\ job' \in Jobs /\ job'.at = "loops" /\ job'.loops = [job.loops EXCEPT ![d] = r]
      /\ job'.todo = job.todo \ {d}
  BY <1>1, <1>2, <1>3 DEF Jobs
<1>5. \A e \in LoopDisks : job'.loops[e] = IF e = d THEN r ELSE job.loops[e]
  BY <1>1, <1>4 DEF Jobs, LoopStates
<1>6. Pending(job') = Pending(job) \ {d}
  <2>1. job.todo \subseteq LoopDisks
    BY <1>1 DEF Jobs
  <2> QED BY <1>4, <1>5, <2>1 DEF Pending
<1> QED
  BY <1>1, <1>4, <1>5, <1>6

LEMMA KnownLoopStep ==
    ASSUME Held, NEW d \in LoopDisks, KnownLoop(d)
    PROVE  Held' /\ (AllTrue => AllTrue')
<1>1. job \in Jobs /\ job' = [job EXCEPT !.todo = job.todo \ {d}]
  BY DEF KnownLoop, Held, LoopTypes
<1>2. /\ job' \in Jobs /\ job'.at = "loops" /\ job'.loops = job.loops
      /\ job'.todo = job.todo \ {d}
  BY <1>1 DEF KnownLoop, Jobs
<1>3. Pending(job') = Pending(job)
  BY <1>2 DEF KnownLoop, Pending
<1>4. LoopTypes'
  BY <1>2 DEF KnownLoop, Held, LoopTypes
<1>5. NamesLeft'
  <2>1. names' + Cardinality(Pending(job')) <= Cardinality(Files)
    BY <1>3 DEF KnownLoop, Held, NamesLeft
  <2> QED
    BY <2>1 DEF NamesLeft, Pending
<1>6. DaemonInv'
  BY DEF KnownLoop, Held, DaemonInv
<1>7. Moved
  BY <1>2 DEF KnownLoop, Moved
<1> QED
  BY <1>4, <1>5, <1>6, <1>7, MovedHeld

(* What becomes of true records when a free device is attached.            *)
LEMMA AttachNew ==
    ASSUME LoopTypes, NEW loops \in LoopStates, True(loops), NEW l \in Unattached, NEW f,
           attached' = [attached EXCEPT ![l] = f]
    PROVE  True(loops)'
<1> SUFFICES ASSUME NEW d \in LoopDisks, Complete(loops[d])
             PROVE  attached'[loops[d].dev] = loops[d].file
  BY DEF True, Complete
<1>1. attached[loops[d].dev] = loops[d].file /\ loops[d].file # NoFile
  BY DEF True, Complete
<1>2. loops[d].dev # l
  BY <1>1 DEF Unattached
<1>3. loops[d].dev \in Loops
  BY DEF LoopStates, Records, Complete
<1> QED
  BY <1>1, <1>2, <1>3 DEF LoopTypes

(* CreateLoop, taken apart: the device is free and the file has no tie.    *)
LEMMA CreateLoopParts ==
    ASSUME Held, NEW d \in AutoDisks, CreateLoop(d)
    PROVE  /\ job.at = "loops" /\ d \in job.todo /\ d \in LoopDisks
           /\ job.loops[d] = NoRecord
           /\ names' = names + 1 /\ names' \in Files /\ names \in Nat
           /\ UNCHANGED <<spec, own, busy, cm, copy, disc, lagged>>
           /\ FirstFree \in Unattached /\ FirstFree \in Loops
           /\ attached' \in {attached, [attached EXCEPT ![FirstFree] = names']}
           /\ Cardinality(Pending(job) \ {d}) \in Nat
           /\ names' + Cardinality(Pending(job) \ {d}) <= Cardinality(Files)
           /\ \/ /\ attached' = [attached EXCEPT ![FirstFree] = names']
                 /\ Record(d, LoopState(names', FirstFree))
              \/ Record(d, LoopState(names', NoDev)) /\ Spend("fault")
<1> DEFINE rest == Pending(job) \ {d}
<1>1. /\ job.at = "loops" /\ d \in job.todo /\ d \in LoopDisks /\ names' = names + 1
      /\ ~Created(job.loops[d])
      /\ UNCHANGED <<spec, own, busy, cm, copy, disc, lagged>>
      /\ names \in Nat /\ Cardinality(Files) \in Nat
  BY FilesAreNumbers DEF CreateLoop, LoopDisks, Held, LoopTypes
<1>2. job.loops[d] = NoRecord
  BY <1>1 DEF Created, Held, AllSettled, Settled
<1>3. d \in Pending(job)
  BY <1>1 DEF CreateLoop, Pending
<1>4. Cardinality(rest) = Cardinality(Pending(job)) - 1
  BY <1>3, PendingFinite, FS_RemoveElement
<1>5. names' + Cardinality(rest) <= Cardinality(Files)
  BY <1>1, <1>4, PendingFinite DEF Held, NamesLeft
<1>6. Cardinality(rest) \in Nat
  BY <1>3, PendingFinite, FS_RemoveElement, FS_CardinalityType
<1>7. names + 1 \in Files /\ names < Cardinality(Files)
  <2>1. names + 1 <= Cardinality(Files)
    BY <1>1, <1>5, <1>6
  <2> QED
    BY <1>1, <2>1, FilesAreNumbers
<1>8. FirstFree \in Unattached
  BY <1>7, FreeDevice DEF Held
<1>9. FirstFree \in Loops
  BY <1>8 DEF Unattached
<1>10. attached' \in {attached, [attached EXCEPT ![FirstFree] = names']}
  BY DEF CreateLoop
<1>11. \/ /\ attached' = [attached EXCEPT ![FirstFree] = names']
          /\ Record(d, LoopState(names', FirstFree))
       \/ Record(d, LoopState(names', NoDev)) /\ Spend("fault")
  BY Zenon DEF CreateLoop, NewDevice
<1> QED
  BY <1>1, <1>2, <1>5, <1>6, <1>7, <1>8, <1>9, <1>10, <1>11

LEMMA CreateLoopStep ==
    ASSUME Held, NEW d \in AutoDisks, CreateLoop(d)
    PROVE  Held' /\ (AllTrue => AllTrue')
<1> DEFINE free == FirstFree
           rest == Pending(job) \ {d}
<1>1. /\ job.at = "loops" /\ d \in job.todo /\ d \in LoopDisks
      /\ names' = names + 1 /\ names' \in Files /\ names \in Nat
      /\ UNCHANGED <<cm, copy, disc>>
      /\ free \in Unattached /\ free \in Loops
      /\ attached' \in {attached, [attached EXCEPT ![free] = names']}
      /\ Cardinality(rest) \in Nat
      /\ names' + Cardinality(rest) <= Cardinality(Files)
      /\ \/ /\ attached' = [attached EXCEPT ![free] = names']
            /\ Record(d, LoopState(names', free))
         \/ Record(d, LoopState(names', NoDev)) /\ Spend("fault")
  BY CreateLoopParts
<1> HIDE DEF free, rest
<1>2. PICK r \in Records : /\ Record(d, r) /\ r.ok /\ r.file = names'
                           /\ \/ r.dev = NoDev
                              \/ /\ r.dev = free
                                 /\ attached' = [attached EXCEPT ![free] = names']
  <2> DEFINE good == LoopState(names', free)
             bad  == LoopState(names', NoDev)
  <2>1. /\ good \in Records /\ good.ok /\ good.file = names' /\ good.dev = free
        /\ bad \in Records /\ bad.ok /\ bad.file = names' /\ bad.dev = NoDev
    BY <1>1 DEF LoopState, Records
  <2>2. \/ attached' = [attached EXCEPT ![free] = names'] /\ Record(d, good)
        \/ Record(d, bad)
    BY <1>1
  <2> HIDE DEF good, bad
  <2> QED BY <2>1, <2>2, Zenon
<1>3. /\ job' \in Jobs /\ job'.at = "loops" /\ Pending(job') = rest
      /\ \A e \in LoopDisks : job'.loops[e] = IF e = d THEN r ELSE job.loops[e]
  BY <1>1, <1>2, RecordStep DEF rest
<1>4. LoopTypes'
  <2>1. attached' \in [Loops -> Files \cup {NoFile}]
    BY <1>1 DEF Held, LoopTypes
  <2> QED BY <1>1, <1>3, <2>1 DEF Held, LoopTypes
<1>5. NamesLeft' /\ DaemonInv'
  <2>1. names' + Cardinality(Pending(job')) <= Cardinality(Files)
    BY <1>1, <1>3
  <2> QED
    BY <1>1, <2>1 DEF NamesLeft, Pending, Held, DaemonInv
<1>6. AllSettled'
  BY <1>1, <1>2, <1>3 DEF Held, AllSettled, Settled
<1>7. ASSUME NEW f \in Files, NEW l \in Loops, Tied(f, l)'
      PROVE  Tied(f, l) \/ (f = names' /\ l = free)
  <2>1. CASE attached'[l] = f /\ f # NoFile
    <3>1. (l = free /\ f = names') \/ attached[l] = f
      BY <1>1, <2>1 DEF Held, LoopTypes
    <3> QED BY <2>1, <3>1 DEF Tied, Attaches
  <2>2. CASE Places(job'.loops, f, l)
    <3>1. PICK e \in LoopDisks : /\ Complete(job'.loops[e])
                                 /\ job'.loops[e].file = f /\ job'.loops[e].dev = l
      BY <2>2 DEF Places
    <3>2. CASE e = d
      BY <1>2, <1>3, <3>1, <3>2, LoopAssumption
    <3>3. CASE e # d
      BY <1>3, <3>1, <3>3 DEF Tied, Places
    <3> QED BY <3>2, <3>3
  <2> QED BY <1>1, <1>7, <2>1, <2>2 DEF Tied, Attaches
<1>8. TiedInv'
  <2>1. ~\E l \in Loops : Tied(names', l)
    BY <1>1 DEF Held, TiedInv
  <2>2. Files \subseteq Nat
    BY FilesAreNumbers
  <2> SUFFICES ASSUME NEW f \in Files, NEW l \in Loops, Tied(f, l)'
               PROVE  f <= names' /\ \A m \in Loops : Tied(f, m)' => l = m
    BY DEF TiedInv
  <2>3. CASE f = names'
    BY <1>1, <1>7, <2>1, <2>2, <2>3
  <2>4. CASE f # names'
    <3>1. Tied(f, l) /\ \A m \in Loops : Tied(f, m)' => Tied(f, m)
      BY <1>7, <2>4
    <3> QED BY <1>1, <2>2, <3>1 DEF Held, TiedInv
  <2> QED BY <2>3, <2>4
<1>9. ASSUME AllTrue PROVE AllTrue'
  <2>1. /\ job.loops \in LoopStates /\ cm.loops \in LoopStates /\ disc.loops \in LoopStates
        /\ copy \in LoopStates
    BY DEF Held, LoopTypes, Jobs, Daemons
  <2>2. ASSUME NEW loops \in LoopStates, True(loops) PROVE True(loops)'
    <3>1. CASE attached' = attached
      BY <2>2, <3>1 DEF True, Complete
    <3>2. CASE attached' = [attached EXCEPT ![free] = names']
      BY <1>1, <2>2, <3>2, AttachNew DEF Held
    <3> QED
      BY <1>1, <3>1, <3>2
  <2>3. True(job.loops)' = \A e \in LoopDisks : Complete(job'.loops[e]) =>
                                attached'[job'.loops[e].dev] = job'.loops[e].file
    BY DEF True
  <2>4. \A e \in LoopDisks : Complete(job.loops[e]) =>
            attached'[job.loops[e].dev] = job.loops[e].file
    <3>1. CASE attached' = attached
      BY <1>9, <3>1 DEF AllTrue, True
    <3>2. CASE attached' = [attached EXCEPT ![free] = names']
      <4> SUFFICES ASSUME NEW e \in LoopDisks, Complete(job.loops[e])
                   PROVE  attached'[job.loops[e].dev] = job.loops[e].file
        OBVIOUS
      <4>1. attached[job.loops[e].dev] = job.loops[e].file /\ job.loops[e].file # NoFile
        BY <1>9 DEF AllTrue, True, Complete
      <4>2. job.loops[e].dev \in Loops /\ job.loops[e].dev # free
        BY <1>1, <2>1, <4>1 DEF LoopStates, Records, Complete, Unattached
      <4> QED BY <3>2, <4>1, <4>2 DEF Held, LoopTypes
    <3> QED BY <1>1, <3>1, <3>2
  <2>5. Complete(r) => attached'[r.dev] = r.file
    BY <1>1, <1>2, LoopAssumption DEF Complete, Held, LoopTypes
  <2>6. True(job.loops)'
    BY <1>3, <2>3, <2>4, <2>5
  <2> QED
    BY <1>1, <1>9, <2>1, <2>2, <2>6 DEF AllTrue
<1> QED
  BY <1>4, <1>5, <1>6, <1>8, <1>9 DEF Held

LEMMA RecordUserLoopStep ==
    ASSUME Held, NEW d \in LoopDisks, RecordUserLoop(d)
    PROVE  Held' /\ (AllTrue => AllTrue')
<1> DEFINE dev == UserLoop[d].dev
<1>1. /\ job.at = "loops" /\ d \in job.todo /\ d \in UserDisks
      /\ UNCHANGED <<attached, names, cm, copy, disc>>
  BY DEF RecordUserLoop
<1>2. dev \in Loops /\ attached[dev] \in Files \cup {NoFile}
  BY <1>1, LoopAssumption DEF Held, LoopTypes
<1>3. PICK r \in Records : /\ Record(d, r) /\ r.ok
                           /\ Complete(r) => attached[r.dev] = r.file
  <2> DEFINE found == LoopState(attached[dev], dev)
             bad   == LoopState(NoFile, dev)
  <2>1. found \in Records /\ found.ok /\ attached[found.dev] = found.file
    BY <1>2 DEF LoopState, Records
  <2>2. bad \in Records /\ bad.ok /\ ~Complete(bad)
    BY <1>2, LoopAssumption DEF LoopState, Records, Complete
  <2>3. Record(d, found) \/ Record(d, bad)
    BY DEF RecordUserLoop
  <2> HIDE DEF found, bad
  <2> QED
    BY <2>1, <2>2, <2>3, Zenon
<1>4. /\ job' \in Jobs /\ job'.at = "loops" /\ Pending(job') = Pending(job) \ {d}
      /\ \A e \in LoopDisks : job'.loops[e] = IF e = d THEN r ELSE job.loops[e]
  BY <1>1, <1>3, RecordStep
<1>5. Pending(job') = Pending(job)
  <2>1. d \notin AutoDisks
    BY <1>1, LoopAssumption
  <2> QED
    BY <1>4, <2>1 DEF Pending
<1>6. LoopTypes'
  BY <1>1, <1>4 DEF Held, LoopTypes
<1>7. NamesLeft' /\ DaemonInv'
  <2>1. names' + Cardinality(Pending(job')) <= Cardinality(Files)
    BY <1>1, <1>5 DEF Held, NamesLeft
  <2> QED
    BY <1>1, <2>1 DEF NamesLeft, Pending, Held, DaemonInv
<1>8. AllSettled'
  BY <1>1, <1>3, <1>4 DEF Held, AllSettled, Settled
<1>9. TiedInv'
  <2>1. ASSUME NEW f \in Files, NEW l \in Loops, Places(job'.loops, f, l) PROVE Tied(f, l)
    <3>1. PICK e \in LoopDisks : /\ Complete(job'.loops[e])
                                 /\ job'.loops[e].file = f /\ job'.loops[e].dev = l
      BY <2>1 DEF Places
    <3>2. CASE e = d
      BY <1>3, <1>4, <3>1, <3>2, LoopAssumption DEF Tied, Attaches
    <3>3. CASE e # d
      BY <1>4, <3>1, <3>3 DEF Tied, Places
    <3> QED BY <3>2, <3>3
  <2>2. \A f \in Files, l \in Loops : Tied(f, l)' => Tied(f, l)
    BY <1>1, <2>1 DEF Tied, Attaches
  <2> QED BY <1>1, <2>2, TiedLess DEF Held, LoopTypes
<1>10. AllTrue => AllTrue'
  <2>1. AllTrue => True(job.loops)'
    BY <1>1, <1>3, <1>4 DEF AllTrue, True, Complete
  <2> QED
    BY <1>1, <2>1 DEF AllTrue, True
<1> QED
  BY <1>6, <1>7, <1>8, <1>9, <1>10 DEF Held

(* ProvisionClass is about labels, and about the class when the group is   *)
(* gone.                                                                   *)
LEMMA ProvisionClassParts ==
    ASSUME own \in [Files -> L!Labels], busy \subseteq Files, ProvisionClass
    PROVE  /\ own' \in [Files -> L!Labels]
           /\ \E class \in ClassStates :
                /\ job' = [job EXCEPT !.at = "commit", !.class = class]
                /\ cm.class = "success" /\ class # "success" => \A f \in Files : own'[f] # Vg
<1>1. Node \in L!Nodes
  BY DEF Node, L!Nodes
<1>2. PICK o : /\ o \in IF cm.class = "success" THEN ResizeVg(Node)
                        ELSE IF cm.class = "unknown" /\ L!Readable(Node, Vg)
                        THEN {[node |-> Node, class |-> "none"]}
                        ELSE CreateVg(Node)
               /\ own' = o.node.own
               /\ job' = [job EXCEPT !.at = "commit", !.class = o.class]
  BY Zenon DEF ProvisionClass
<1>3. CASE cm.class = "success"
  <2>1. /\ o.node \in L!Nodes /\ o.class \in ClassStates
        /\ o.class # "success" => L!Members(o.node, Vg) = {}
    BY <1>1, <1>2, <1>3, ResizeVgOutcomes
  <2>2. o.class # "success" => \A f \in Files : own'[f] # Vg
    BY <1>2, <2>1 DEF L!Members
  <2> QED BY <1>2, <2>1, <2>2 DEF L!Nodes
<1>4. CASE cm.class # "success"
  <2>1. o.node \in L!Nodes /\ o.class \in ClassStates
    BY <1>1, <1>2, <1>4, CreateVgOutcomes DEF ClassStates
  <2> QED BY <1>2, <1>4, <2>1 DEF L!Nodes
<1> QED BY <1>3, <1>4

LEMMA ProvisionClassStep ==
    ASSUME Held, own \in [Files -> L!Labels], busy \subseteq Files, ProvisionClass
    PROVE  Held' /\ (AllTrue => AllTrue')
<1>1. PICK class \in ClassStates : job' = [job EXCEPT !.at = "commit", !.class = class]
  BY ProvisionClassParts
<1>2. job' \in Jobs /\ job'.at = "commit" /\ job'.loops = job.loops
  BY <1>1 DEF Held, LoopTypes, Jobs
<1>3. UNCHANGED <<attached, names, cm, copy, disc>>
  BY DEF ProvisionClass
<1>4. Moved /\ LoopTypes' /\ NamesLeft' /\ DaemonInv'
  BY <1>2, <1>3 DEF Moved, Held, LoopTypes, NamesLeft, DaemonInv
<1> QED
  BY <1>4, MovedHeld

LEMMA JobEnds ==
    ASSUME Held, job' = IdleJob, UNCHANGED <<attached, names, copy, disc>>,
           cm' = cm \/ JobCommit
    PROVE  Held' /\ (AllTrue => AllTrue')
<1>1. job \in Jobs /\ job' \in Jobs /\ job'.at = "idle" /\ job'.loops = NoLoops
  BY NoRecords DEF Held, LoopTypes, IdleJob
<1>2. cm' \in [loops: LoopStates, class: ClassStates] /\ cm'.loops \in {cm.loops, job.loops}
  BY <1>1 DEF JobCommit, Jobs, Held, LoopTypes
<1>3. Moved /\ LoopTypes' /\ NamesLeft' /\ DaemonInv'
  BY <1>1, <1>2 DEF Moved, Held, LoopTypes, NamesLeft, DaemonInv
<1> QED
  BY <1>3, MovedHeld

-----------------------------------------------------------------------------
(* The daemon.                                                             *)

(* What it is about to set up counts as created.                           *)
LEMMA DaemonChanges ==
    ASSUME Held, disc' \in Daemons, UNCHANGED <<attached, names, cm, copy, job>>,
           disc'.loops \in {disc.loops, cm.loops, NoLoops},
           \A d \in disc'.todo \cup disc'.cur : Created(disc'.loops[d])
    PROVE  Held' /\ (AllTrue => AllTrue')
<1>1. Moved /\ LoopTypes' /\ NamesLeft' /\ DaemonInv'
  BY DEF Moved, Held, LoopTypes, NamesLeft, DaemonInv
<1> QED BY <1>1, MovedHeld

LEMMA DaemonRests ==
    ASSUME Held, NEW at \in {"read", "walk", "losetup", "sleep", "done"},
           disc' = [Starting EXCEPT !.at = at],
           UNCHANGED <<attached, names, cm, copy, job>>
    PROVE  Held' /\ (AllTrue => AllTrue')
<1>1. /\ disc' \in Daemons /\ disc'.loops = NoLoops
      /\ disc'.todo = {} /\ disc'.cur = {}
  BY NoRecords DEF Starting, Daemons
<1> QED
  BY <1>1, DaemonChanges

LEMMA ReadRecordsStep ==
    ASSUME Held, ReadRecords
    PROVE  Held' /\ (AllTrue => AllTrue')
<1>1. UNCHANGED <<attached, names, cm, copy, job>>
  BY DEF ReadRecords, DaemonOnly
<1>2. CASE cm.class = "unknown"
  <2>1. disc' = [Starting EXCEPT !.at = "done"]
    BY <1>2 DEF ReadRecords
  <2> QED
    BY <1>1, <2>1, DaemonRests
<1>3. CASE cm.class # "unknown"
  <2>1. disc' = [at |-> "walk", loops |-> cm.loops, cur |-> {}, failed |-> FALSE,
                 todo |-> {d \in LoopDisks : Created(cm.loops[d])}]
    BY <1>3 DEF ReadRecords
  <2>2. disc' \in Daemons /\ disc'.loops = cm.loops
    BY <2>1 DEF Held, LoopTypes, Daemons
  <2>3. \A d \in disc'.todo \cup disc'.cur : Created(disc'.loops[d])
    BY <2>1
  <2> QED
    BY <1>1, <2>2, <2>3, DaemonChanges
<1> QED
  BY <1>2, <1>3

LEMMA ListLoopsStep ==
    ASSUME Held, NEW d \in LoopDisks, ListLoops(d)
    PROVE  Held' /\ (AllTrue => AllTrue')
<1>1. disc \in Daemons /\ d \in disc.todo /\ UNCHANGED <<attached, names, cm, copy, job>>
  BY DEF ListLoops, DaemonOnly, Held, LoopTypes
<1>2. \/ disc' = [disc EXCEPT !.todo = disc.todo \ {d}]
      \/ disc' = [disc EXCEPT !.at = "losetup", !.todo = disc.todo \ {d}, !.cur = {d}]
      \/ disc' = [disc EXCEPT !.todo = disc.todo \ {d}, !.failed = TRUE]
  BY <1>1 DEF ListLoops, Daemons
<1>3. /\ disc' \in Daemons /\ disc'.loops = disc.loops
      /\ disc'.todo \cup disc'.cur \subseteq disc.todo \cup disc.cur
  <2>1. CASE disc' = [disc EXCEPT !.todo = disc.todo \ {d}]
    BY <1>1, <2>1 DEF Daemons
  <2>2. CASE disc' = [disc EXCEPT !.at = "losetup", !.todo = disc.todo \ {d}, !.cur = {d}]
    BY <1>1, <2>2 DEF Daemons
  <2>3. CASE disc' = [disc EXCEPT !.todo = disc.todo \ {d}, !.failed = TRUE]
    BY <1>1, <2>3 DEF Daemons
  <2> QED
    BY <1>2, <2>1, <2>2, <2>3
<1> QED
  BY <1>1, <1>3, DaemonChanges DEF Held, DaemonInv

(* A record that is set up is complete: its file is tied to its device. A  *)
(* complete record that is true is listed, and left alone.                 *)
LEMMA SetUpLoopParts ==
    ASSUME Held, NEW d \in LoopDisks, SetUpLoop(d)
    PROVE  LET r == disc.loops[d]
           IN  /\ UNCHANGED <<names, cm, copy, job>>
               /\ disc' \in Daemons /\ disc'.loops = disc.loops
               /\ disc'.todo \cup disc'.cur \subseteq disc.todo \cup disc.cur
               /\ \/ attached' = attached
                  \/ /\ attached' = [attached EXCEPT ![r.dev] = r.file]
                     /\ r.dev \in Loops /\ r.file \in Files
                     /\ Places(disc.loops, r.file, r.dev)
               /\ AllTrue => attached' = attached
<1> DEFINE r == disc.loops[d]
<1>1. /\ disc \in Daemons /\ d \in disc.cur /\ UNCHANGED <<names, cm, copy, job>>
      /\ r \in Records \cup {NoRecord}
  BY DEF SetUpLoop, DaemonOnly, Held, LoopTypes, Daemons, LoopStates
<1>2. Created(r)
  BY <1>1 DEF Held, DaemonInv
<1>3. CanSetUp(r) => /\ Complete(r) /\ attached[r.dev] = NoFile
                     /\ r.dev \in Loops /\ r.file \in Files
                     /\ Places(disc.loops, r.file, r.dev)
  BY <1>1, <1>2 DEF CanSetUp, Created, Complete, Listed, Records, Places
<1>4. AllTrue => ~CanSetUp(r)
  BY <1>3 DEF AllTrue, True, Complete
<1>5. \/ /\ CanSetUp(r) /\ attached' = [attached EXCEPT ![r.dev] = r.file]
         /\ disc' = [disc EXCEPT !.at = "walk", !.cur = {}]
      \/ /\ attached' = attached
         /\ disc' = [disc EXCEPT !.at = "walk", !.cur = {}, !.failed = TRUE]
  BY DEF SetUpLoop
<1>6. /\ disc' \in Daemons /\ disc'.loops = disc.loops
      /\ disc'.todo \cup disc'.cur \subseteq disc.todo \cup disc.cur
  BY <1>1, <1>5 DEF Daemons
<1> QED
  BY <1>1, <1>3, <1>4, <1>5, <1>6

LEMMA SetUpLoopStep ==
    ASSUME Held, NEW d \in LoopDisks, SetUpLoop(d)
    PROVE  Held' /\ (AllTrue => AllTrue')
<1> DEFINE r == disc.loops[d]
<1>1. /\ UNCHANGED <<names, cm, copy, job>>
      /\ disc' \in Daemons /\ disc'.loops = disc.loops
      /\ disc'.todo \cup disc'.cur \subseteq disc.todo \cup disc.cur
      /\ \/ attached' = attached
         \/ /\ attached' = [attached EXCEPT ![r.dev] = r.file]
            /\ r.dev \in Loops /\ r.file \in Files
            /\ Places(disc.loops, r.file, r.dev)
      /\ AllTrue => attached' = attached
  BY SetUpLoopParts
<1>2. CASE attached' = attached
  BY <1>1, <1>2, DaemonChanges DEF Held, DaemonInv
<1>3. CASE attached' # attached
  <2>1. LoopTypes' /\ NamesLeft' /\ DaemonInv' /\ AllSettled'
    BY <1>1, <1>3 DEF Held, LoopTypes, NamesLeft, DaemonInv, AllSettled, Settled
  <2>2. \A f \in Files, l \in Loops : Tied(f, l)' => Tied(f, l)
    <3> SUFFICES ASSUME NEW f \in Files, NEW l \in Loops, Tied(f, l)' PROVE Tied(f, l)
      OBVIOUS
    <3>1. Attaches(f, l)' => Attaches(f, l) \/ Places(disc.loops, f, l)
      BY <1>1, <1>3 DEF Attaches, Held, LoopTypes
    <3> QED BY <1>1, <3>1 DEF Tied, Places
  <2>3. TiedInv'
    BY <1>1, <2>2, TiedLess DEF Held, LoopTypes
  <2> QED BY <1>1, <1>3, <2>1, <2>3 DEF Held
<1> QED BY <1>2, <1>3

LEMMA DaemonSteps ==
    ASSUME Held, DaemonStep \/ DaemonDie
    PROVE  Held' /\ (AllTrue => AllTrue')
<1>1. CASE EndWalk
  <2>1. \E at \in {"sleep", "done"} : disc' = [Starting EXCEPT !.at = at]
    BY <1>1 DEF EndWalk
  <2>2. UNCHANGED <<attached, names, cm, copy, job>>
    BY <1>1 DEF EndWalk, DaemonOnly
  <2> QED
    BY <2>1, <2>2, DaemonRests
<1>2. CASE RetryLoops \/ DaemonDie
  <2>1. disc' = Starting /\ UNCHANGED <<attached, names, cm, copy, job>>
    BY <1>2 DEF RetryLoops, DaemonDie, DaemonOnly
  <2>2. Starting.todo = {} /\ Starting.cur = {}
    BY DEF Starting
  <2> QED
    BY <2>1, <2>2, NoRecords, DaemonChanges
<1> QED
  BY <1>1, <1>2, ReadRecordsStep, ListLoopsStep, SetUpLoopStep DEF DaemonStep

-----------------------------------------------------------------------------
(* Everything else.                                                        *)

LEMMA OutsideSteps ==
    ASSUME Held, CopyStatus \/ EditSpec \/ UNCHANGED vars
                 \/ \E f \in Files : CreateLv(f) \/ DeleteLv(f)
    PROVE  Held' /\ (AllTrue => AllTrue')
<1>1. UNCHANGED <<attached, names, cm, job, disc>> /\ copy' \in {copy, cm.loops}
  BY DEF CopyStatus, EditSpec, vars, CreateLv, DeleteLv
<1>2. Moved /\ LoopTypes' /\ NamesLeft' /\ DaemonInv'
  BY <1>1 DEF Moved, Held, LoopTypes, NamesLeft, DaemonInv
<1> QED
  BY <1>2, MovedHeld

(* A reboot unties files, and what it leaves may not be true.              *)
LEMMA RebootStep ==
    ASSUME Held, Reboot
    PROVE  Held'
<1>1. /\ attached' = [l \in Loops |-> NoFile] /\ job' = IdleJob /\ disc' = Starting
      /\ UNCHANGED <<names, cm, copy>>
  BY DEF Reboot
<1>2. LoopTypes' /\ NamesLeft' /\ DaemonInv'
  BY <1>1, NoRecords DEF Held, LoopTypes, NamesLeft, DaemonInv, IdleJob, Starting
<1>3. AllSettled'
  BY <1>1, NoRecords DEF Held, AllSettled, Settled
<1>4. \A f \in Files, l \in Loops : Tied(f, l)' => Tied(f, l)
  BY <1>1, NoRecords DEF Tied, Attaches, Places
<1>5. TiedInv'
  BY <1>1, <1>4, TiedLess DEF Held, LoopTypes
<1> QED
  BY <1>2, <1>3, <1>5 DEF Held

-----------------------------------------------------------------------------
(* The bounds only rise, one at a time.                                    *)
LEMMA SpendType ==
    ASSUME spent \in [edit: Nat, fault: Nat, reboot: Nat],
           NEW kind \in {"edit", "fault", "reboot"}, Spend(kind)
    PROVE  /\ spent' \in [edit: Nat, fault: Nat, reboot: Nat]
           /\ IF kind = "fault" THEN spent'.fault # 0 ELSE spent'.fault = spent.fault
           /\ IF kind = "reboot" THEN spent'.reboot # 0 ELSE spent'.reboot = spent.reboot
<1>1. spent' = [spent EXCEPT ![kind] = spent[kind] + 1]
  BY DEF Spend
<1>2. CASE kind = "edit"
  <2>1. spent' = [spent EXCEPT !.edit = spent.edit + 1]
    BY <1>1, <1>2
  <2> QED BY <1>2, <2>1
<1>3. CASE kind = "fault"
  <2>1. spent' = [spent EXCEPT !.fault = spent.fault + 1]
    BY <1>1, <1>3
  <2> QED BY <1>3, <2>1
<1>4. CASE kind = "reboot"
  <2>1. spent' = [spent EXCEPT !.reboot = spent.reboot + 1]
    BY <1>1, <1>4
  <2> QED BY <1>4, <2>1
<1> QED BY <1>2, <1>3, <1>4

LEMMA SpentStep ==
    ASSUME spent \in [edit: Nat, fault: Nat, reboot: Nat], [Next]_vars
    PROVE  /\ spent' \in [edit: Nat, fault: Nat, reboot: Nat]
           /\ spent'.reboot = 0 => spent.reboot = 0 /\ ~Reboot
           /\ spent'.fault = 0 => spent.fault = 0 /\ ~Spend("fault")
<1>1. Reboot => Spend("reboot")
  BY DEF Reboot
<1>2. Spend("reboot") \/ Spend("edit") \/ Spend("fault") \/ spent' = spent
  <2>1. CASE JobStart \/ JobStep \/ JobDie
    BY <2>1 DEF JobStart, JobStep, JobDie, KnownLoop, RecordUserLoop, CreateLoop,
       ProvisionClass, JobCommit
  <2>2. CASE DaemonStep \/ DaemonDie
    BY <2>2 DEF DaemonStep, DaemonDie, ReadRecords, ListLoops, SetUpLoop, EndWalk, RetryLoops
  <2>3. CASE CopyStatus \/ EditSpec \/ Reboot \/ UNCHANGED vars
    BY <2>3 DEF CopyStatus, EditSpec, Reboot, vars
  <2>4. ASSUME NEW f \in Files, CreateLv(f) \/ DeleteLv(f) PROVE spent' = spent
    BY <2>4 DEF CreateLv, DeleteLv
  <2> QED
    BY <2>1, <2>2, <2>3, <2>4 DEF Next
<1>3. \A k \in {"edit", "fault", "reboot"} : Spend(k) => spent'[k] # spent[k]
  <2> SUFFICES ASSUME NEW k \in {"edit", "fault", "reboot"}, Spend(k) PROVE spent'[k] # spent[k]
    OBVIOUS
  <2>1. spent[k] \in Nat /\ k \in DOMAIN spent
    OBVIOUS
  <2> QED BY <2>1 DEF Spend
<1>4. CASE Spend("reboot")
  BY <1>3, <1>4, SpendType
<1>5. CASE Spend("edit") /\ ~Spend("reboot")
  BY <1>1, <1>3, <1>5, SpendType
<1>6. CASE Spend("fault") /\ ~Spend("reboot")
  BY <1>1, <1>6, SpendType
<1>7. CASE spent' = spent
  BY <1>1, <1>3, <1>7
<1> QED
  BY <1>2, <1>4, <1>5, <1>6, <1>7

LEMMA RestStep ==
    ASSUME Held, RestTypes, [Next]_vars
    PROVE  RestTypes'
<1>1. spent' \in [edit: Nat, fault: Nat, reboot: Nat]
  BY SpentStep DEF RestTypes
<1> DEFINE Others == /\ spec' \in Specs /\ own' \in [Files -> L!Labels] /\ busy' \subseteq Files
                     /\ lagged' \in BOOLEAN /\ taken' \in BOOLEAN
<1> SUFFICES Others
  BY <1>1 DEF RestTypes
<1>2. CASE ProvisionClass
  BY <1>2, ProvisionClassParts DEF ProvisionClass, RestTypes
<1>3. CASE UNCHANGED <<spec, own, busy, lagged, taken>>
  BY <1>3 DEF RestTypes
<1>4. CASE JobStart
  BY <1>4 DEF JobStart, RestTypes
<1>5. CASE \E d \in AutoDisks : CreateLoop(d)
  BY <1>5 DEF CreateLoop, RestTypes
<1>6. CASE EditSpec
  BY <1>6 DEF EditSpec, RestTypes
<1>7. ASSUME NEW f \in Files, CreateLv(f) \/ DeleteLv(f) PROVE Others
  BY <1>7 DEF CreateLv, DeleteLv, RestTypes
<1>8. \/ ProvisionClass \/ UNCHANGED <<spec, own, busy, lagged, taken>> \/ JobStart
      \/ (\E d \in AutoDisks : CreateLoop(d)) \/ EditSpec
      \/ \E f \in Files : CreateLv(f) \/ DeleteLv(f)
  <2>1. JobStep \/ JobDie \/ DaemonStep \/ DaemonDie =>
           \/ ProvisionClass \/ (\E d \in AutoDisks : CreateLoop(d))
           \/ UNCHANGED <<spec, own, busy, lagged, taken>>
    BY DEF JobStep, JobDie, KnownLoop, RecordUserLoop, JobCommit, DaemonStep, DaemonDie,
       DaemonOnly, ReadRecords, ListLoops, SetUpLoop, EndWalk, RetryLoops
  <2>2. CopyStatus \/ Reboot \/ UNCHANGED vars => UNCHANGED <<spec, own, busy, lagged, taken>>
    BY DEF CopyStatus, Reboot, vars
  <2> QED BY <2>1, <2>2 DEF Next
<1> HIDE DEF Others
<1> QED BY <1>2, <1>3, <1>4, <1>5, <1>6, <1>7, <1>8

(* Every step, under the part of the invariant that it needs.              *)
LEMMA HeldStep ==
    ASSUME Held, RestTypes, [Next]_vars
    PROVE  Held' /\ (AllTrue /\ ~Reboot => AllTrue')
<1>1. CASE JobStart
  BY <1>1, JobStartStep DEF RestTypes
<1>2. CASE JobStep
  <2>1. CASE JobCommit
    BY <2>1, JobEnds DEF JobCommit
  <2>2. CASE ProvisionClass
    BY <2>2, ProvisionClassStep DEF RestTypes
  <2> QED
    BY <1>2, <2>1, <2>2, KnownLoopStep, RecordUserLoopStep, CreateLoopStep DEF JobStep
<1>3. CASE JobDie
  BY <1>3, JobEnds DEF JobDie
<1>4. CASE Reboot
  BY <1>4, RebootStep
<1> QED
  BY <1>1, <1>2, <1>3, <1>4, DaemonSteps, OutsideSteps DEF Next

LEMMA InitIInv == Init => IInv
<1> SUFFICES ASSUME Init PROVE IInv
  OBVIOUS
<1>1. L!Raw \in L!Labels
  BY LabelsOfLvm
<1>2. RestTypes
  BY <1>1 DEF Init, RestTypes
<1> QED BY <1>2, InitHeld DEF IInv

LEMMA NextIInv == IInv /\ [Next]_vars => IInv'
<1> SUFFICES ASSUME IInv, [Next]_vars PROVE IInv'
  OBVIOUS
<1>1. spent'.reboot = 0 => spent.reboot = 0 /\ ~Reboot
  BY SpentStep DEF IInv, RestTypes
<1>2. Held' /\ (AllTrue /\ ~Reboot => AllTrue') /\ RestTypes'
  BY HeldStep, RestStep DEF IInv
<1> QED BY <1>1, <1>2 DEF IInv

THEOREM InductiveInvariant == Spec => []IInv
BY InitIInv, NextIInv, PTL DEF Spec

(* Every variable keeps its type, whatever fails and however often the     *)
(* node is rebooted: LVM's wrappers leave labels that LVM knows, and a run *)
(* never names more files than there are.                                  *)
THEOREM TypeCorrect == Spec => []TypeOK
<1>1. IInv => TypeOK
  BY DEF IInv, Held, LoopTypes, RestTypes, TypeOK
<1> QED BY <1>1, InductiveInvariant, PTL

(* No file is ever behind two loop devices, after reboots and with copies  *)
(* that are behind too: a file that has a name has one device for good.    *)
THEOREM OneDeviceAlways == Spec => []OneDevice
<1>1. ASSUME IInv, NEW l \in Loops, NEW m \in Loops,
             attached[l] = attached[m], attached[l] # NoFile
      PROVE  l = m
  <2>1. attached[l] \in Files
    BY <1>1 DEF IInv, Held, LoopTypes
  <2>2. Tied(attached[l], l) /\ Tied(attached[l], m)
    BY <1>1 DEF Tied, Attaches
  <2> QED BY <1>1, <2>1, <2>2 DEF IInv, Held, TiedInv
<1>2. IInv => OneDevice
  BY <1>1 DEF OneDevice
<1> QED BY <1>2, InductiveInvariant, PTL

(* Until the first reboot every complete record names the device that its  *)
(* file is attached to, in the ConfigMap and in everyone's copy.           *)
THEOREM RecordsTrueAlways == Spec => []RecordsTrue
<1>1. IInv => RecordsTrue
  BY DEF IInv, AllTrue, True, RecordsTrue
<1> QED BY <1>1, InductiveInvariant, PTL
-----------------------------------------------------------------------------
(* No lost loop devices.                                                   *)

Recorded(loops, f) == \E d \in LoopDisks : loops[d] # NoRecord /\ loops[d].file = f

UsersFile(f) == \E u \in UserDisks : UserLoop[u].file = f

Covers(loops) ==
    \A l \in Loops : attached[l] # NoFile => Recorded(loops, attached[l]) \/ UsersFile(attached[l])

(* The run's list of loops, or the ConfigMap's between runs, accounts for  *)
(* every file that is attached.                                            *)
LeakInv ==
    ~lagged /\ spent.fault = 0 /\ spent.reboot = 0
    => Covers(IF job.at = "idle" THEN cm.loops ELSE job.loops)

(* A run adds the record of what it attaches, and replaces none.           *)
LEMMA CoversMore ==
    ASSUME NEW d \in LoopDisks, job.loops[d] = NoRecord, NEW r \in Records,
           job'.loops[d] = r,
           \A e \in LoopDisks \ {d} : job'.loops[e] = job.loops[e],
           \A l \in Loops : attached'[l] = attached[l] \/ attached'[l] = r.file,
           Covers(job.loops)
    PROVE  Covers(job.loops)'
<1>1. r # NoRecord
  BY LoopAssumption
<1> SUFFICES ASSUME NEW l \in Loops, attached'[l] # NoFile
             PROVE  Recorded(job'.loops, attached'[l]) \/ UsersFile(attached'[l])
  BY DEF Covers, Recorded, UsersFile
<1>2. CASE attached'[l] = r.file
  BY <1>1, <1>2 DEF Recorded
<1>3. CASE attached'[l] = attached[l]
  <2>1. Recorded(job.loops, attached[l]) \/ UsersFile(attached[l])
    BY <1>3 DEF Covers
  <2>2. CASE UsersFile(attached[l])
    BY <1>3, <2>2
  <2>3. CASE Recorded(job.loops, attached[l])
    <3>1. PICK e \in LoopDisks : job.loops[e] # NoRecord /\ job.loops[e].file = attached[l]
      BY <2>3 DEF Recorded
    <3>2. e # d /\ job'.loops[e] = job.loops[e]
      BY <3>1
    <3> QED BY <1>3, <3>1, <3>2 DEF Recorded
  <2> QED BY <2>1, <2>2, <2>3
<1> QED BY <1>2, <1>3

LEMMA InitLeak == Init => LeakInv
<1> SUFFICES ASSUME Init, NEW l \in Loops, attached[l] # NoFile PROVE UsersFile(attached[l])
  BY DEF LeakInv, Covers
<1> DEFINE u == CHOOSE w \in UserDisks : UserLoop[w].dev = l
<1>1. /\ \E w \in UserDisks : UserLoop[w].dev = l
      /\ attached[l] = UserLoop[u].file
  BY DEF Init
<1>2. u \in UserDisks
  BY <1>1
<1> QED BY <1>1, <1>2 DEF UsersFile

LEMMA RunLeak ==
    ASSUME IInv, LeakInv, JobStep, ~lagged', spent.fault = 0, spent'.fault = 0,
           ~Spend("fault"), spent.reboot = 0
    PROVE  Covers(IF job.at = "idle" THEN cm.loops ELSE job.loops)'
<1>1. job \in Jobs /\ AllSettled
  BY DEF IInv, Held, LoopTypes
<1>2. lagged' = lagged /\ job.at # "idle"
  BY DEF JobStep, KnownLoop, RecordUserLoop, CreateLoop, ProvisionClass, JobCommit
<1>3. Covers(job.loops)
  BY <1>2 DEF LeakInv
<1>4. ASSUME NEW d \in LoopDisks, KnownLoop(d) PROVE Covers(job.loops)' /\ job'.at # "idle"
  <2>1. job'.loops = job.loops /\ job'.at = "loops" /\ attached' = attached
    BY <1>1, <1>4 DEF KnownLoop, Jobs
  <2> QED BY <1>3, <2>1 DEF Covers, Recorded, UsersFile
<1>5. ASSUME NEW d \in LoopDisks, RecordUserLoop(d) PROVE Covers(job.loops)' /\ job'.at # "idle"
  <2> DEFINE dev == UserLoop[d].dev
             r   == LoopState(attached[dev], dev)
  <2>1. /\ job.at = "loops" /\ d \in job.todo /\ d \in UserDisks /\ ~Created(job.loops[d])
        /\ Record(d, r) /\ attached' = attached
    BY <1>5 DEF RecordUserLoop
  <2>2. r \in Records
    <3>1. dev \in Loops /\ attached[dev] \in Files \cup {NoFile}
      BY <2>1, LoopAssumption DEF IInv, Held, LoopTypes
    <3> QED BY <3>1 DEF LoopState, Records
  <2>3. job.loops[d] = NoRecord
    BY <1>1, <2>1 DEF Created, AllSettled, Settled
  <2> HIDE DEF r
  <2>4. /\ job'.at = "loops"
        /\ \A e \in LoopDisks : job'.loops[e] = IF e = d THEN r ELSE job.loops[e]
    BY <2>1, <2>2, RecordStep DEF IInv
  <2> QED BY <1>3, <2>1, <2>2, <2>3, <2>4, CoversMore DEF IInv
<1>6. ASSUME NEW d \in AutoDisks, CreateLoop(d) PROVE Covers(job.loops)' /\ job'.at # "idle"
  <2> DEFINE r == LoopState(names', FirstFree)
  <2>1. /\ job.at = "loops" /\ d \in job.todo /\ d \in LoopDisks /\ job.loops[d] = NoRecord
        /\ names' \in Files /\ FirstFree \in Loops
        /\ attached' = [attached EXCEPT ![FirstFree] = names'] /\ Record(d, r)
    BY <1>6, CreateLoopParts DEF IInv
  <2>2. r \in Records /\ r.file = names'
    BY <2>1 DEF LoopState, Records
  <2> HIDE DEF r
  <2>3. /\ job'.at = "loops"
        /\ \A e \in LoopDisks : job'.loops[e] = IF e = d THEN r ELSE job.loops[e]
    BY <2>1, <2>2, RecordStep DEF IInv
  <2>4. \A l \in Loops : attached'[l] = attached[l] \/ attached'[l] = r.file
    BY <2>1, <2>2 DEF IInv, Held, LoopTypes
  <2> QED BY <1>3, <2>1, <2>2, <2>3, <2>4, CoversMore DEF IInv
<1>7. ASSUME ProvisionClass PROVE Covers(job.loops)' /\ job'.at # "idle"
  <2>1. PICK class \in ClassStates : job' = [job EXCEPT !.at = "commit", !.class = class]
    BY <1>7, ProvisionClassParts DEF IInv, RestTypes
  <2>2. job'.loops = job.loops /\ job'.at = "commit" /\ attached' = attached
    BY <1>1, <1>7, <2>1 DEF Jobs, ProvisionClass
  <2> QED BY <1>3, <2>2 DEF Covers, Recorded, UsersFile
<1>8. ASSUME JobCommit PROVE Covers(cm.loops)' /\ job'.at = "idle"
  <2>1. cm'.loops = job.loops /\ job'.at = "idle" /\ attached' = attached
    BY <1>8 DEF JobCommit, IdleJob
  <2> QED BY <1>3, <2>1 DEF Covers, Recorded, UsersFile
<1> QED BY <1>4, <1>5, <1>6, <1>7, <1>8 DEF JobStep

LEMMA NextLeak == IInv /\ LeakInv /\ [Next]_vars => LeakInv'
<1> SUFFICES ASSUME IInv, LeakInv, [Next]_vars, ~lagged', spent'.fault = 0, spent'.reboot = 0
             PROVE  Covers(IF job.at = "idle" THEN cm.loops ELSE job.loops)'
  BY DEF LeakInv
<1>1. spent.fault = 0 /\ spent.reboot = 0 /\ ~Reboot /\ ~Spend("fault") /\ AllTrue
  BY SpentStep DEF IInv, RestTypes
<1>2. CASE JobStep
  BY <1>1, <1>2, RunLeak
<1>3. CASE JobStart
  <2>1. copy = cm.loops /\ ~lagged /\ job.at = "idle" /\ attached' = attached
    BY <1>3 DEF JobStart
  <2>2. /\ job'.at = "loops" /\ job'.loops = copy
    <3>1. IdleJob \in Jobs /\ copy \in LoopStates
      BY NoRecords DEF IInv, Held, LoopTypes
    <3>2. job' = [IdleJob EXCEPT !.at = "loops", !.want = spec, !.loops = copy, !.todo = spec]
      BY <1>3 DEF JobStart, RecordedLoops
    <3> QED BY <3>1, <3>2 DEF Jobs
  <2>3. Covers(cm.loops)
    BY <1>1, <2>1 DEF LeakInv
  <2> QED BY <2>1, <2>2, <2>3 DEF Covers, Recorded, UsersFile
<1>4. CASE UNCHANGED <<attached, cm, job, lagged>>
  <2>1. Covers(IF job.at = "idle" THEN cm.loops ELSE job.loops)
    BY <1>1, <1>4 DEF LeakInv
  <2> QED BY <1>4, <2>1 DEF Covers, Recorded, UsersFile
<1>5. DaemonStep \/ DaemonDie => UNCHANGED <<attached, cm, job, lagged>>
  <2>1. ASSUME NEW d \in LoopDisks, SetUpLoop(d) PROVE attached' = attached
    BY <1>1, <2>1, SetUpLoopParts DEF IInv
  <2>2. DaemonStep \/ DaemonDie => DaemonOnly /\ (attached' = attached \/ \E d \in LoopDisks : SetUpLoop(d))
    BY DEF DaemonStep, DaemonDie, ReadRecords, ListLoops, SetUpLoop, EndWalk, RetryLoops
  <2> QED BY <2>1, <2>2 DEF DaemonOnly
<1>6. JobDie => FALSE
  BY <1>1 DEF JobDie
<1>7. \/ CopyStatus \/ EditSpec \/ UNCHANGED vars
      \/ \E f \in Files : CreateLv(f) \/ DeleteLv(f)
      => UNCHANGED <<attached, cm, job, lagged>>
  BY DEF CopyStatus, EditSpec, vars, CreateLv, DeleteLv
<1> QED BY <1>1, <1>2, <1>3, <1>4, <1>5, <1>6, <1>7 DEF Next

(* Without failures and reboots, and with runs that start from an          *)
(* up-to-date copy, no run creates a loop device that is there already:    *)
(* what is attached between runs has a record, or is a user's.             *)
THEOREM NoLeakedLoopAlways == Spec => []NoLeakedLoop
<1>1. ASSUME IInv, LeakInv, ~lagged, spent.fault = 0, spent.reboot = 0, job.at = "idle",
             NEW f \in FilesBehind(Loops)
      PROVE  Recorded(cm.loops, f) \/ UsersFile(f)
  <2>1. Covers(cm.loops)
    BY <1>1 DEF LeakInv
  <2>2. PICK l \in Loops : f = attached[l] /\ f # NoFile
    BY DEF FilesBehind
  <2> QED BY <2>1, <2>2 DEF Covers
<1>2. IInv /\ LeakInv => NoLeakedLoop
  BY <1>1 DEF NoLeakedLoop, Recorded, UsersFile
<1> QED BY <1>2, InductiveInvariant, InitLeak, NextLeak, PTL DEF Spec

-----------------------------------------------------------------------------
(* A class with logical volumes.                                           *)

(* A run that takes the class from the success classes has seen the group  *)
(* go.                                                                     *)
UsedInv ==
    job.at = "commit" /\ cm.class = "success" /\ job.class # "success"
    => \A f \in Files : own[f] # Vg

LEMMA NextUsed == IInv /\ UsedInv /\ [Next]_vars => UsedInv'
<1> SUFFICES ASSUME IInv, UsedInv, [Next]_vars PROVE UsedInv'
  OBVIOUS
<1>1. job \in Jobs
  BY DEF IInv, Held, LoopTypes
<1>2. CASE ProvisionClass
  <2>1. PICK class \in ClassStates :
          /\ job' = [job EXCEPT !.at = "commit", !.class = class]
          /\ cm.class = "success" /\ class # "success" => \A f \in Files : own'[f] # Vg
    BY <1>2, ProvisionClassParts DEF IInv, RestTypes
  <2>2. job'.class = class /\ cm' = cm
    BY <1>1, <1>2, <2>1 DEF Jobs, ProvisionClass
  <2> QED BY <2>1, <2>2 DEF UsedInv
<1>3. CASE UNCHANGED <<own, cm, job>>
  BY <1>3 DEF UsedInv
<1>4. CASE job'.at # "commit"
  BY <1>4 DEF UsedInv
<1>5. JobStart => job'.at = "loops"
  BY NoRecords DEF JobStart, IdleJob
<1>6. JobDie \/ JobCommit \/ Reboot => job'.at = "idle"
  BY DEF JobDie, JobCommit, Reboot, IdleJob
<1>7. \A d \in LoopDisks : KnownLoop(d) \/ RecordUserLoop(d) => job'.at = "loops"
  BY <1>1 DEF KnownLoop, RecordUserLoop, Record, Jobs
<1>8. \A d \in AutoDisks : CreateLoop(d) => job'.at = "loops"
  BY <1>1 DEF CreateLoop, Record, Jobs
<1>9. \/ DaemonStep \/ DaemonDie \/ CopyStatus \/ EditSpec \/ UNCHANGED vars
      \/ \E f \in Files : CreateLv(f) \/ DeleteLv(f)
      => UNCHANGED <<own, cm, job>>
  BY DEF DaemonStep, DaemonDie, DaemonOnly, ReadRecords, ListLoops, SetUpLoop, EndWalk,
     RetryLoops, CopyStatus, EditSpec, vars, CreateLv, DeleteLv
<1> QED BY <1>2, <1>3, <1>4, <1>5, <1>6, <1>7, <1>8, <1>9 DEF Next, JobStep

(* A class with logical volumes stays a success class through every run,   *)
(* between a reboot and the daemon's losetup too.                          *)
THEOREM UsedClassKeptAlways == Spec => UsedClassKept
<1>1. Init => UsedInv
  BY DEF Init, UsedInv, IdleJob
<1>2. ASSUME UsedInv, JobCommit, cm.class = "success",
             L!HasLogicalVolume(Node, L!Members(Node, Vg))
      PROVE  cm'.class = "success"
  <2>1. \E f \in Files : own[f] = Vg
    BY <1>2 DEF L!HasLogicalVolume, L!Members, Node
  <2>2. job.class = "success"
    BY <1>2, <2>1 DEF UsedInv, JobCommit
  <2> QED BY <1>2, <2>2 DEF JobCommit
<1>3. UsedInv => [JobCommit /\ cm.class = "success" /\ L!HasLogicalVolume(Node, L!Members(Node, Vg))
                   => cm'.class = "success"]_vars
  BY <1>2
<1> QED BY <1>1, <1>3, NextUsed, InductiveInvariant, PTL DEF Spec, UsedClassKept
=============================================================================
