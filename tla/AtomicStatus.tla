---------------------------- MODULE AtomicStatus ----------------------------
(***************************************************************************)
(* What the two writers of the TopolvmCluster's status promise its reader  *)
(* (StatusSync): however late their copies, the status changes as if each  *)
(* of them read and wrote it in one step.                                  *)
(***************************************************************************)
CONSTANTS Nodes, Absent

VARIABLE status

ClassSets == {"empty", "unready", "ready"}

Phases == {"unset", "Ready", "Failure", "Unknown", "Pending"}

NodeStates == [phase: Phases, classes: ClassSets]

Init == status = [phase |-> "unset", nodes |-> [n \in Nodes |-> Absent]]

(* The classes of one node are recorded; its phase is open until the next  *)
(* assessment.                                                             *)
Record(n, classes) ==
    status' = [status EXCEPT !.nodes[n] = [phase |-> "unset", classes |-> classes]]

(* An assessment keeps every node and its classes, may add nodes, and only *)
(* calls a node Ready that has a Ready class, and then the cluster too.    *)
Assessed(new) ==
    \A n \in Nodes :
        /\ status.nodes[n] # Absent =>
             new.nodes[n] # Absent /\ new.nodes[n].classes = status.nodes[n].classes
        /\ status.nodes[n] = Absent /\ new.nodes[n] # Absent => new.nodes[n].classes = "empty"
        /\ new.nodes[n] # Absent /\ new.nodes[n].phase = "Ready" =>
             new.nodes[n].classes = "ready" /\ new.phase = "Ready"

Assess ==
    /\ status' \in [phase: {"Ready", "Failure"}, nodes: [Nodes -> NodeStates \cup {Absent}]]
    /\ Assessed(status')

Next == Assess \/ \E n \in Nodes, classes \in ClassSets : Record(n, classes)

Spec == Init /\ [][Next]_status

-----------------------------------------------------------------------------
(* A node that shows as Ready has a Ready class, and is in a cluster that  *)
(* shows as Ready.                                                         *)
ReadySound ==
    \A n \in Nodes :
        status.nodes[n] # Absent /\ status.nodes[n].phase = "Ready" =>
            status.nodes[n].classes = "ready" /\ status.phase = "Ready"
=============================================================================
