---------------------------- MODULE MCPrepareVg ----------------------------
(***************************************************************************)
(* Instances of PrepareVg for TLC: three disks, two volume groups, two     *)
(* class names.                                                            *)
(***************************************************************************)
EXTENDS PrepareVg, TLC

CONSTANTS d1, d2, d3, v1, v2, a, b

MCDisks == {d1, d2, d3}
MCVGs == {v1, v2}
MCClassNames == {a, b}

Class(name, devs, default) == [name |-> name, devs |-> devs, default |-> default]

Listed(classes) == [all |-> FALSE, classes |-> classes @@ NoClasses]

(* Class a is always volume group v1 and class b volume group v2, and the  *)
(* specification has one default class: grow, shrink, replace a disk, add  *)
(* and remove a class, move the default.                                   *)
SpecA      == Listed(v1 :> Class(a, {d1}, TRUE))
SpecGrownA == Listed(v1 :> Class(a, {d1, d2}, TRUE))
SpecMovedA == Listed(v1 :> Class(a, {d2}, TRUE))
SpecAB     == Listed(v1 :> Class(a, {d1}, FALSE) @@ v2 :> Class(b, {d3}, TRUE))
SpecB      == Listed(v2 :> Class(b, {d3}, TRUE))

(* useAllDevices: the devices are not listed.                              *)
AllDevices == [all |-> TRUE, classes |-> (v1 :> Class(a, {}, TRUE)) @@ NoClasses]

FixedSpecs == {SpecA, SpecGrownA, SpecMovedA, SpecAB, SpecB, AllDevices}

(* The runs check the properties that depend on these.                     *)
ASSUME FixedSpecsAssumption ==
    NamesKeepGroups /\ GroupsKeepNames /\ OneDefault /\ DisjointDevices

Blank == [own |-> [d \in MCDisks |-> Raw], busy |-> {}, gone |-> {}]

(* Disk d3 has a file system.                                              *)
OneUsed == [Blank EXCEPT !.own = [Blank.own EXCEPT ![d3] = Used]]

(* A user has a volume group of the name class b asks for, with data.      *)
Foreign == [Blank EXCEPT !.own = [Blank.own EXCEPT ![d2] = v2], !.busy = {d2}]

AllNodes == {OneUsed, Foreign}

NoConfigMap == {NoCm}
=============================================================================
