--------------------------- MODULE MCNodeStorage ---------------------------
(***************************************************************************)
(* Instances of NodeStorage for TLC: as in MCPrepareVg, with a class of    *)
(* two disks, of which one may be unplugged while LVM still lists the      *)
(* other.                                                                  *)
(***************************************************************************)
EXTENDS NodeStorage, TLC

CONSTANTS d1, d2, d3, v1, v2, a, b

MCDisks == {d1, d2, d3}
MCPair == {d1, d2}
MCVGs == {v1, v2}
MCOneVG == {v1}
MCClassNames == {a, b}
MCOneName == {a}

Class(name, devs, default) == [name |-> name, devs |-> devs, default |-> default]

Listed(classes) == [all |-> FALSE, classes |-> classes @@ NoClasses]

OnlyPair == {Listed(v1 :> Class(a, {d1, d2}, TRUE))}

PairGrows == OnlyPair \cup {Listed(v1 :> Class(a, {d1}, TRUE))}

PairAndB == {Listed(v1 :> Class(a, {d1, d2}, TRUE) @@ v2 :> Class(b, {d3}, FALSE))}

Blank == [own |-> [d \in Disks |-> Raw], busy |-> {}, gone |-> {}]

OnlyBlank == {Blank}

(* Disk d3 has a file system.                                              *)
ThirdUsed == {[Blank EXCEPT !.own = [d \in Disks |-> IF d = d3 THEN Used ELSE Raw]]}

NoConfigMap == {NoCm}
=============================================================================
