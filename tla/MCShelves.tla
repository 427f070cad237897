---------------------------- MODULE MCShelves ----------------------------
(* Two branches that differ in a tracked file; a second path is in neither, *)
(* and nor are the names of temporary copies.                               *)
EXTENDS Shelves, TLC

MCPaths == {"tracked", "new"} \cup Temps
MCFirstTip == [b \in Branches |-> [p \in Paths |-> IF p # "tracked" THEN Absent
                                                   ELSE IF b = FirstHead THEN 1 ELSE 2]]
Interchangeable == Permutations(Temps)
=============================================================================
