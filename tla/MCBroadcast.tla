---------------------------- MODULE MCBroadcast ----------------------------
(* Three nodes that are all neighbours, with one link left eager; the      *)
(* second message comes when the first can be under repair.                *)
EXTENDS Broadcast, TLC

CONSTANTS n1, n2, n3, m1, m2

Triangle == {{n1, n2}, {n2, n3}, {n1, n3}}
OneEager == {s \in SUBSET Triangle : Cardinality(s) = 2}
TwoMessages == (m1 :> 1 @@ m2 :> 4)
NodeSymmetry == Permutations(Node)
=============================================================================
