------------------------------ MODULE MCMemMap ------------------------------
(* Instances of MemMap for TLC: the nodes are interchangeable.             *)
EXTENDS MemMap, TLC

NodeSymmetry == Permutations(Node)
=============================================================================
