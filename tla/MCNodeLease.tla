---------------------------- MODULE MCNodeLease ----------------------------
(***************************************************************************)
(* Instances of NodeLease for model checking.                              *)
(***************************************************************************)
EXTENDS NodeLease, TLC

RightClocks == [n \in Nodes |-> 0]

Symmetry == Permutations(Nodes)
=============================================================================
