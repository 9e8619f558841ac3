----------------------------- MODULE MCTtlCache -----------------------------
(***************************************************************************)
(* Instances of TtlCache for model checking.                               *)
(***************************************************************************)
EXTENDS TtlCache, TLC

Symmetry == Permutations(Readers)

=============================================================================
