-------------------------- MODULE MCRegularization --------------------------
(* Instances of Regularization for TLC. *)
EXTENDS Regularization, TLC

Symmetry == Permutations(Creates) \cup Permutations(Decisions)
=============================================================================
