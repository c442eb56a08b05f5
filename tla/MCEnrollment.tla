---------------------------- MODULE MCEnrollment ----------------------------
(* Instances of Enrollment for TLC. *)
EXTENDS Enrollment, FiniteSets, TLC

\* Two photographs are too similar when they show the same look.
SameLook == {<<l, l>> : l \in Looks}

Symmetry == Permutations(Requests) \cup Permutations(Poses) \cup Permutations(Looks)
=============================================================================
