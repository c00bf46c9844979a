--------------------------- MODULE MCReevaluation --------------------------
(* Instances of Reevaluation for TLC. *)
EXTENDS Reevaluation, TLC

Symmetry == Permutations(Jobs)
=============================================================================
