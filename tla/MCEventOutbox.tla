--------------------------- MODULE MCEventOutbox ---------------------------
(* Instances of EventOutbox for TLC. *)
EXTENDS EventOutbox, TLC

Symmetry == Permutations(Workers) \cup Permutations(Calls)
=============================================================================
