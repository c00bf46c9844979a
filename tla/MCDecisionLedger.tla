------------------------- MODULE MCDecisionLedger -------------------------
(* Instances of DecisionLedger for TLC. *)
EXTENDS DecisionLedger, TLC

Symmetry == Permutations(Requests) \cup Permutations(Evaluations)
=============================================================================
