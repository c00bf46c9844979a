------------------------ MODULE MCGovernancePackage ------------------------
(* Instances of GovernancePackage for TLC. *)
EXTENDS GovernancePackage, TLC

Symmetry ==
  Permutations(Workers) \cup Permutations(Packages) \cup Permutations(Versions)
=============================================================================
