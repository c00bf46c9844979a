--------------------- MODULE MCExecutionAuthorization ---------------------
(* Instances of ExecutionAuthorization for TLC. *)
EXTENDS ExecutionAuthorization, TLC

Symmetry == Permutations(Requests) \cup Permutations(Auths)
=============================================================================
