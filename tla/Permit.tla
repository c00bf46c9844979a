------------------------------- MODULE Permit -------------------------------
(***************************************************************************)
(* What an execution authorization promises its holders, apart from who    *)
(* asks, how a request is served and how a row is stored: a permit is      *)
(* granted, and then spent once, or withdrawn, or it lapses, and a lapsed  *)
(* one may still be withdrawn.  Nothing else happens to it, and a caller   *)
(* is told that it is spent when it is and never again.                    *)
(*                                                                         *)
(* The promise ends where two sessions collide on one row: the permit is   *)
(* then contested, for good, and callers may be told anything.             *)
(***************************************************************************)
EXTENDS Naturals

CONSTANT Permits

VARIABLES
  phase,   \* where each permit is in its life
  spends   \* how many callers were told that they have spent it

permitVars == <<phase, spends>>

Phases == {"none", "open", "spent", "withdrawn", "lapsed", "contested"}

PermitInit ==
  /\ phase = [p \in Permits |-> "none"]
  /\ spends = [p \in Permits |-> 0]

Become(p, from, to) ==
  /\ phase[p] \in from
  /\ phase' = [phase EXCEPT ![p] = to]

Grant(p) == Become(p, {"none"}, "open") /\ UNCHANGED spends

Spend(p) ==
  /\ Become(p, {"open"}, "spent")
  /\ spends' = [spends EXCEPT ![p] = @ + 1]

Withdraw(p) == Become(p, {"open", "lapsed"}, "withdrawn") /\ UNCHANGED spends

Lapse(p) == Become(p, {"open"}, "lapsed") /\ UNCHANGED spends

Contest(p) ==
  /\ Become(p, Phases \ {"none"}, "contested")
  /\ \E more \in {0, 1} : spends' = [spends EXCEPT ![p] = @ + more]

PermitNext ==
  \E p \in Permits : Grant(p) \/ Spend(p) \/ Withdraw(p) \/ Lapse(p) \/ Contest(p)

PermitSpec == PermitInit /\ [][PermitNext]_permitVars
=============================================================================
