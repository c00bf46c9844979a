---------------------------- MODULE FindingRules ----------------------------
(***************************************************************************)
(* What finding_service.generate_for_decision concludes from a decision    *)
(* and from the evaluation rows of its policy resolution.                  *)
(*                                                                         *)
(* A basis is what the rules read:                                         *)
(*   prohibited  the decision was denied by a (terminal) DENIED condition  *)
(*   byPolicy    its reason codes contain ESCALATED_BY_POLICY              *)
(*   results     the results of ALL control evaluations of the resolution, *)
(*               optional controls and earlier evaluations included        *)
(*   evidence    the requirement states of the latest sufficiency row      *)
(*   terminal    the finding types that the remediation blocks of its      *)
(*               packages make terminal                                    *)
(*   ineligible  those that they make ineligible for remediation           *)
(***************************************************************************)
EXTENDS Integers, Sequences

\* The packages can add to these types and take none away.
TerminalTypes(basis) == {"POLICY_PROHIBITION"} \cup basis.terminal

AlwaysIneligible == {"ESCALATION_APPROVAL_REQUIRED"}

IneligibleTypes(basis) ==
  TerminalTypes(basis) \cup AlwaysIneligible \cup basis.ineligible

\* Rule 2.  An unevaluable control whose reasons mention authority gives an
\* AUTHORITY_FAILURE, which is treated like an EVIDENCE_GAP from then on.
TypeOfControl == [NOT_SATISFIED |-> "CONTROL_FAILURE",
                  MANUAL_REVIEW_REQUIRED |-> "MANUAL_REVIEW",
                  NOT_EVALUABLE |-> "EVIDENCE_GAP"]

\* Rule 3.
TypeOfEvidence == [MISSING |-> "EVIDENCE_GAP", PARTIAL |-> "EVIDENCE_GAP",
                   INVALID |-> "INVALID_EVIDENCE", STALE |-> "INVALID_EVIDENCE"]

\* The findings a table of types gives for a sequence of states, one by one.
Raise(table, states) ==
  LET raised[i \in 0 .. Len(states)] ==
        IF i = 0 THEN << >>
        ELSE IF states[i] \in DOMAIN table
        THEN Append(raised[i - 1], table[states[i]]) ELSE raised[i - 1]
  IN raised[Len(states)]

Prohibition(basis) ==
  IF basis.prohibited THEN <<"POLICY_PROHIBITION">> ELSE << >>

Specific(basis) ==
  Prohibition(basis) \o Raise(TypeOfControl, basis.results)
                     \o Raise(TypeOfEvidence, basis.evidence)

\* Rule 4 and the fallback apply only when no other rule raised a finding.
Unspecific(basis) ==
  IF basis.byPolicy THEN "ESCALATION_APPROVAL_REQUIRED" ELSE "OTHER"

GeneratedTypes(basis) ==
  IF Specific(basis) # << >> THEN Specific(basis) ELSE <<Unspecific(basis)>>
=============================================================================
