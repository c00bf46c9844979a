---------------------------- MODULE MCRemediation ----------------------------
EXTENDS Remediation, TLC

Symmetry == Permutations(Workers)

Basis(prohibited, byPolicy, results, states, terminal, ineligible) ==
  [prohibited |-> prohibited, byPolicy |-> byPolicy, results |-> results,
   evidence |-> states, terminal |-> terminal, ineligible |-> ineligible]

\* A prohibited intent with a failed control; an escalation by policy, alone
\* and with a failed optional control, which its package makes ineligible for
\* remediation; a control left to manual review, and one that could not be
\* evaluated, which the package makes terminal.
MCBases ==
  {Basis(TRUE, FALSE, <<"NOT_SATISFIED">>, << >>, {}, {}),
   Basis(FALSE, TRUE, <<"SATISFIED">>, << >>, {}, {}),
   Basis(FALSE, TRUE, <<"SATISFIED", "NOT_SATISFIED">>, << >>, {},
         {"CONTROL_FAILURE"}),
   Basis(FALSE, FALSE, <<"MANUAL_REVIEW_REQUIRED", "NOT_EVALUABLE">>,
         <<"PRESENT">>, {"EVIDENCE_GAP"}, {})}
=============================================================================
