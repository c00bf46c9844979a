--------------------------- MODULE EvaluationRules ---------------------------
(***************************************************************************)
(* The rules of the evaluation pipeline, stage by stage: applicability of  *)
(* the requirements, determination of the controls, states of the evidence *)
(* items, their sufficiency, evaluation of the controls, assessment, and   *)
(* the decision conditions.  Each rule is the pure part of one service.    *)
(*                                                                         *)
(* The constants are the governing package's definitions.  Identifiers are *)
(* taken to be distinct across the selected packages, and at least one     *)
(* package to be selected (without one the decision is DENIED).            *)
(***************************************************************************)
EXTENDS Integers, FiniteSets

CONSTANTS
  Requirements, Controls, Items,  \* requirements, controls, evidence items
  RequirementsOf,      \* the requirement_ids of a control
  ItemsOf,             \* its evidence_requirement_ids
  NamedBy,             \* the control_ids an evidence item names
  MandatoryControls, MandatoryItems,
  ManualItems,         \* their validation_method is a manual review
  MinimumCardinality,
  Expressed,           \* controls with an evaluation_expression
  Conditions           \* decision conditions, in order of priority

None == "none"

\* What an expression comes to; "MALFORMED" stands for an ExpressionError.
TriState == {"TRUE", "FALSE", "INDETERMINATE"}
Outcome == {"APPROVED", "DENIED", "ESCALATED"}
ApplicabilityResult ==
  {"APPLICABLE", "NOT_APPLICABLE", "CONDITIONAL", "INDETERMINATE"}

\* Validation outcomes of evidence that is not VALID: INVALID stands for the
\* ones that fail a check of their own.
Failure == {"INDETERMINATE", "STALE", "INVALID"}

ASSUME PackageAssumption ==
  /\ RequirementsOf \in [Controls -> SUBSET Requirements]
  /\ ItemsOf \in [Controls -> SUBSET Items]
  /\ NamedBy \in [Items -> SUBSET Controls]
  /\ MandatoryControls \subseteq Controls /\ Expressed \subseteq Controls
  /\ MandatoryItems \subseteq Items /\ ManualItems \subseteq Items
  /\ MinimumCardinality \in [Items -> Nat]
  /\ IsFiniteSet(DOMAIN Conditions) /\ DOMAIN Conditions \subseteq Nat
  /\ \A i \in DOMAIN Conditions :
       Conditions[i] \in [verdict : Outcome, terminal : BOOLEAN]

-----------------------------------------------------------------------------
(* Applicability and controls *)

\* _derive_result for the two criteria of a requirement, None if it has none.
DeriveResult(criteria, condition) ==
  IF criteria = None THEN "APPLICABLE"
  ELSE IF criteria = "FALSE" THEN "NOT_APPLICABLE"
  ELSE IF criteria # "TRUE" THEN "INDETERMINATE"
  ELSE IF condition \in {None, "TRUE"} THEN "APPLICABLE"
  ELSE IF condition = "FALSE" THEN "CONDITIONAL" ELSE "INDETERMINATE"

\* The newest applicability results, None where a requirement has no row.
Results == [Requirements -> ApplicabilityResult \cup {None}]

\* _control_status: a control is left out only if every requirement of it has
\* been found NOT_APPLICABLE.
ControlStatus(c, results) ==
  LET statuses == {results[r] : r \in RequirementsOf[c]} IN
  IF "APPLICABLE" \in statuses THEN "APPLICABLE"
  ELSE IF "CONDITIONAL" \in statuses THEN "CONDITIONAL"
  ELSE IF statuses \cap {"INDETERMINATE", None} # {} THEN "INDETERMINATE"
  ELSE "EXCLUDED"

Included(results) == {c \in Controls : ControlStatus(c, results) # "EXCLUDED"}

-----------------------------------------------------------------------------
(* Evidence *)

\* The controls that refer to an item, or that it names.
Referencing(i) == NamedBy[i] \cup {c \in Controls : i \in ItemsOf[c]}

\* _evidence_state.
ItemState(i, results) ==
  LET statuses == {ControlStatus(c, results) : c \in Referencing(i)} IN
  IF "APPLICABLE" \in statuses
  THEN IF i \in MandatoryItems THEN "REQUIRED" ELSE "OPTIONAL"
  ELSE IF "CONDITIONAL" \in statuses THEN "CONDITIONAL"
  ELSE IF "INDETERMINATE" \in statuses THEN "UNRESOLVED" ELSE "NOT_REQUIRED"

\* The evidence plan has tasks for these items only.
Collectible(results) ==
  {i \in Items : ItemState(i, results) \notin {"UNRESOLVED", "NOT_REQUIRED"}}

\* What a package holds on an item: the outcome of its only entry, since the
\* evidence plan has one task for an item; None if there was no task for it.
Entry == {"VALID", None} \cup Failure
ValidCount(entry) == IF entry = "VALID" THEN 1 ELSE 0

\* Mutant of Sufficiency: an entry need not be valid.
SufficiencyOfAny(i, results, entry) ==
  IF ItemState(i, results) = "NOT_REQUIRED" THEN None
  ELSE IF ItemState(i, results) = "UNRESOLVED" THEN "NOT_EVALUABLE"
  ELSE IF i \in ManualItems THEN "MANUAL_REVIEW_REQUIRED"
  ELSE IF MinimumCardinality[i] <= 1 /\ entry # None THEN "SATISFIED"
  ELSE IF entry = None THEN "MISSING" ELSE "PARTIAL"

\* _requirement_status for an item of the set that a package was collected
\* for; None for an item that takes no part.
Sufficiency(i, results, entry) ==
  IF ItemState(i, results) = "NOT_REQUIRED" THEN None
  ELSE IF ItemState(i, results) = "UNRESOLVED" THEN "NOT_EVALUABLE"
  ELSE IF i \in ManualItems THEN "MANUAL_REVIEW_REQUIRED"
  ELSE IF ValidCount(entry) >= MinimumCardinality[i] THEN "SATISFIED"
  ELSE IF ValidCount(entry) > 0 THEN "PARTIAL"
  ELSE IF entry = None THEN "MISSING"
  ELSE IF entry = "INDETERMINATE" THEN "NOT_EVALUABLE" ELSE entry

-----------------------------------------------------------------------------
(* Controls, assessment, decision *)

\* _gate_on_sufficiency, given the statuses of the items the control refers
\* to; None lets the expression decide.
Gate(statuses) ==
  IF "MANUAL_REVIEW_REQUIRED" \in statuses THEN "MANUAL_REVIEW_REQUIRED"
  ELSE IF statuses \cap {None, "STALE", "NOT_EVALUABLE"} # {} THEN "NOT_EVALUABLE"
  ELSE IF statuses \cap {"MISSING", "INVALID", "PARTIAL"} # {} THEN "NOT_SATISFIED"
  ELSE None

\* What a control's expression comes to on the normalized evidence; "ERROR" if
\* it raises.  The expected value is always taken to be true.
Observation == {"TRUE", "FALSE", "ERROR"}

ControlResult(c, statuses, observed) ==
  IF Gate(statuses) # None THEN Gate(statuses)
  ELSE IF c \notin Expressed \/ observed = "TRUE" THEN "SATISFIED"
  ELSE IF observed = "FALSE" THEN "NOT_SATISFIED" ELSE "NOT_EVALUABLE"

\* _aggregate, of the results of the mandatory controls.
Assessment(controlResults) ==
  IF "MANUAL_REVIEW_REQUIRED" \in controlResults THEN "MANUAL_REVIEW_REQUIRED"
  ELSE IF "NOT_EVALUABLE" \in controlResults THEN "NOT_EVALUABLE"
  ELSE IF "NOT_SATISFIED" \in controlResults THEN "NOT_SATISFIED"
  ELSE "SATISFIED"

\* The matching conditions that are reached: none is behind a terminal one.
Triggered(matching) ==
  {i \in matching : \A j \in matching : Conditions[j].terminal => j >= i}

\* _evaluate_conditions: the last one reached gives the outcome.
ConditionOutcome(matching) ==
  IF matching = {} THEN None
  ELSE LET last == CHOOSE i \in Triggered(matching) :
                     \A j \in Triggered(matching) : j <= i
       IN Conditions[last].verdict

\* _resolve_outcome; authority is None where no package asks for it.
ResolveOutcome(condition, assessment, authority) ==
  IF condition = "DENIED" THEN "DENIED"
  ELSE IF assessment \in {"MANUAL_REVIEW_REQUIRED", "NOT_EVALUABLE"} THEN "ESCALATED"
  ELSE IF assessment = "NOT_SATISFIED"
  THEN IF condition = "ESCALATED" THEN "ESCALATED" ELSE "DENIED"
  ELSE IF condition = "APPROVED"
  THEN IF authority = "UNAVAILABLE" THEN "ESCALATED" ELSE "APPROVED"
  ELSE IF condition = "ESCALATED" THEN "ESCALATED" ELSE "DENIED"
=============================================================================
