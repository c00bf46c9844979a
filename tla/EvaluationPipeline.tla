-------------------------- MODULE EvaluationPipeline --------------------------
(***************************************************************************)
(* The evaluation of one policy resolution, from the facts to a decision.  *)
(* Each stage inserts immutable rows, and a later stage uses the newest    *)
(* row of an earlier one, recomputed first if what it was computed from is *)
(* no longer the newest (applicability_, control_determination_,           *)
(* evidence_requirement_, evidence_sufficiency_, control_evaluation_,      *)
(* assessment_ and decision_service).                                      *)
(*                                                                         *)
(* Workers serve one call at a time.  A call is a sequence of steps, each  *)
(* up to a commit, or to a read whose value is kept across one; what it    *)
(* has still to do is its agenda, to which a step may add.  Rows are       *)
(* numbered in the order of created_at.                                    *)
(***************************************************************************)
EXTENDS EvaluationRules, Sequences

CONSTANTS
  Workers,       \* threads that serve calls
  Worlds,        \* what the facts make of the requirements' criteria
  Collections,   \* what a collection may come upon, item by item
  Observations,  \* what the control expressions may come to on the evidence
  MaxCalls       \* bound on the calls served

ASSUME WorldAssumption ==
  /\ Worlds \subseteq
       [Requirements -> [criteria : TriState \cup {"MALFORMED", None},
                         condition : TriState \cup {"MALFORMED", None}]]
  /\ Collections \subseteq [Items -> Entry]
  /\ Observations \subseteq [Controls -> Observation]
  /\ MaxCalls \in Nat

VARIABLES
  world,         \* actor, intent, target and context as the criteria see them
  results,       \* newest applicability result of each requirement
  controlSets,   \* applicable control sets: the results each rests on
  evidenceSets,  \* evidence requirement sets: the control set each rests on
  packages,      \* evidence packages: evidence set, entries, observations
  sufficiency,   \* newest sufficiency record: the package it judges
  decision,      \* newest decision
  agenda,        \* of each worker
  derived,       \* results an applicability call has yet to record
  basis,         \* results a determination has read
  controlSet,    \* control set a call has obtained, 0 if none
  evidenceSet,   \* evidence set a call has obtained
  package,       \* package a call has read
  judged,        \* packages that its sufficiency records judge
  disturbed,     \* history: during whose decision a result or a package came
  calls          \* calls begun

rowVars == <<results, controlSets, evidenceSets, packages, sufficiency, decision>>
sessionVars == <<derived, basis, controlSet, evidenceSet, package, judged>>
vars == <<world, rowVars, agenda, sessionVars, disturbed, calls>>

NoResults == [r \in Requirements |-> None]

NoDecision ==
  [outcome |-> None, matching |-> {}, authority |-> None, controlSet |-> 0,
   reported |-> 0, counted |-> 0, observed |-> 0, bound |-> 0, disturbed |-> FALSE]

Init ==
  /\ world \in Worlds
  /\ results = NoResults
  /\ controlSets = << >> /\ evidenceSets = << >> /\ packages = << >>
  /\ sufficiency = 0
  /\ decision = NoDecision
  /\ agenda = [w \in Workers |-> << >>]
  /\ derived = [w \in Workers |-> NoResults]
  /\ basis = [w \in Workers |-> NoResults]
  /\ controlSet = [w \in Workers |-> 0]
  /\ evidenceSet = [w \in Workers |-> 0]
  /\ package = [w \in Workers |-> 0]
  /\ judged = [w \in Workers |-> << >>]
  /\ disturbed = {}
  /\ calls = 0

-----------------------------------------------------------------------------
(* Calls and their steps *)

Idle(w) == agenda[w] = << >>

Begin(w, steps) ==
  /\ Idle(w) /\ calls < MaxCalls
  /\ calls' = calls + 1
  /\ agenda' = [agenda EXCEPT ![w] = steps]

\* w is about to take the step of this name, and the step is done; or it puts
\* others before what is left.
At(w, step) == ~ Idle(w) /\ Head(agenda[w]) = step
Done(w) == agenda' = [agenda EXCEPT ![w] = Tail(@)]
First(w, steps) == agenda' = [agenda EXCEPT ![w] = steps \o Tail(@)]

\* The row that a step hands on to the next one of its call, if there is one.
HandOn(w, row) == IF Len(agenda[w]) > 1 THEN row ELSE 0

\* A result or a package has come while decisions are being computed.
Deciding(w) == ~ Idle(w) /\ agenda[w][Len(agenda[w])] = "decide"
Disturb == disturbed' = {w \in Workers : Deciding(w)}

\* PATCH of an actor, an intent, a target or a context.
Patch(new) ==
  /\ calls < MaxCalls /\ calls' = calls + 1
  /\ world' = new
  /\ UNCHANGED <<rowVars, agenda, sessionVars, disturbed>>

-----------------------------------------------------------------------------
(* Applicability *)

\* Mutant of Derived: a condition's value is taken as it is.
DerivedCondition(r) == world[r].condition

Derived(r) == DeriveResult(world[r].criteria, world[r].condition)

\* The facts are read once ...
EvaluateApplicability(w) ==
  /\ Begin(w, <<"record">>)
  /\ derived' = [derived EXCEPT ![w] = [r \in Requirements |-> Derived(r)]]
  /\ UNCHANGED <<world, rowVars, basis, controlSet, evidenceSet, package, judged,
                 disturbed>>

\* ... and one row is committed for each requirement.
Record(w, r) ==
  /\ At(w, "record")
  /\ derived[w][r] # None
  /\ results' = [results EXCEPT ![r] = derived[w][r]]
  /\ derived' = [derived EXCEPT ![w] = [@ EXCEPT ![r] = None]]
  /\ IF derived'[w] = NoResults THEN Done(w) ELSE UNCHANGED agenda
  /\ Disturb
  /\ UNCHANGED <<world, controlSets, evidenceSets, packages, sufficiency, decision,
                 basis, controlSet, evidenceSet, package, judged, calls>>

-----------------------------------------------------------------------------
(* Control determination *)

\* The endpoint determines anew, whatever there is.
Determine(w) ==
  /\ Begin(w, <<"readResults", "insertControls">>)
  /\ UNCHANGED <<world, rowVars, sessionVars, disturbed>>

\* Mutant of FreshControls: a record merely exists.
AnyControls == controlSets # << >>

\* determine_or_get_for_resolution: the newest set rests on the newest results.
FreshControls ==
  controlSets # << >> /\ controlSets[Len(controlSets)] = results

CheckControls(w) ==
  /\ At(w, "checkControls")
  /\ IF FreshControls
     THEN Done(w) /\ controlSet' = [controlSet EXCEPT ![w] = Len(controlSets)]
     ELSE First(w, <<"readResults", "insertControls">>) /\ UNCHANGED controlSet
  /\ UNCHANGED <<world, rowVars, derived, basis, evidenceSet, package, judged,
                 disturbed, calls>>

ReadResults(w) ==
  /\ At(w, "readResults")
  /\ Done(w)
  /\ basis' = [basis EXCEPT ![w] = results]
  /\ UNCHANGED <<world, rowVars, derived, controlSet, evidenceSet, package, judged,
                 disturbed, calls>>

InsertControls(w) ==
  /\ At(w, "insertControls")
  /\ Done(w)
  /\ controlSets' = Append(controlSets, basis[w])
  /\ controlSet' = [controlSet EXCEPT ![w] = HandOn(w, Len(controlSets'))]
  /\ basis' = [basis EXCEPT ![w] = NoResults]
  /\ UNCHANGED <<world, results, evidenceSets, packages, sufficiency, decision,
                 derived, evidenceSet, package, judged, disturbed, calls>>

-----------------------------------------------------------------------------
(* Evidence requirements and packages *)

\* The endpoint resolves anew, too.
Require(w) ==
  /\ Begin(w, <<"checkControls", "insertEvidence">>)
  /\ UNCHANGED <<world, rowVars, sessionVars, disturbed>>

InsertEvidence(w) ==
  /\ At(w, "insertEvidence")
  /\ Done(w)
  /\ evidenceSets' = Append(evidenceSets, controlSet[w])
  /\ evidenceSet' = [evidenceSet EXCEPT ![w] = HandOn(w, Len(evidenceSets'))]
  /\ controlSet' = [controlSet EXCEPT ![w] = 0]
  /\ UNCHANGED <<world, results, controlSets, packages, sufficiency, decision,
                 derived, basis, package, judged, disturbed, calls>>

\* start_collection: the newest evidence set is loaded, if there is one.
Collect(w) ==
  /\ Begin(w, IF evidenceSets = << >>
              THEN <<"checkControls", "insertEvidence", "package">>
              ELSE <<"checkControls", "compare", "package">>)
  /\ evidenceSet' = [evidenceSet EXCEPT ![w] = Len(evidenceSets)]
  /\ UNCHANGED <<world, rowVars, derived, basis, controlSet, package, judged,
                 disturbed>>

\* resolve_or_get_for_resolution: it is used if it rests on the newest control
\* set, which otherwise is obtained once more, for a new one.
CompareEvidence(w) ==
  /\ At(w, "compare")
  /\ IF evidenceSets[evidenceSet[w]] = controlSet[w]
     THEN Done(w) /\ UNCHANGED evidenceSet
     ELSE /\ First(w, <<"checkControls", "insertEvidence">>)
          /\ evidenceSet' = [evidenceSet EXCEPT ![w] = 0]
  /\ controlSet' = [controlSet EXCEPT ![w] = 0]
  /\ UNCHANGED <<world, rowVars, derived, basis, package, judged, disturbed, calls>>

ResultsOf(set) == controlSets[evidenceSets[set]]

\* What is collected is the subject of EvidenceCollection.
BuildPackage(w, found, observed) ==
  /\ At(w, "package")
  /\ Done(w)
  /\ \A i \in Items :
       found[i] # None => i \in Collectible(ResultsOf(evidenceSet[w]))
  /\ packages' = Append(packages, [set |-> evidenceSet[w], found |-> found,
                                   observed |-> observed])
  /\ evidenceSet' = [evidenceSet EXCEPT ![w] = 0]
  /\ Disturb
  /\ UNCHANGED <<world, results, controlSets, evidenceSets, sufficiency, decision,
                 derived, basis, controlSet, package, judged, calls>>

-----------------------------------------------------------------------------
(* Sufficiency *)

\* evaluate_or_get_for_resolution: the newest record judges the newest package.
CheckSufficiency(w) ==
  /\ At(w, "checkSufficiency")
  /\ IF sufficiency = Len(packages)
     THEN Done(w) /\ judged' = [judged EXCEPT ![w] = Append(@, sufficiency)]
     ELSE First(w, <<"readPackage", "insertSufficiency">>) /\ UNCHANGED judged
  /\ UNCHANGED <<world, rowVars, derived, basis, controlSet, evidenceSet, package,
                 disturbed, calls>>

\* latest_for_evaluation.
ReadPackage(w) ==
  /\ At(w, "readPackage")
  /\ Done(w)
  /\ package' = [package EXCEPT ![w] = Len(packages)]
  /\ UNCHANGED <<world, rowVars, derived, basis, controlSet, evidenceSet, judged,
                 disturbed, calls>>

InsertSufficiency(w) ==
  /\ At(w, "insertSufficiency")
  /\ Done(w)
  /\ sufficiency' = package[w]
  /\ judged' = [judged EXCEPT ![w] = Append(@, package[w])]
  /\ package' = [package EXCEPT ![w] = 0]
  /\ UNCHANGED <<world, results, controlSets, evidenceSets, packages, decision,
                 derived, basis, controlSet, evidenceSet, disturbed, calls>>

-----------------------------------------------------------------------------
(* Decision *)

\* decide_for_resolution; without a package it fails.  Two sufficiency records
\* are obtained, one by assess_for_resolution to report, and one by
\* control_evaluation_service to count on.
Decide(w) ==
  /\ packages # << >>
  /\ Begin(w, <<"checkSufficiency", "checkControls", "checkSufficiency",
                "readPackage", "decide">>)
  /\ UNCHANGED <<world, rowVars, sessionVars, disturbed>>

\* The statuses of the items a control refers to in the record on package p.
Statuses(c, p) ==
  {Sufficiency(i, ResultsOf(packages[p].set), packages[p].found[i]) : i \in ItemsOf[c]}

\* The results of the mandatory controls of a set, by the record on package p
\* and the evidence of package q.
MandatoryResults(set, p, q) ==
  {ControlResult(c, Statuses(c, p), packages[q].observed[c]) :
     c \in Included(controlSets[set]) \cap MandatoryControls}

\* The controls were evaluated on the package read before; the conditions and
\* the decision's hash are given the newest one anew.  Which conditions match
\* is not modelled, nor what the authority service answers, if asked and
\* available.
InsertDecision(w, matching, authority) ==
  /\ At(w, "decide")
  /\ Done(w)
  /\ LET condition == ConditionOutcome(matching)
         assessment ==
           Assessment(MandatoryResults(controlSet[w], judged[w][2], package[w]))
     IN decision' =
          [outcome |-> ResolveOutcome(condition, assessment, authority),
           matching |-> matching, authority |-> authority,
           controlSet |-> controlSet[w], reported |-> judged[w][1],
           counted |-> judged[w][2], observed |-> package[w],
           bound |-> Len(packages), disturbed |-> w \in disturbed]
  /\ controlSet' = [controlSet EXCEPT ![w] = 0]
  /\ package' = [package EXCEPT ![w] = 0]
  /\ judged' = [judged EXCEPT ![w] = << >>]
  /\ disturbed' = disturbed \ {w}
  /\ UNCHANGED <<world, results, controlSets, evidenceSets, packages, sufficiency,
                 derived, basis, evidenceSet, calls>>

\* A worker dies, or its call fails, between two commits.
Crash(w) ==
  /\ ~ Idle(w)
  /\ agenda' = [agenda EXCEPT ![w] = << >>]
  /\ derived' = [derived EXCEPT ![w] = NoResults]
  /\ basis' = [basis EXCEPT ![w] = NoResults]
  /\ controlSet' = [controlSet EXCEPT ![w] = 0]
  /\ evidenceSet' = [evidenceSet EXCEPT ![w] = 0]
  /\ package' = [package EXCEPT ![w] = 0]
  /\ judged' = [judged EXCEPT ![w] = << >>]
  /\ disturbed' = disturbed \ {w}
  /\ UNCHANGED <<world, rowVars, calls>>

Serve(w) ==
  \/ EvaluateApplicability(w)
  \/ \E r \in Requirements : Record(w, r)
  \/ Determine(w) \/ CheckControls(w) \/ ReadResults(w) \/ InsertControls(w)
  \/ Require(w) \/ InsertEvidence(w)
  \/ Collect(w) \/ CompareEvidence(w)
  \/ \E found \in Collections, observed \in Observations :
       BuildPackage(w, found, observed)
  \/ CheckSufficiency(w) \/ ReadPackage(w) \/ InsertSufficiency(w)
  \/ Decide(w)
  \/ \E matching \in SUBSET DOMAIN Conditions,
        authority \in {None, "UNAVAILABLE"} :
       InsertDecision(w, matching, authority)
  \/ Crash(w)

Next ==
  \/ \E w \in Workers : Serve(w)
  \/ \E new \in Worlds : Patch(new)

Spec == Init /\ [][Next]_vars

-----------------------------------------------------------------------------
(* Properties *)

Steps == {"record", "checkControls", "readResults", "insertControls",
          "insertEvidence", "compare", "package", "checkSufficiency",
          "readPackage", "insertSufficiency", "decide"}

TypeOK ==
  /\ world \in Worlds
  /\ results \in Results
  /\ controlSets \in Seq(Results)
  /\ evidenceSets \in Seq(DOMAIN controlSets)
  /\ packages \in Seq([set : DOMAIN evidenceSets, found : Collections,
                       observed : Observations])
  /\ sufficiency \in {0} \cup DOMAIN packages
  /\ decision.outcome \in Outcome \cup {None}
  /\ decision.matching \subseteq DOMAIN Conditions
  /\ decision.authority \in {None, "UNAVAILABLE"}
  /\ decision.controlSet \in {0} \cup DOMAIN controlSets
  /\ {decision.reported, decision.counted, decision.observed, decision.bound}
       \subseteq {0} \cup DOMAIN packages
  /\ decision.disturbed \in BOOLEAN
  /\ agenda \in [Workers -> Seq(Steps)]
  /\ derived \in [Workers -> Results] /\ basis \in [Workers -> Results]
  /\ controlSet \in [Workers -> {0} \cup DOMAIN controlSets]
  /\ evidenceSet \in [Workers -> {0} \cup DOMAIN evidenceSets]
  /\ package \in [Workers -> {0} \cup DOMAIN packages]
  /\ judged \in [Workers -> Seq(DOMAIN packages)]
  /\ disturbed \subseteq Workers
  /\ calls \in 0 .. MaxCalls

\* A mandatory control stands if it is not mandatory for want of applicable
\* requirements, or if every item of it is backed by enough valid evidence of
\* one package, no manual review and no open question among them.
Stands(c, set, p) ==
  \/ \A r \in RequirementsOf[c] : controlSets[set][r] = "NOT_APPLICABLE"
  \/ \A i \in ItemsOf[c] :
       /\ i \notin ManualItems
       /\ ValidCount(packages[p].found[i]) >= MinimumCardinality[i]
       /\ \E d \in Referencing(i) :
            \E r \in RequirementsOf[d] :
              ResultsOf(packages[p].set)[r] \in {"APPLICABLE", "CONDITIONAL"}

\* "APPROVED is only ever produced when an explicit decision condition allows
\* it and the assessment is SATISFIED" (decision_service.py:18): whichever rows
\* the stages of a decision have used and however old they were, an approval
\* rests on an approving condition that no terminal one precedes, on authority
\* that is not UNAVAILABLE, and on mandatory controls that stand, and whose
\* expressions hold.
ApprovedIsEarned ==
  decision.outcome = "APPROVED" =>
    /\ \E i \in decision.matching :
         /\ Conditions[i].verdict = "APPROVED"
         /\ \A j \in decision.matching : j < i => ~ Conditions[j].terminal
    /\ decision.authority # "UNAVAILABLE"
    /\ \A c \in MandatoryControls :
         /\ Stands(c, decision.controlSet, decision.counted)
         /\ c \in Expressed /\ c \in Included(controlSets[decision.controlSet])
              => packages[decision.observed].observed[c] = "TRUE"

\* A decision during which no result and no package has come rests on the
\* newest applicability results and on one package, the newest, for the
\* evidence it reports, counts on, observes and is bound to: no stage reuses a
\* row that is out of date, whatever calls have crashed or raced before.
CurrentUnlessDisturbed ==
  [][decision' # decision /\ ~ decision'.disturbed =>
       /\ controlSets[decision'.controlSet] = results
       /\ {decision'.reported, decision'.counted, decision'.observed,
           decision'.bound} = {Len(packages)}]_vars

\* "INDETERMINATE is never silently treated as NOT_APPLICABLE -- this is what
\* prevents missing context from silently producing approval downstream"
\* (applicability_service.py:14): a decision is not approved while the
\* applicability of a mandatory control is INDETERMINATE.
IndeterminateNotApproved ==
  decision.outcome = "APPROVED" =>
    \A c \in MandatoryControls :
      ControlStatus(c, controlSets[decision.controlSet]) # "INDETERMINATE"
=============================================================================
