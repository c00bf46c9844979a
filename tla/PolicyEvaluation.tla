--------------------------- MODULE PolicyEvaluation ---------------------------
(***************************************************************************)
(* Which packages govern a request, and what their expressions make of it, *)
(* while packages are published, time passes and more becomes known about  *)
(* the request (policy_resolution_service.resolve and the evaluators of    *)
(* module Expressions).                                                    *)
(*                                                                         *)
(* Resolving and evaluating change nothing but the record they return:     *)
(* they are operators of the state, and what a record made now would say   *)
(* is stated of every state.                                               *)
(***************************************************************************)
EXTENDS Expressions, FiniteSets

CONSTANTS
  Approved,       \* approved packages, numbered in the order of their ids
  Domain,         \* policy_domain of each package, or its name
  Priority,       \* priority of each package, 100 if it states none
  Scope,          \* what its scope admits for each field, {} for anything
  Jurisdiction,   \* the field that a scope's jurisdictions restrict
  Version,        \* its dotted version, chunk by chunk
  NoDigit,        \* a chunk without a digit
  EffectiveAt,    \* the first instant it is effective
  ExpiresAt,      \* the first instant it no longer is
  MaxTime,        \* bound on the clock
  Fields,         \* paths of facts
  FactValues,     \* what each fact may turn out to be
  Criteria        \* expressions

ASSUME PackageAssumption ==
  /\ Approved \subseteq Nat /\ IsFiniteSet(Approved)
  /\ DOMAIN Domain = Approved
  /\ Priority \in [Approved -> Int]
  /\ \A p \in Approved :
       /\ Scope[p] \in [Fields -> SUBSET UNION {FactValues[f] : f \in Fields}]
       /\ Version[p] \in Seq(Nat \cup {NoDigit})
  /\ EffectiveAt \in [Approved -> Nat] /\ ExpiresAt \in [Approved -> Nat]
  /\ MaxTime \in Nat /\ Jurisdiction \in Fields

ASSUME CriteriaAssumption == \A e \in Criteria : IsExpression(e, Fields)

VARIABLES
  published,   \* packages whose status is PUBLISHED
  time,        \* the reference time: the clock, or the context's timestamp
  facts        \* what is known about the request

resolutionVars == <<published, time, facts>>

ResolutionInit ==
  /\ published = {}
  /\ time = 0
  /\ facts = [f \in Fields |-> Missing]

-----------------------------------------------------------------------------
(* Policy resolution *)

PassesDates(p) == EffectiveAt[p] <= time /\ time < ExpiresAt[p]

\* A dimension that is restricted needs a fact, and one that it admits.
PassesScope(p) ==
  \A f \in Fields : Scope[p][f] # {} => IsPresent(facts[f]) /\ facts[f] \in Scope[p][f]

\* The query returns a page of the 1000 oldest published packages, which is
\* taken to hold them all.
Candidates == {p \in published : PassesDates(p) /\ PassesScope(p)}

Group(d) == {p \in Candidates : Domain[p] = d}

VersionKey(p) ==
  IF Version[p] = << >> THEN <<0>>
  ELSE [i \in DOMAIN Version[p] |-> IF Version[p][i] = NoDigit THEN 0 ELSE Version[p][i]]

Specificity(p) == IF Scope[p][Jurisdiction] # {} THEN 1 ELSE 0

\* Tuples compare like words, and the version's numbers are negated.
NegatedVersionBefore(p, q) ==
  LET u == VersionKey(p)  v == VersionKey(q) IN
  \/ Len(u) < Len(v) /\ u = SubSeq(v, 1, Len(u))
  \/ \E i \in DOMAIN u \cap DOMAIN v :
       u[i] > v[i] /\ \A j \in 1 .. i - 1 : u[j] = v[j]

\* Mutant of SortsBefore: the version's numbers are not negated.
SortsBeforeOldest(p, q) ==
  \/ Priority[p] < Priority[q]
  \/ /\ Priority[p] = Priority[q]
     /\ \/ Specificity(p) > Specificity(q)
        \/ /\ Specificity(p) = Specificity(q)
           /\ \/ NegatedVersionBefore(q, p)
              \/ VersionKey(p) = VersionKey(q) /\ p < q

\* _resolution_sort_key.
SortsBefore(p, q) ==
  \/ Priority[p] < Priority[q]
  \/ /\ Priority[p] = Priority[q]
     /\ \/ Specificity(p) > Specificity(q)
        \/ /\ Specificity(p) = Specificity(q)
           /\ \/ NegatedVersionBefore(p, q)
              \/ VersionKey(p) = VersionKey(q) /\ p < q

Winner(d) == CHOOSE p \in Group(d) : \A q \in Group(d) \ {p} : SortsBefore(p, q)

Selected == {Winner(d) : d \in {Domain[p] : p \in Candidates}}

-----------------------------------------------------------------------------
(* What changes between two looks at a request *)

\* A package that is superseded or retired is again one that does not count:
\* the packages published at a time may be any.
Publish(p) ==
  /\ p \notin published
  /\ published' = published \cup {p}
  /\ UNCHANGED <<time, facts>>

Tick ==
  /\ time < MaxTime
  /\ time' = time + 1
  /\ UNCHANGED <<published, facts>>

\* An object that was absent is supplied, or a parameter of the intent.
Learn(f, v) ==
  /\ facts[f] = Missing
  /\ facts' = [facts EXCEPT ![f] = v]
  /\ UNCHANGED <<published, time>>

ResolutionNext ==
  \/ \E p \in Approved : Publish(p)
  \/ Tick
  \/ \E f \in Fields : \E v \in FactValues[f] : Learn(f, v)

ResolutionSpec == ResolutionInit /\ [][ResolutionNext]_resolutionVars

-----------------------------------------------------------------------------
(* Properties *)

TestsExistence(e) == \E i \in DOMAIN e : e[i].op \in ExistenceTests

\* What a criterion without existence tests has come to, a defect included,
\* it still comes to when more becomes known: INDETERMINATE is all that missing
\* facts can cause, through any connectives.
VerdictsStand ==
  [][facts' # facts =>
       \A e \in Criteria :
         Evaluate(e, facts) \notin {"INDETERMINATE", Evaluate(e, facts')}
           => TestsExistence(e)]_resolutionVars

\* On the same facts the two languages never contradict one another: where the
\* engine gives a definite answer and the interpreter an answer at all, it is
\* the same one, although they treat missing facts, types and the order of
\* operands differently.
EnginesAgree ==
  \A e \in Criteria :
    /\ Evaluate(e, facts) \in {"TRUE", "FALSE"}
    /\ Interpret(e, facts) \in {"TRUE", "FALSE"}
    => Interpret(e, facts) = Evaluate(e, facts)

\* The numeric value of a version's i-th chunk, beyond its end too.
Chunk(p, i) == IF i \in DOMAIN VersionKey(p) THEN VersionKey(p)[i] ELSE 0

HigherVersion(p, q) ==
  \E i \in DOMAIN VersionKey(p) :
    Chunk(p, i) > Chunk(q, i) /\ \A j \in 1 .. i - 1 : Chunk(p, j) = Chunk(q, j)

Preferable(p, q) ==
  \/ Priority[p] < Priority[q]
  \/ /\ Priority[p] = Priority[q]
     /\ \/ Specificity(p) > Specificity(q)
        \/ Specificity(p) = Specificity(q) /\ HigherVersion(p, q)

\* No candidate is preferable to the one selected in its domain by the order of
\* precedence that resolve documents (priority, jurisdiction, higher version),
\* unless the longer of two versions extends the other: then the sort key puts
\* the shorter one first, "1" ahead of "1.1".
PrecedenceUnlessExtended ==
  \A p \in Candidates, w \in Selected :
    Domain[p] = Domain[w] /\ Preferable(p, w) =>
      /\ Priority[p] = Priority[w] /\ Specificity(p) = Specificity(w)
      /\ Len(VersionKey(w)) < Len(VersionKey(p))
      /\ VersionKey(w) = SubSeq(VersionKey(p), 1, Len(VersionKey(w)))
=============================================================================
