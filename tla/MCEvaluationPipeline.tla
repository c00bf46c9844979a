------------------------- MODULE MCEvaluationPipeline -------------------------
EXTENDS EvaluationPipeline, TLC

CONSTANTS r1, r2, i1, i2, c1, c2, c3

Symmetry == Permutations(Workers)

\* Two mandatory controls share an item; an optional one needs two entries of
\* another item.
MCRequirementsOf == c1 :> {r1} @@ c2 :> {r2} @@ c3 :> {r1, r2}
MCItemsOf == c1 :> {i1} @@ c2 :> {i1} @@ c3 :> {i2}
MCNamedBy == i1 :> {c1} @@ i2 :> {}
MCMinimumCardinality == i1 :> 1 @@ i2 :> 2

\* r1 has a condition, r2 is out of scope, or its facts are missing.
World(condition, criteria) ==
  r1 :> [criteria |-> "TRUE", condition |-> condition] @@
  r2 :> [criteria |-> criteria, condition |-> None]
MCWorlds == {World("FALSE", "FALSE"), World("TRUE", "INDETERMINATE")}

MCCollections ==
  {[i \in Items |-> None], [i \in Items |-> "VALID"], i1 :> "STALE" @@ i2 :> "VALID"}
MCObservations == {[c \in Controls |-> "TRUE"], [c \in Controls |-> "FALSE"]}

MCConditions == <<[verdict |-> "DENIED", terminal |-> TRUE],
                  [verdict |-> "APPROVED", terminal |-> FALSE],
                  [verdict |-> "ESCALATED", terminal |-> FALSE]>>
=============================================================================
