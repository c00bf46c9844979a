SPECIFICATION Spec
CONSTANTS
  Workers = {w1, w2}
  Bases <- MCBases
  MaxFindings = 2
  MaxPlans = 1
  MaxDispatches = 1
  MaxDecisions = 3
  MaxCalls = 5
SYMMETRY Symmetry
CHECK_DEADLOCK FALSE
INVARIANTS
  ApprovedOnEvidence
  ClosedIsDecided
  GeneratedOnceUnlessBroken
  CallbacksKeptUnlessRaced
PROPERTIES
  ClosedStaysUnlessOverwritten
