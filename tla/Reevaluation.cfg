SPECIFICATION Spec
CONSTANTS
  Jobs = {j1, j2}
  PageSize = 1
  FirstDecisions = 1
  MaxDecisions = 3
  MaxAuthorizations = 2
  FirstProofs = 1
  MaxProofs = 3
CHECK_DEADLOCK FALSE
SYMMETRY Symmetry
INVARIANTS
  TypeOK
  ChainsSound
  ChainWholeUnlessForked
  CompletedIsWhole
