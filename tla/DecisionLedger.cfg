SPECIFICATION Spec
CONSTANTS
  Requests = {r1, r2, r3, r4}
  Evaluations = {e1, e2}
  MaxDecisions = 3
  MaxApprovals = 1
  None = None
SYMMETRY Symmetry
CHECK_DEADLOCK FALSE
INVARIANTS
  TypeOK
  LineageSound
  CurrentUniqueUnlessForked
  NewestStaysCurrent
  ConsumptionBacked
