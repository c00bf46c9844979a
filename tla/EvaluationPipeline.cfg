SPECIFICATION Spec
CONSTANTS
  r1 = r1
  r2 = r2
  i1 = i1
  i2 = i2
  c1 = c1
  c2 = c2
  c3 = c3
  Requirements = {r1, r2}
  Controls = {c1, c2, c3}
  Items = {i1, i2}
  RequirementsOf <- MCRequirementsOf
  ItemsOf <- MCItemsOf
  NamedBy <- MCNamedBy
  MandatoryControls = {c1, c2}
  MandatoryItems = {i1, i2}
  ManualItems = {}
  MinimumCardinality <- MCMinimumCardinality
  Expressed = {c1}
  Conditions <- MCConditions
  Workers = {w1, w2}
  Worlds <- MCWorlds
  Collections <- MCCollections
  Observations <- MCObservations
  MaxCalls = 4
SYMMETRY Symmetry
CHECK_DEADLOCK FALSE
INVARIANTS
  TypeOK
  ApprovedIsEarned
PROPERTIES
  CurrentUnlessDisturbed
