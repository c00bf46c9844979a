SPECIFICATION Spec
CONSTANTS
  Workers = {w1, w2, w3}
  Packages = {p1, p2}
  Versions = {v1, v2}
  None = None
SYMMETRY Symmetry
INVARIANTS
  TypeOK
  UniquePublishedUnlessStale
  EffectiveIsApproved
