SPECIFICATION Spec
CONSTANTS
  Requests = {r1, r2, r3, r4}
  Auths = {a1, a2}
  Decisions = {d1, d2}
  Approved = {d1}
  Keys = {k1}
  None = None
  MaxTime = 1
SYMMETRY Symmetry
CHECK_DEADLOCK FALSE
INVARIANTS
  TypeOK
  SingleUseUnlessOverwritten
  SpentOrRevokedUnlessOverwritten
  RefusedFromExpiryOn
  ConsumedOnlyIfApproved
  ReplaysAgreeUnlessOvertaken
PROPERTIES
  ImplementsPermit
