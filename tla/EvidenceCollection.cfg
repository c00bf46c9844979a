SPECIFICATION Spec
CONSTANTS
  Jobs = {j1}
  i1 = i1
  i2 = i2
  i3 = i3
  i4 = i4
  i5 = i5
  real = real
  twin = twin
  sim = sim
  Items = {i1, i2, i3, i4, i5}
  Connectors = {real, twin, sim}
  Serves <- MCServes
  Mock = {sim}
  Position <- MCPosition
  MaxAttempts <- MCMaxAttempts
  RetryOnTimeout = {real}
  MandatoryItems = {i1, i2}
  Binds <- MCBinds
  Sets <- MCSets
  Reports <- MCReports
  None = None
CHECK_DEADLOCK FALSE
INVARIANTS
  TypeOK
  NormalizedIsBacked
  PackageAccounts
PROPERTY
  EventuallyPackaged
