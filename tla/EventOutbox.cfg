SPECIFICATION FairSpec
CONSTANTS
  Calls = {c1, c2}
  Events = {v1}
  Channels = {ch1}
  Workers = {w1, w2}
  MaxAttempts = 2
  MaxRetries = 1
  MaxCrashes = 1
  None = None
CHECK_DEADLOCK FALSE
INVARIANTS
  TypeOK
  HandledOnceUnlessLoose
  BudgetUnlessRaced
PROPERTIES
  EventuallySettled
