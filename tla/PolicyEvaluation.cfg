SPECIFICATION ResolutionSpec
CONSTANTS
  Approved = {1, 2, 3, 4, 5, 6}
  Domain <- MCDomain
  Priority <- MCPriority
  Scope <- MCScope
  jurisdiction = jurisdiction
  amount = amount
  Jurisdiction = jurisdiction
  Version <- MCVersion
  NoDigit = NoDigit
  EffectiveAt <- MCEffectiveAt
  ExpiresAt <- MCExpiresAt
  MaxTime = 1
  Fields = {jurisdiction, amount}
  FactValues <- MCFactValues
  Criteria <- MCCriteria
CHECK_DEADLOCK FALSE
INVARIANTS
  EnginesAgree
  PrecedenceUnlessExtended
PROPERTIES
  VerdictsStand
