SPECIFICATION GateSpec
CONSTANTS
  Transactions = {1, 2}
  Amount <- MCAmount
  vendor = vendor
  acme = acme
  bank = bank
  Dimensions = {vendor}
  Trait <- MCTrait
  Sessions = {s1, s2, s3}
  PolicyIds = {1}
  Policies <- MCPolicies
  Unlimited = Unlimited
  NoValue = NoValue
  MaxDay = 1
SYMMETRY SessionSymmetry
CHECK_DEADLOCK FALSE
INVARIANTS
  LimitsUnlessBypassed
  RecordsTell
