SPECIFICATION ReplaySpec
CONSTANTS
  None = None
  Runs <- MCRuns
  Rules <- MCRules
  Keys <- MCKeys
  max_steps = 6
  OpeningBalance = 12
  OpeningAmount = 5
  Balances = {12}
  Amounts = {1}
  PointAmounts = {1}
  Quantities = {1}
  Unit = 2
  MaxOrders = 6
  MaxCoupons = 6
  MaxMemberships = 6
  MaxRedeemed = 6
INVARIANTS
  PredictionsAccepted
  DivergenceExplained
  RulesKept
CHECK_DEADLOCK FALSE
