SPECIFICATION GatedSpec
CONSTANTS
  Runs <- MCRuns
  Keys <- ThreeAttempts
  Modes = {TRUE}
  Environments <- PromptServer
  Requests <- AnyRequest
  max_attempts = 3
  Balances = {3}
  Amounts = {1, 3}
  PointAmounts = {1}
  Quantities = {1}
  Unit = 1
  MaxOrders = 1
  MaxCoupons = 0
  MaxMemberships = 0
  MaxRedeemed = 1
  MaxEpoch = 0
  MaxReceipts = 10
  MaxRejected = 3
INVARIANTS
  GateHoldsBudget
  NoFalseBlock
PROPERTIES
  ImplementsTicket
CHECK_DEADLOCK FALSE
