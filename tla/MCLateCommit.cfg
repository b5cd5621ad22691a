SPECIFICATION GatedSpec
CONSTANTS
  Runs <- MCRuns
  Keys <- TwoAttempts
  Modes = {TRUE}
  Environments <- LateServer
  Requests <- Refundable
  max_attempts = 2
  Balances = {3}
  Amounts = {1, 3}
  PointAmounts = {1}
  Quantities = {1}
  Unit = 1
  MaxOrders = 1
  MaxCoupons = 0
  MaxMemberships = 0
  MaxRedeemed = 1
  MaxEpoch = 0
  MaxReceipts = 9
  MaxRejected = 2
INVARIANT
  NoDuplicateRefund
CHECK_DEADLOCK FALSE
