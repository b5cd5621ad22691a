SPECIFICATION CommerceSpec
CONSTANTS
  Runs <- MCRuns
  Keys = {k1, k2}
  Balances = {2}
  Amounts = {1, 2}
  PointAmounts = {1}
  Quantities = {1}
  Unit = 1
  MaxOrders = 1
  MaxCoupons = 1
  MaxMemberships = 1
  MaxRedeemed = 1
  MaxEpoch = 1
  MaxReceipts = 5
  MaxRejected = 1
SYMMETRY KeySymmetry
INVARIANTS
  EffectIffReceipt
  KeysUnique
  VersionCountsWrites
CHECK_DEADLOCK FALSE
