SPECIFICATION Spec
CONSTANTS
  Runs <- MCRuns
  Keys = {k1}
  Balances <- MCBalances
  Amounts <- MCAmounts
  PointAmounts = {0, 1}
  Quantities = {0, 1, 2}
  Unit = 2
  MaxOrders = 2
  MaxCoupons = 1
  MaxMemberships = 2
  MaxRedeemed = 2
INVARIANTS
  TypeOK
  RefundWithinPaid
  CouponUsedOnce
  PendingOrderHoldsItsCoupon
  PointsRevokedExactly
  EntitlementsSound
  OneActiveMembership
  OracleAttribution
  BooksAgree
PROPERTIES
  MoneyConserved
  TerminalOrderFrozen
