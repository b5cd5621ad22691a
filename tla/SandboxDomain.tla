--------------------------- MODULE SandboxDomain ---------------------------
(***************************************************************************)
(* The business tables of one run of the commerce sandbox and the twelve   *)
(* command handlers of SandboxService                                      *)
(* (services/commerce_sandbox/.../service.py).  Each handler X is split in *)
(* CanX, the conjunction of all its DomainError checks, and the action X,  *)
(* its writes.  The enclosing execute() (receipts, idempotency, epochs) is *)
(* module CommerceSandbox.                                                 *)
(*                                                                         *)
(* Money is an integer number of cents (_quantize keeps two decimals), in  *)
(* the one currency of the run's only user.  Rows are numbered from 1 as   *)
(* _next_id does; 0 stands for a NULL id.  The points ledger is kept as    *)
(* the sums the code reads from it (per order and type), not row by row.   *)
(***************************************************************************)
EXTENDS Integers, Sequences, FiniteSets

CONSTANTS Runs,           \* the runs created: a scenario and the axes it exhibits
          Keys,           \* idempotency keys
          Balances,       \* initial balances a client may ask for
          Amounts,        \* monetary arguments, in cents
          PointAmounts,   \* arguments of redeem_points
          Quantities,     \* entitlement quantities
          Unit,           \* cents in one currency unit: one point is earned per unit
          MaxOrders, MaxCoupons, MaxMemberships, MaxRedeemed   \* bounds of the model

ASSUME ArgumentsAssumption ==
  /\ Balances \subseteq Nat /\ Amounts \subseteq Nat
  /\ PointAmounts \subseteq Nat /\ Quantities \subseteq Nat
ASSUME UnitAssumption == Unit \in Nat \ {0}

VARIABLES scenario,     \* RunSpace.scenario_type
          axes,         \* RunSpace.defect_axes
          user,         \* the TestUser row; user.exists = FALSE when there is none
          coupons,      \* Coupon rows
          orders,       \* Order rows, with the order's ledger sums
          refunds,      \* Refund rows
          redeemed,     \* sum of the REDEEM rows of the ledger, as a positive number
          memberships,  \* Membership rows
          entitlements, \* Entitlement rows
          events        \* BusinessEvent rows of the current epoch, by sequence

run       == <<scenario, axes>>
tables    == <<user, coupons, orders, refunds, redeemed, memberships, entitlements, events>>
domainVars == <<scenario, axes, user, coupons, orders, refunds, redeemed,
                memberships, entitlements, events>>

-----------------------------------------------------------------------------
Scenarios == {"PROMOTION", "REFUND_POINTS", "MEMBERSHIP_ENTITLEMENT"}

AXES_BY_SCENARIO ==
  [PROMOTION |-> {"COUPON_RESTORED_ON_REFUND", "REFUND_AGAINST_ORIGINAL", "REFUND_ACK_LOST"},
   REFUND_POINTS |-> {"POINTS_GRANTED_AGAIN_ON_REFUND", "POINTS_OVERREDEMPTION",
                      "REFUND_ACK_LOST"},
   MEMBERSHIP_ENTITLEMENT |-> {"FULL_REFUND_AFTER_CONSUMPTION",
                      "ENTITLEMENT_LEFT_AFTER_REFUND", "ENTITLEMENT_OVERCONSUMPTION"}]

TRANSPORT_DEFECT_AXES == {"REFUND_ACK_LOST"}

\* What a run may be created with: any axes its scenario can exhibit.  Absent axes mean every
\* business axis under "vulnerable" and none under "fixed"; both are among these sets.
Profiles(s) == SUBSET AXES_BY_SCENARIO[s]

RunSpace == UNION {[scenario : {s}, axes : Profiles(s)] : s \in Scenarios}

ASSUME RunsAssumption == Runs \subseteq RunSpace

Axis(x) == x \in axes

scenario_actions ==
  [PROMOTION |-> {"issue_coupon", "create_order", "apply_coupon", "pay_order",
                  "cancel_order", "refund_order"},
   REFUND_POINTS |-> {"create_order", "pay_order", "cancel_order", "refund_order",
                      "redeem_points"},
   MEMBERSHIP_ENTITLEMENT |-> {"activate_membership", "consume_entitlement",
                      "cancel_membership"}]

Supported(act) == act \in {"create_user", "inspect_state"} \cup scenario_actions[scenario]

OrderStatus == {"PENDING_PAYMENT", "PAID", "PARTIALLY_REFUNDED", "REFUNDED", "CANCELLED"}
CouponStatus == {"AVAILABLE", "RESERVED", "USED", "RESTORED"}
MembershipStatus == {"ACTIVE", "CANCELLED", "REFUNDED"}
EntitlementStatus == {"GRANTED", "PARTIALLY_CONSUMED", "CONSUMED", "REVOKED"}

User == [exists : BOOLEAN, balance : Int, points : Int, membership : {"INACTIVE", "ACTIVE"}]
Coupon == [face : Nat, threshold : Nat, status : CouponStatus,
           reserved : Nat, used : Nat, usage : Nat]
Order == [original : Nat, discount : Nat, paid : Nat, refunded : Nat, points : Nat,
          ledgerGrant : Nat, ledgerRevoke : Nat, status : OrderStatus, coupon : Nat]
Refund == [order : Nat, amount : Nat, key : Keys]
Membership == [paid : Nat, status : MembershipStatus]
Entitlement == [membership : Nat, granted : Nat, consumed : Nat, revoked : Nat,
                status : EntitlementStatus]
BusinessEventType ==
  {"USER_CREATED", "COUPON_ISSUED", "COUPON_RESERVED", "COUPON_USED", "COUPON_RESTORED",
   "ORDER_CREATED", "PAYMENT_CAPTURED", "ORDER_CANCELLED", "REFUND_ISSUED",
   "POINTS_GRANTED", "POINTS_REVOKED", "POINTS_REDEEMED", "MEMBERSHIP_ACTIVATED",
   "ENTITLEMENT_GRANTED", "ENTITLEMENT_CONSUMED", "ENTITLEMENT_REVOKED",
   "MEMBERSHIP_CANCELLED", "MEMBERSHIP_REFUNDED"}
\* id is the aggregate's row, or the order's for the points events of an order.
BusinessEvent == [type : BusinessEventType, id : Nat, amount : Nat, key : Keys]

NoUser == [exists |-> FALSE, balance |-> 0, points |-> 0, membership |-> "INACTIVE"]

EmptyTables ==
  /\ user = NoUser
  /\ coupons = <<>> /\ orders = <<>> /\ refunds = <<>>
  /\ redeemed = 0
  /\ memberships = <<>> /\ entitlements = <<>>
  /\ events = <<>>

-----------------------------------------------------------------------------
(* Helpers of the handlers. *)

Ev(type, id, amount, k) == [type |-> type, id |-> id, amount |-> amount, key |-> k]

Emit(new) == events' = events \o new

\* es when cond holds, and no event otherwise
When(cond, es) == IF cond THEN es ELSE <<>>

points_for(amount) == amount \div Unit

Lower(a, b) == IF a <= b THEN a ELSE b

available(e) == e.granted - e.consumed - e.revoked

RefundPoints == scenario = "REFUND_POINTS"
Promotion == scenario = "PROMOTION"

\* The points the order must have lost once `refunded` of it has been refunded.
target_revoke(o, refunded) ==
  IF refunded >= o.paid THEN o.points ELSE (o.points * refunded) \div o.paid

RevokeEachRounded(o, refunded) ==   \* mutant: every refund rounds its own share
  IF refunded >= o.paid THEN o.points - o.ledgerRevoke
  ELSE (o.points * (refunded - o.refunded)) \div o.paid

\* What _revoke_points takes back now.
revoke_delta(o, refunded) ==
  IF target_revoke(o, refunded) > o.ledgerRevoke
  THEN target_revoke(o, refunded) - o.ledgerRevoke ELSE 0

-----------------------------------------------------------------------------
(* Command handlers. *)

CanCreateUser(b) == ~user.exists

CreateUser(b, k) ==
  /\ user' = [exists |-> TRUE, balance |-> b, points |-> 0, membership |-> "INACTIVE"]
  /\ Emit(<<Ev("USER_CREATED", 1, 0, k)>>)
  /\ UNCHANGED <<coupons, orders, refunds, redeemed, memberships, entitlements>>

CanIssueCoupon(value, threshold) == user.exists /\ value > 0

IssueCoupon(value, threshold, k) ==
  /\ coupons' = Append(coupons, [face |-> value, threshold |-> threshold,
                                 status |-> "AVAILABLE", reserved |-> 0, used |-> 0,
                                 usage |-> 0])
  /\ Emit(<<Ev("COUPON_ISSUED", Len(coupons) + 1, 0, k)>>)
  /\ UNCHANGED <<user, orders, refunds, redeemed, memberships, entitlements>>

CanCreateOrder(amount) == user.exists /\ amount > 0

CreateOrder(amount, k) ==
  /\ orders' = Append(orders, [original |-> amount, discount |-> 0, paid |-> 0,
                               refunded |-> 0, points |-> 0, ledgerGrant |-> 0,
                               ledgerRevoke |-> 0, status |-> "PENDING_PAYMENT",
                               coupon |-> 0])
  /\ Emit(<<Ev("ORDER_CREATED", Len(orders) + 1, 0, k)>>)
  /\ UNCHANGED <<user, coupons, refunds, redeemed, memberships, entitlements>>

CanApplyAnyCoupon(o, c) ==   \* mutant: the coupon's status is not looked at
  /\ o \in DOMAIN orders /\ c \in DOMAIN coupons
  /\ orders[o].coupon = 0
  /\ orders[o].status = "PENDING_PAYMENT"
  /\ orders[o].original >= coupons[c].threshold

CanApplyCoupon(o, c) ==
  /\ o \in DOMAIN orders /\ c \in DOMAIN coupons
  /\ orders[o].coupon = 0
  /\ orders[o].status = "PENDING_PAYMENT"
  /\ coupons[c].status \in {"AVAILABLE", "RESTORED"}
  /\ orders[o].original >= coupons[c].threshold

ApplyCoupon(o, c, k) ==
  /\ orders' = [orders EXCEPT ![o] =
                  [@ EXCEPT !.discount = Lower(coupons[c].face, orders[o].original), !.coupon = c]]
  /\ coupons' = [coupons EXCEPT ![c] = [@ EXCEPT !.status = "RESERVED", !.reserved = o]]
  /\ Emit(<<Ev("COUPON_RESERVED", c, 0, k)>>)
  /\ UNCHANGED <<user, refunds, redeemed, memberships, entitlements>>

\* The coupon an order carries is still reserved for it.
HoldsCoupon(o) ==
  LET c == orders[o].coupon IN
  /\ c \in DOMAIN coupons
  /\ coupons[c].status = "RESERVED" /\ coupons[c].reserved = o

CanPayOrder(o) ==
  /\ o \in DOMAIN orders
  /\ orders[o].status = "PENDING_PAYMENT"
  /\ orders[o].original - orders[o].discount > 0
  /\ user.balance >= orders[o].original - orders[o].discount
  /\ orders[o].coupon # 0 => HoldsCoupon(o)

PayOrder(o, k) ==
  LET paid   == orders[o].original - orders[o].discount
      points == IF RefundPoints THEN points_for(paid) ELSE 0
      c      == orders[o].coupon
  IN
  /\ user' = [user EXCEPT !.balance = @ - paid, !.points = @ + points]
  /\ orders' = [orders EXCEPT ![o] =
                  [@ EXCEPT !.paid = paid, !.status = "PAID",
                            !.points = points, !.ledgerGrant = orders[o].ledgerGrant + points]]
  /\ coupons' = IF c = 0 THEN coupons
                ELSE [coupons EXCEPT ![c] =
                        [@ EXCEPT !.status = "USED", !.reserved = 0,
                                  !.used = o, !.usage = coupons[c].usage + 1]]
  /\ Emit(When(c # 0, <<Ev("COUPON_USED", c, 0, k)>>)
          \o <<Ev("PAYMENT_CAPTURED", o, paid, k)>>
          \o When(RefundPoints, <<Ev("POINTS_GRANTED", o, points, k)>>))
  /\ UNCHANGED <<refunds, redeemed, memberships, entitlements>>

CanCancelUnlessPaid(o) ==   \* mutant: refunded orders may be cancelled
  /\ o \in DOMAIN orders
  /\ orders[o].status \notin {"PAID", "PARTIALLY_REFUNDED"}

CanCancelOrder(o) ==
  /\ o \in DOMAIN orders
  /\ orders[o].status = "PENDING_PAYMENT"

CancelOrder(o, k) ==
  LET c       == orders[o].coupon
      restore == c # 0 /\ HoldsCoupon(o)
  IN
  /\ orders' = [orders EXCEPT ![o] = [@ EXCEPT !.status = "CANCELLED"]]
  /\ coupons' = IF restore
                THEN [coupons EXCEPT ![c] =
                        [@ EXCEPT !.status = "RESTORED", !.reserved = 0]]
                ELSE coupons
  /\ Emit(When(restore, <<Ev("COUPON_RESTORED", c, 0, k)>>)
          \o <<Ev("ORDER_CANCELLED", o, 0, k)>>)
  /\ UNCHANGED <<user, refunds, redeemed, memberships, entitlements>>

RefundableIgnoresRefunds(o) == orders[o].paid   \* mutant: every refund has the whole payment

\* refundable_amount
refundable(o) ==
  IF Promotion /\ Axis("REFUND_AGAINST_ORIGINAL")
  THEN orders[o].paid ELSE orders[o].paid - orders[o].refunded

\* POINTS_ALREADY_REDEEMED, raised by _revoke_points after the writes, undoes them all.
Revocable(o, amount) ==
  RefundPoints /\ ~Axis("POINTS_GRANTED_AGAIN_ON_REFUND") =>
    LET delta == revoke_delta(orders[o], orders[o].refunded + amount)
    IN delta = 0 \/ user.points >= delta

CanRefundOrder(o, amount) ==
  /\ o \in DOMAIN orders
  /\ orders[o].status \in {"PAID", "PARTIALLY_REFUNDED"}
  /\ amount > 0
  /\ amount <= refundable(o)
  /\ Revocable(o, amount)

\* mutant: the coupon comes back whatever the profile
AlwaysRestores(o, full) == Promotion /\ full /\ orders[o].coupon # 0

Restores(o, full) ==
  Promotion /\ full /\ orders[o].coupon # 0 /\ Axis("COUPON_RESTORED_ON_REFUND")

RefundOrder(o, amount, k) ==
  LET refunded == orders[o].refunded + amount
      full     == refunded >= orders[o].paid
      again    == RefundPoints /\ Axis("POINTS_GRANTED_AGAIN_ON_REFUND")
      extra    == IF again THEN points_for(amount) ELSE 0
      delta    == IF RefundPoints /\ ~again THEN revoke_delta(orders[o], refunded) ELSE 0
      c        == orders[o].coupon
      restore  == Restores(o, full)
  IN
  /\ user' = [user EXCEPT !.balance = @ + amount, !.points = @ + extra - delta]
  /\ orders' = [orders EXCEPT ![o] =
                  [@ EXCEPT !.refunded = refunded,
                            !.status = IF full THEN "REFUNDED" ELSE "PARTIALLY_REFUNDED",
                            !.ledgerGrant = orders[o].ledgerGrant + extra,
                            !.ledgerRevoke = orders[o].ledgerRevoke + delta]]
  /\ refunds' = Append(refunds, [order |-> o, amount |-> amount, key |-> k])
  /\ coupons' = IF restore
                THEN [coupons EXCEPT ![c] = [@ EXCEPT !.status = "AVAILABLE", !.used = 0]]
                ELSE coupons
  /\ Emit(<<Ev("REFUND_ISSUED", o, amount, k)>>
          \o When(again, <<Ev("POINTS_GRANTED", o, extra, k)>>)
          \o When(delta > 0, <<Ev("POINTS_REVOKED", o, delta, k)>>)
          \o When(restore, <<Ev("COUPON_RESTORED", c, 0, k)>>))
  /\ UNCHANGED <<redeemed, memberships, entitlements>>

CanRedeemPoints(p) ==
  /\ p > 0
  /\ user.exists
  /\ user.points >= p \/ (RefundPoints /\ Axis("POINTS_OVERREDEMPTION"))

RedeemOffLedger(p, k) ==   \* mutant: the ledger row is forgotten
  /\ user' = [user EXCEPT !.points = @ - p]
  /\ Emit(<<Ev("POINTS_REDEEMED", 1, p, k)>>)
  /\ UNCHANGED <<coupons, orders, refunds, redeemed, memberships, entitlements>>

RedeemPoints(p, k) ==
  /\ user' = [user EXCEPT !.points = @ - p]
  /\ redeemed' = redeemed + p
  /\ Emit(<<Ev("POINTS_REDEEMED", 1, p, k)>>)
  /\ UNCHANGED <<coupons, orders, refunds, memberships, entitlements>>

CanActivateAgain(price, q) ==   \* mutant: an active member may buy another membership
  user.exists /\ q > 0 /\ price > 0 /\ user.balance >= price

CanActivateMembership(price, q) ==
  /\ user.exists
  /\ q > 0 /\ price > 0
  /\ user.membership = "INACTIVE"
  /\ user.balance >= price

ActivateMembership(price, q, k) ==
  LET m == Len(memberships) + 1
      e == Len(entitlements) + 1
  IN
  /\ user' = [user EXCEPT !.balance = @ - price, !.membership = "ACTIVE"]
  /\ memberships' = Append(memberships, [paid |-> price, status |-> "ACTIVE"])
  /\ entitlements' = Append(entitlements, [membership |-> m, granted |-> q, consumed |-> 0,
                                           revoked |-> 0, status |-> "GRANTED"])
  /\ Emit(<<Ev("MEMBERSHIP_ACTIVATED", m, 0, k), Ev("ENTITLEMENT_GRANTED", e, q, k)>>)
  /\ UNCHANGED <<coupons, orders, refunds, redeemed>>

CanConsumeGranted(e, q) ==   \* mutant: earlier consumption is not subtracted
  /\ q > 0
  /\ e \in DOMAIN entitlements
  /\ entitlements[e].status \notin {"REVOKED", "CONSUMED"}
  /\ Axis("ENTITLEMENT_OVERCONSUMPTION") \/ q <= entitlements[e].granted

CanConsumeEntitlement(e, q) ==
  /\ q > 0
  /\ e \in DOMAIN entitlements
  /\ entitlements[e].status \notin {"REVOKED", "CONSUMED"}
  /\ Axis("ENTITLEMENT_OVERCONSUMPTION") \/ q <= available(entitlements[e])

ConsumeEntitlement(e, q, k) ==
  LET consumed == entitlements[e].consumed + q IN
  /\ entitlements' =
       [entitlements EXCEPT ![e] =
          [@ EXCEPT !.consumed = consumed,
                    !.status = IF consumed >= entitlements[e].granted
                               THEN "CONSUMED" ELSE "PARTIALLY_CONSUMED"]]
  /\ Emit(<<Ev("ENTITLEMENT_CONSUMED", e, q, k)>>)
  /\ UNCHANGED <<user, coupons, orders, refunds, redeemed, memberships>>

\* _entitlement_by_membership: a membership has one entitlement, e
CanCancelMembership(m, refund, e) ==
  /\ m \in DOMAIN memberships
  /\ e \in DOMAIN entitlements /\ entitlements[e].membership = m
  /\ memberships[m].status = "ACTIVE"
  /\ refund => entitlements[e].consumed = 0 \/ Axis("FULL_REFUND_AFTER_CONSUMPTION")

\* mutant: also revokes what is not left
RevokesNegative(e, refund) == ~(refund /\ Axis("ENTITLEMENT_LEFT_AFTER_REFUND"))

\* The entitlement loses what is left of it.
Revokes(e, refund) ==
  available(entitlements[e]) > 0 /\ ~(refund /\ Axis("ENTITLEMENT_LEFT_AFTER_REFUND"))

refund_anyway(m, refund) == memberships[m].paid   \* mutant: cancelling pays back as well

refund_amount(m, refund) == IF refund THEN memberships[m].paid ELSE 0

CancelMembership(m, refund, e, k) ==
  LET left   == available(entitlements[e])
      revoke == Revokes(e, refund)
      back   == refund_amount(m, refund)
  IN
  /\ user' = [user EXCEPT !.balance = @ + back, !.membership = "INACTIVE"]
  /\ memberships' = [memberships EXCEPT ![m] =
                       [@ EXCEPT !.status = IF refund THEN "REFUNDED" ELSE "CANCELLED"]]
  /\ entitlements' = IF revoke
                     THEN [entitlements EXCEPT ![e] =
                             [@ EXCEPT !.revoked = entitlements[e].revoked + left, !.status = "REVOKED"]]
                     ELSE entitlements
  /\ Emit(When(revoke, <<Ev("ENTITLEMENT_REVOKED", e, left, k)>>)
          \o <<Ev(IF refund THEN "MEMBERSHIP_REFUNDED" ELSE "MEMBERSHIP_CANCELLED", m, back, k)>>)
  /\ UNCHANGED <<coupons, orders, refunds, redeemed>>

\* _delete_state: the tables of reset_run.  Events and receipts of the old epoch stay in the
\* database but every later query filters on the new epoch.
DeleteState ==
  /\ user' = NoUser
  /\ coupons' = <<>> /\ orders' = <<>> /\ refunds' = <<>>
  /\ redeemed' = 0
  /\ memberships' = <<>> /\ entitlements' = <<>>
  /\ events' = <<>>

-----------------------------------------------------------------------------
(* The behaviours of the tables: accepted commands and resets, in any order. *)

Init ==
  /\ \E r \in Runs : scenario = r.scenario /\ axes = r.axes
  /\ EmptyTables

OrderCommand ==
  \/ \E a \in Amounts, k \in Keys :
       /\ Supported("create_order") /\ Len(orders) < MaxOrders
       /\ CanCreateOrder(a) /\ CreateOrder(a, k)
  \/ \E o \in DOMAIN orders, k \in Keys :
       Supported("pay_order") /\ CanPayOrder(o) /\ PayOrder(o, k)
  \/ \E o \in DOMAIN orders, k \in Keys :
       Supported("cancel_order") /\ CanCancelOrder(o) /\ CancelOrder(o, k)
  \/ \E o \in DOMAIN orders, a \in Amounts, k \in Keys :
       Supported("refund_order") /\ CanRefundOrder(o, a) /\ RefundOrder(o, a, k)

CouponCommand ==
  \/ \E v \in Amounts, t \in Amounts, k \in Keys :
       /\ Supported("issue_coupon") /\ Len(coupons) < MaxCoupons
       /\ CanIssueCoupon(v, t) /\ IssueCoupon(v, t, k)
  \/ \E o \in DOMAIN orders, c \in DOMAIN coupons, k \in Keys :
       Supported("apply_coupon") /\ CanApplyCoupon(o, c) /\ ApplyCoupon(o, c, k)

PointsCommand ==
  \E p \in PointAmounts, k \in Keys :
    /\ Supported("redeem_points") /\ redeemed + p <= MaxRedeemed
    /\ CanRedeemPoints(p) /\ RedeemPoints(p, k)

MembershipCommand ==
  \/ \E a \in Amounts, q \in Quantities, k \in Keys :
       /\ Supported("activate_membership") /\ Len(memberships) < MaxMemberships
       /\ CanActivateMembership(a, q) /\ ActivateMembership(a, q, k)
  \/ \E e \in DOMAIN entitlements, q \in Quantities, k \in Keys :
       Supported("consume_entitlement") /\ CanConsumeEntitlement(e, q)
         /\ ConsumeEntitlement(e, q, k)
  \/ \E m \in DOMAIN memberships, refund \in BOOLEAN, e \in DOMAIN entitlements, k \in Keys :
       Supported("cancel_membership") /\ CanCancelMembership(m, refund, e)
         /\ CancelMembership(m, refund, e, k)

Next ==
  /\ \/ \E b \in Balances, k \in Keys : CanCreateUser(b) /\ CreateUser(b, k)
     \/ OrderCommand
     \/ CouponCommand
     \/ PointsCommand
     \/ MembershipCommand
     \/ DeleteState
  /\ UNCHANGED run

Spec == Init /\ [][Next]_domainVars

-----------------------------------------------------------------------------
(* Properties *)

\* Type invariant of the tables.
TypeOK ==
  /\ scenario \in Scenarios /\ axes \in Profiles(scenario)
  /\ user \in User
  /\ coupons \in Seq(Coupon) /\ orders \in Seq(Order) /\ refunds \in Seq(Refund)
  /\ redeemed \in Nat
  /\ memberships \in Seq(Membership) /\ entitlements \in Seq(Entitlement)
  /\ events \in Seq(BusinessEvent)

\* _refund_order: whatever refunds were accepted, in whatever split, an order never gives back
\* more than it took, and it is REFUNDED exactly when everything it took is back, unless the
\* run carries the axis that refunds against the original amount.
RefundWithinPaid ==
  \A o \in DOMAIN orders :
    LET r == orders[o] IN
    /\ ~Axis("REFUND_AGAINST_ORIGINAL") => r.refunded <= r.paid
    /\ r.status \in {"PENDING_PAYMENT", "CANCELLED"} => r.paid = 0 /\ r.refunded = 0
    /\ r.status = "PAID" => r.paid > 0 /\ r.refunded = 0
    /\ r.status = "PARTIALLY_REFUNDED" => 0 < r.refunded /\ r.refunded < r.paid
    /\ r.status = "REFUNDED" => r.refunded >= r.paid /\ r.paid > 0

\* _apply_coupon, _pay_order, _cancel_order, _refund_order: a coupon that is not USED is unspent
\* and a USED one was spent once, on the one order it names, unless full refunds restore it.
CouponUsedOnce ==
  ~Axis("COUPON_RESTORED_ON_REFUND") =>
    \A c \in DOMAIN coupons :
      /\ coupons[c].usage = IF coupons[c].status = "USED" THEN 1 ELSE 0
      /\ coupons[c].status = "USED" =>
           /\ coupons[c].used \in DOMAIN orders
           /\ orders[coupons[c].used].coupon = c
           /\ orders[coupons[c].used].paid > 0

\* _pay_order raises COUPON_STATE_INVALID when the order's coupon is not reserved for it: that
\* error cannot occur, whatever other orders did with the coupon, in any profile.
PendingOrderHoldsItsCoupon ==
  \A o \in DOMAIN orders :
    orders[o].status = "PENDING_PAYMENT" /\ orders[o].coupon # 0 => HoldsCoupon(o)

\* _revoke_points works from the ledger's sum, not from the order: however a refund is split,
\* the points taken back are exactly those the refunded share earned, rounded down once.
PointsRevokedExactly ==
  ~Axis("POINTS_GRANTED_AGAIN_ON_REFUND") =>
    \A o \in DOMAIN orders :
      LET r == orders[o] IN
      /\ r.ledgerGrant = r.points
      /\ r.ledgerRevoke = IF r.paid = 0 THEN 0 ELSE target_revoke(r, r.refunded)

\* _redeem_points and _revoke_points between them never drive the balance below zero, unless
\* over-redemption is allowed.
PointsNeverNegative == ~Axis("POINTS_OVERREDEMPTION") => user.points >= 0

\* _consume_entitlement, _cancel_membership: nothing is consumed beyond the grant, and a
\* membership that ended leaves nothing to consume (no axis set).
EntitlementsSound ==
  /\ ~Axis("ENTITLEMENT_OVERCONSUMPTION") =>
       \A e \in DOMAIN entitlements : available(entitlements[e]) >= 0
  /\ axes \cap {"ENTITLEMENT_OVERCONSUMPTION", "ENTITLEMENT_LEFT_AFTER_REFUND"} = {} =>
       \A e \in DOMAIN entitlements :
         /\ entitlements[e].membership \in DOMAIN memberships
         /\ memberships[entitlements[e].membership].status # "ACTIVE" =>
              available(entitlements[e]) = 0
  /\ ~Axis("FULL_REFUND_AFTER_CONSUMPTION") /\ ~Axis("ENTITLEMENT_LEFT_AFTER_REFUND") =>
       \A e \in DOMAIN entitlements :
         memberships[entitlements[e].membership].status = "REFUNDED" =>
           entitlements[e].consumed = 0

\* The user's membership_status column and the Membership rows are written together: the user
\* is ACTIVE exactly when one membership is, so a second one can never be bought alongside it.
OneActiveMembership ==
  LET active == {m \in DOMAIN memberships : memberships[m].status = "ACTIVE"} IN
  /\ \A m, n \in active : m = n
  /\ (user.membership = "ACTIVE") <=> (active # {})

\* The rows of an order in a terminal status are never written again; only a reset removes them.
TerminalOrderFrozen ==
  [][\A o \in DOMAIN orders :
       orders[o].status \in {"CANCELLED", "REFUNDED"} =>
         (user'.exists => o \in DOMAIN orders' /\ orders'[o] = orders[o])]_domainVars

-----------------------------------------------------------------------------
(* The inductive invariant behind the properties above. *)

\* An order's coupon exists; it is reserved for a pending order and spent by a paid one.
CouponLinks ==
  \A o \in DOMAIN orders :
    LET c == orders[o].coupon IN
    c # 0 =>
      /\ c \in DOMAIN coupons
      /\ orders[o].status = "PENDING_PAYMENT" => HoldsCoupon(o)
      /\ orders[o].status \in {"PAID", "PARTIALLY_REFUNDED"} =>
           coupons[c].status = "USED" /\ coupons[c].used = o

\* An unpaid order has earned nothing, and no order earns points outside REFUND_POINTS.
PointsLinks ==
  \A o \in DOMAIN orders :
    /\ orders[o].paid = 0 =>
         orders[o].points = 0 /\ orders[o].ledgerGrant = 0 /\ orders[o].ledgerRevoke = 0
    /\ ~RefundPoints => orders[o].points = 0 /\ orders[o].ledgerGrant = 0
                        /\ orders[o].ledgerRevoke = 0

\* An entitlement row belongs to the membership of its own number, and its status tells what is
\* left of it.
EntitlementRow(e) ==
  LET r == entitlements[e] IN
  /\ r.membership = e /\ r.granted > 0
  /\ r.status \in {"GRANTED", "PARTIALLY_CONSUMED"} => r.consumed < r.granted /\ r.revoked = 0
  /\ r.status = "REVOKED" => available(r) = 0
  /\ r.status = "CONSUMED" => r.revoked = 0 /\ r.consumed >= r.granted
  /\ ~Axis("ENTITLEMENT_OVERCONSUMPTION") => r.consumed <= r.granted
  /\ memberships[e].status # "ACTIVE" /\ ~Axis("ENTITLEMENT_LEFT_AFTER_REFUND") =>
       r.status \in {"REVOKED", "CONSUMED"}
  /\ /\ memberships[e].status = "REFUNDED"
     /\ ~Axis("ENTITLEMENT_LEFT_AFTER_REFUND") /\ ~Axis("FULL_REFUND_AFTER_CONSUMPTION")
     => r.consumed = 0 /\ r.status = "REVOKED"

\* Memberships and entitlements come in pairs, and a run without a user has none.
EntitlementLinks ==
  /\ ~user.exists => memberships = <<>>
  /\ Len(memberships) = Len(entitlements)
  /\ \A e \in DOMAIN entitlements : EntitlementRow(e)

OrdersInv == RefundWithinPaid /\ CouponLinks /\ CouponUsedOnce
PointsInv == PointsLinks /\ PointsRevokedExactly /\ PointsNeverNegative
MembershipInv == EntitlementLinks /\ OneActiveMembership

IInv == TypeOK /\ OrdersInv /\ PointsInv /\ MembershipInv
=============================================================================
