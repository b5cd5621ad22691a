--------------------------- MODULE SandboxOracle ---------------------------
(***************************************************************************)
(* DeterministicOracle.evaluate (packages/oracle/.../evaluator.py) applied *)
(* to the evidence a sandbox run produces: the last snapshot of the tables *)
(* and the event log.  Well-formed evidence only: the branches that answer *)
(* INSUFFICIENT_EVIDENCE or NOT_APPLICABLE never report a violation.       *)
(* The rules in force are those the sandbox implements: one point per Unit *)
(* spent, points revoked on refund, membership refundable while unused.    *)
(***************************************************************************)
EXTENDS SandboxDomain, FiniteSetsExt

EventsOf(type, id) == {i \in DOMAIN events : events[i].type = type /\ events[i].id = id}
EventAmounts == [i \in DOMAIN events |-> events[i].amount]
EventTotal(type, id) == SumFunctionOnSet(EventAmounts, EventsOf(type, id))

\* _net_paid and _refund_limit reject the same orders
refund_limit == \A o \in DOMAIN orders : orders[o].refunded <= orders[o].paid

coupon_consumption ==
  \A c \in DOMAIN coupons :
    coupons[c].usage <= 1 /\ Cardinality(EventsOf("COUPON_USED", c)) <= 1

points_conservation ==
  RefundPoints =>
    /\ \A o \in DOMAIN orders :
         LET expected == orders[o].paid \div Unit
             revoked  == IF orders[o].paid > 0
                         THEN (expected * orders[o].refunded) \div orders[o].paid ELSE 0
         IN /\ orders[o].points = expected
            /\ EventTotal("POINTS_GRANTED", o) = expected
            /\ EventTotal("POINTS_REVOKED", o) = revoked
    /\ user.points >= 0

entitlement_non_negative == \A e \in DOMAIN entitlements : available(entitlements[e]) >= 0

\* refund_policy UNUSED_ONLY
entitlement_refund ==
  \A m \in DOMAIN memberships, e \in DOMAIN entitlements :
    entitlements[e].membership = m /\ memberships[m].status # "ACTIVE" =>
      /\ available(entitlements[e]) = 0
      /\ memberships[m].status = "REFUNDED" =>
           /\ entitlements[e].consumed = 0
           /\ \A i \in EventsOf("MEMBERSHIP_REFUNDED", m),
                 j \in EventsOf("ENTITLEMENT_CONSUMED", e) : j < i

-----------------------------------------------------------------------------
\* Which defect axes can make the Oracle report which invariant.  AXES_BY_SCENARIO and the
\* case labels of the benchmark rely on it: an environment presenting one defect must never
\* be scored against another's invariant, and one presenting only a lost acknowledgement
\* must satisfy them all.
OracleAttribution ==
  /\ refund_limit \/ Axis("REFUND_AGAINST_ORIGINAL")
  /\ coupon_consumption \/ Axis("COUPON_RESTORED_ON_REFUND")
  /\ points_conservation \/ Axis("POINTS_GRANTED_AGAIN_ON_REFUND")
       \/ Axis("POINTS_OVERREDEMPTION")
  /\ entitlement_non_negative \/ Axis("ENTITLEMENT_OVERCONSUMPTION")
  /\ entitlement_refund \/ axes \cap {"FULL_REFUND_AFTER_CONSUMPTION",
       "ENTITLEMENT_LEFT_AFTER_REFUND", "ENTITLEMENT_OVERCONSUMPTION"} # {}

\* Everything the user ever held: what is in the account, what orders still hold of what was
\* paid, and what memberships that were not refunded cost.
HeldByOrders == [o \in DOMAIN orders |-> orders[o].paid - orders[o].refunded]
HeldByMemberships ==
  [m \in DOMAIN memberships |->
     IF memberships[m].status = "REFUNDED" THEN 0 ELSE memberships[m].paid]
Wealth == user.balance + SumFunction(HeldByOrders) + SumFunction(HeldByMemberships)

\* No command after create_user creates or destroys money, in any profile: the defects move
\* it between the user and the shop, and every handler writes both sides.
MoneyConserved == [][user.exists /\ user'.exists => Wealth' = Wealth]_domainVars

RefundAmounts == [i \in DOMAIN refunds |-> refunds[i].amount]
RefundsOf(o) == {i \in DOMAIN refunds : refunds[i].order = o}
LedgerNet == [o \in DOMAIN orders |-> orders[o].ledgerGrant - orders[o].ledgerRevoke]

\* The three records of the same facts agree, in every profile: the Refund rows with the
\* orders' refunded_amount, the ledger with points_balance, and the events with the ledger.
BooksAgree ==
  /\ \A o \in DOMAIN orders :
       /\ orders[o].refunded = SumFunctionOnSet(RefundAmounts, RefundsOf(o))
       /\ EventTotal("REFUND_ISSUED", o) = orders[o].refunded
       /\ EventTotal("POINTS_GRANTED", o) = orders[o].ledgerGrant
       /\ EventTotal("POINTS_REVOKED", o) = orders[o].ledgerRevoke
  /\ user.points + redeemed = SumFunction(LedgerNet)
=============================================================================
