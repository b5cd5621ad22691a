------------------------- MODULE ReferenceSimulator -------------------------
(***************************************************************************)
(* ReferenceSimulator (packages/reference_simulator/.../simulator.py): the *)
(* pure model of the rules that the strategies search.  A SimulationState  *)
(* is a record and transition() a function of it, as in the code.  Events  *)
(* and codes are left out.                                                 *)
(*                                                                         *)
(* A rule's amounts keep four decimals: they are numbers of hundredths of  *)
(* a cent.  Everything else is a number of cents, an action's amounts      *)
(* included: both sides read them through _money, which rounds to cents.   *)
(* No offer names a currency, so every amount of an action is in CNY.      *)
(*                                                                         *)
(* A rule of the RuleSpec that is absent is None.  Rows are numbered from  *)
(* 1, as the ids "order-1", "order-2" are; 0 stands for no id.             *)
(***************************************************************************)
EXTENDS Integers, Sequences

CONSTANTS None,      \* a rule the specification does not have
          OpeningBalance, OpeningAmount   \* what legal_actions offers: 500.00 and 200.00

VARIABLES rule_spec, \* the rules the simulator was built with
          sim        \* the SimulationState

Currency == {"CNY", "USD"}

Fraction == 100   \* a cent in the units of a rule's amounts

\* Decimal division rounded half up
HalfUp(num, den) == (2 * num + den) \div (2 * den)

\* a rule's amount rounded to cents
money(amount) == HalfUp(amount, Fraction)

PromotionRule == [minimum : Nat, discount : Nat, currency : Currency, restore : BOOLEAN]
RefundRule == [partial : BOOLEAN, maximum : Nat \ {0}]
PointsRule == [spend : Nat \ {0}, granted : Nat, revoke : BOOLEAN]
MembershipRule == [price : Nat \ {0}, quantity : Nat \ {0},
                   policy : {"UNUSED_ONLY", "PRORATED", "NON_REFUNDABLE"}]

\* require_rules_for_scenario: the rules a scenario may have, and the one it must have
RuleSpec ==
  [scenario : {"PROMOTION"}, promotion : PromotionRule, refund : RefundRule \cup {None},
   points : {None}, membership : {None}]
  \cup [scenario : {"REFUND_POINTS"}, promotion : {None}, refund : RefundRule \cup {None},
        points : PointsRule, membership : {None}]
  \cup [scenario : {"MEMBERSHIP_ENTITLEMENT"}, promotion : {None}, refund : {None},
        points : {None}, membership : MembershipRule]

initial_state(spec) ==
  [scenario |-> spec.scenario,
   user |-> [exists |-> FALSE, balance |-> 0, points |-> 0, membership |-> "NONE"],
   coupons |-> <<>>, orders |-> <<>>, memberships |-> <<>>, entitlements |-> <<>>,
   seen |-> {}]

\* A SimAction.  Arguments an action does not have are 0 or FALSE.
SimAction(type, target) ==
  [type |-> type, target |-> target, coupon |-> 0, amount |-> 0, threshold |-> 0,
   quantity |-> 0, refund_requested |-> FALSE]

available(e) == e.granted - e.consumed - e.revoked

AtLeastZero(x) == IF x > 0 THEN x ELSE 0
Least(a, b) == IF a <= b THEN a ELSE b

-----------------------------------------------------------------------------
(* What the strategies are offered. *)

\* What is left of the payment, and one cent more.
refund_offers(s, o) ==
  LET left == s.orders[o].paid - s.orders[o].refunded IN
  IF s.orders[o].paid <= 0 THEN {}
  ELSE {[SimAction("refund_order", o) EXCEPT !.amount =
           IF left > 0 THEN left ELSE s.orders[o].paid],
        [SimAction("refund_order", o) EXCEPT !.amount = left + 1]}

OrderOffers(s) ==
  UNION {{SimAction("pay_order", o)} \cup refund_offers(s, o) : o \in DOMAIN s.orders}

PromotionOffers(s) ==
  {[SimAction("issue_coupon", 1) EXCEPT !.amount = money(rule_spec.promotion.discount),
                                        !.threshold = money(rule_spec.promotion.minimum)],
   [SimAction("create_order", 1) EXCEPT !.amount = money(rule_spec.promotion.minimum)]}
  \cup {[SimAction("apply_coupon", o) EXCEPT !.coupon = c] :
          o \in DOMAIN s.orders, c \in DOMAIN s.coupons}
  \cup OrderOffers(s)

PointsOffers(s) ==
  {[SimAction("create_order", 1) EXCEPT !.amount = OpeningAmount]}
  \cup OrderOffers(s)
  \cup {[SimAction("redeem_points", 1) EXCEPT !.amount = s.user.points],
        [SimAction("redeem_points", 1) EXCEPT !.amount = s.user.points + 1]}

MembershipOffers(s) ==
  {[SimAction("activate_membership", 1) EXCEPT !.amount = money(rule_spec.membership.price),
                                               !.quantity = rule_spec.membership.quantity]}
  \cup (UNION {{[SimAction("consume_entitlement", e) EXCEPT !.quantity = 1],
                [SimAction("consume_entitlement", e) EXCEPT !.quantity =
                   AtLeastZero(available(s.entitlements[e])) + 1]} : e \in DOMAIN s.entitlements})
  \cup {[SimAction("cancel_membership", m) EXCEPT !.refund_requested = TRUE] :
          m \in DOMAIN s.memberships}

legal_actions(s) ==
  IF ~s.user.exists THEN {[SimAction("create_user", 1) EXCEPT !.amount = OpeningBalance]}
  ELSE CASE s.scenario = "PROMOTION" -> PromotionOffers(s)
         [] s.scenario = "REFUND_POINTS" -> PointsOffers(s)
         [] s.scenario = "MEMBERSHIP_ENTITLEMENT" -> MembershipOffers(s)

-----------------------------------------------------------------------------
(* The handlers: a status and a state. *)

Result(status, s) == [status |-> status, state |-> s]
Reject(s) == Result("REJECTED", s)
Applied(s) == Result("APPLIED", s)
AppliedIf(cond, s, new) == IF cond THEN Applied(new) ELSE Reject(s)

do_create_user(s, a) ==
  AppliedIf(~s.user.exists, s,
    [s EXCEPT !.user = [exists |-> TRUE, balance |-> a.amount, points |-> 0,
                        membership |-> "NONE"]])

\* A coupon is in CNY, whatever the rule's currency, and refused unless they are the same.
do_issue_coupon(s, a) ==
  AppliedIf(/\ s.user.exists /\ rule_spec.promotion # None /\ a.amount > 0
            /\ rule_spec.promotion.currency = "CNY", s,
    [s EXCEPT !.coupons = Append(@, [face |-> a.amount, threshold |-> a.threshold,
                                     status |-> "AVAILABLE", reserved |-> 0, used |-> 0,
                                     usage |-> 0])])

do_create_order(s, a) ==
  AppliedIf(s.user.exists /\ a.amount > 0, s,
    [s EXCEPT !.orders = Append(@, [original |-> a.amount, discount |-> 0, paid |-> 0,
                                    refunded |-> 0, points |-> 0, revoked |-> 0,
                                    refunds |-> 0, status |-> "CREATED", coupon |-> 0])])

Applicable(o, c) ==
  /\ o.status = "CREATED" /\ o.coupon = 0
  /\ c.status = "AVAILABLE"
  /\ o.original >= c.threshold

do_apply_coupon(s, a) ==
  IF ~(a.target \in DOMAIN s.orders /\ a.coupon \in DOMAIN s.coupons) THEN Reject(s)
  ELSE AppliedIf(Applicable(s.orders[a.target], s.coupons[a.coupon]), s,
         [s EXCEPT !.orders[a.target].coupon = a.coupon,
                   !.orders[a.target].discount =
                     Least(s.coupons[a.coupon].face, s.orders[a.target].original),
                   !.coupons[a.coupon].status = "RESERVED",
                   !.coupons[a.coupon].reserved = a.target])

Earned(amount) ==
  IF rule_spec.points = None THEN 0
  ELSE ((amount * Fraction) \div rule_spec.points.spend) * rule_spec.points.granted

\* pay_order asks neither that something is left to pay nor that the coupon is still held.
do_pay_order(s, a) ==
  LET o       == s.orders[a.target]
      amount  == o.original - o.discount
      granted == Earned(amount)
      paid    == [s EXCEPT !.user.balance = @ - amount, !.user.points = @ + granted,
                           !.orders[a.target] = [o EXCEPT !.paid = amount,
                                                          !.points = granted,
                                                          !.status = "PAID"]]
  IN IF ~(a.target \in DOMAIN s.orders) THEN Reject(s)
     ELSE AppliedIf(o.status = "CREATED" /\ s.user.balance >= amount, s,
            IF o.coupon = 0 THEN paid
            ELSE [paid EXCEPT !.coupons[o.coupon] =
                    [@ EXCEPT !.status = "USED", !.used = a.target,
                              !.usage = s.coupons[o.coupon].usage + 1]])

PolicyIgnored(o, amount) == TRUE   \* mutant: the refund rule is not consulted

\* the RefundRule
Permitted(o, amount) ==
  rule_spec.refund # None =>
    /\ rule_spec.refund.partial \/ amount = o.paid - o.refunded
    /\ o.refunds < rule_spec.refund.maximum

RefundableEach(o, amount) ==   \* mutant: earlier refunds are not counted
  o.status \in {"PAID", "PARTIALLY_REFUNDED"} /\ amount > 0 /\ amount <= o.paid

Refundable(o, amount) ==
  /\ o.status \in {"PAID", "PARTIALLY_REFUNDED"}
  /\ amount > 0
  /\ o.refunded + amount <= o.paid

RevokeRoundedUp(o, total) ==   \* mutant: the share taken back is rounded up
  (o.points * total + o.paid - 1) \div o.paid

target_revoke(o, total) ==
  IF total = o.paid THEN o.points ELSE (o.points * total) \div o.paid

Restores(o, full) ==
  full /\ o.coupon # 0 /\ rule_spec.promotion # None /\ rule_spec.promotion.restore

\* target_revoke is only bound when the order earned points, and read whenever the rule
\* revokes: refunding an order that earned none raises UnboundLocalError, which transition()
\* does not catch.  CRASHED stands for it.
do_refund_order(s, a) ==
  LET o       == s.orders[a.target]
      total   == o.refunded + a.amount
      full    == total = o.paid
      revokes == rule_spec.points # None /\ rule_spec.points.revoke
      delta   == IF revokes /\ o.points # 0
                 THEN AtLeastZero(target_revoke(o, total) - o.revoked) ELSE 0
      back    == [s EXCEPT !.user.balance = @ + a.amount, !.user.points = @ - delta,
                           !.orders[a.target] =
                             [o EXCEPT !.refunded = total, !.refunds = @ + 1,
                                       !.revoked = IF revokes THEN target_revoke(o, total)
                                                   ELSE @,
                                       !.status = IF full THEN "REFUNDED"
                                                  ELSE "PARTIALLY_REFUNDED"]]
  IN IF ~(a.target \in DOMAIN s.orders) THEN Reject(s)
     ELSE IF ~(Refundable(o, a.amount) /\ Permitted(o, a.amount) /\ s.user.points >= delta)
     THEN Reject(s)
     ELSE IF revokes /\ o.points = 0 THEN Result("CRASHED", s)
     ELSE Applied(IF Restores(o, full)
                  THEN [back EXCEPT !.coupons[o.coupon] =
                          [@ EXCEPT !.status = "AVAILABLE", !.reserved = 0, !.used = 0]]
                  ELSE back)

do_redeem_points(s, a) ==
  AppliedIf(s.user.exists /\ a.amount > 0 /\ s.user.points >= a.amount, s,
    [s EXCEPT !.user.points = @ - a.amount])

\* The amount, rounded to cents, is compared with the price as the rule has it.
do_activate_membership(s, a) ==
  AppliedIf(/\ s.user.exists /\ rule_spec.membership # None /\ s.memberships = <<>>
            /\ a.amount * Fraction = rule_spec.membership.price
            /\ a.quantity = rule_spec.membership.quantity
            /\ s.user.balance >= a.amount, s,
    [s EXCEPT !.user.balance = @ - a.amount, !.user.membership = "ACTIVE",
              !.memberships = <<[paid |-> a.amount, status |-> "ACTIVE", refunded |-> 0]>>,
              !.entitlements = <<[membership |-> 1, granted |-> a.quantity, consumed |-> 0,
                                  revoked |-> 0]>>])

do_consume_entitlement(s, a) ==
  IF ~(a.target \in DOMAIN s.entitlements) THEN Reject(s)
  ELSE AppliedIf(a.quantity > 0 /\ available(s.entitlements[a.target]) >= a.quantity, s,
         [s EXCEPT !.entitlements[a.target].consumed = @ + a.quantity])

MembershipRefund(m, e, requested) ==
  CASE ~requested \/ rule_spec.membership.policy = "NON_REFUNDABLE" -> 0
    [] requested /\ rule_spec.membership.policy = "UNUSED_ONLY" -> m.paid
    [] requested /\ rule_spec.membership.policy = "PRORATED" ->
         HalfUp(m.paid * available(e), e.granted)

do_cancel_membership(s, a) ==
  LET m      == s.memberships[1]
      e      == s.entitlements[1]
      refund == MembershipRefund(m, e, a.refund_requested)
  IN IF s.memberships = <<>> \/ rule_spec.membership = None THEN Reject(s)
     ELSE AppliedIf(/\ m.status = "ACTIVE"
                    /\ ~(/\ a.refund_requested /\ e.consumed > 0
                         /\ rule_spec.membership.policy = "UNUSED_ONLY"), s,
            [s EXCEPT !.user.balance = @ + refund, !.user.membership = "INACTIVE",
                      !.memberships[1] =
                        [@ EXCEPT !.refunded = refund,
                                  !.status = IF refund # 0 THEN "REFUNDED" ELSE "CANCELLED"],
                      !.entitlements[1].revoked = @ + available(e)])

scenario_actions ==
  [PROMOTION |-> {"issue_coupon", "create_order", "apply_coupon", "pay_order",
                  "cancel_order", "refund_order"},
   REFUND_POINTS |-> {"create_order", "pay_order", "cancel_order", "refund_order",
                      "redeem_points"},
   MEMBERSHIP_ENTITLEMENT |-> {"activate_membership", "consume_entitlement",
                      "cancel_membership"}]

\* CANCEL_ORDER is in the table of actions but has no handler.
handler(s, a) ==
  CASE a.type = "create_user" -> do_create_user(s, a)
    [] a.type = "issue_coupon" -> do_issue_coupon(s, a)
    [] a.type = "create_order" -> do_create_order(s, a)
    [] a.type = "apply_coupon" -> do_apply_coupon(s, a)
    [] a.type = "pay_order" -> do_pay_order(s, a)
    [] a.type = "refund_order" -> do_refund_order(s, a)
    [] a.type = "redeem_points" -> do_redeem_points(s, a)
    [] a.type = "activate_membership" -> do_activate_membership(s, a)
    [] a.type = "consume_entitlement" -> do_consume_entitlement(s, a)
    [] a.type = "cancel_membership" -> do_cancel_membership(s, a)
    [] OTHER -> Result("UNSUPPORTED", s)

\* An action is keyed by `key`; 0 means it carries no idempotency key.
transition(s, a, key) ==
  IF a.type \notin {"create_user"} \cup scenario_actions[s.scenario]
  THEN Result("UNSUPPORTED", s)
  ELSE IF <<a.type, key>> \in s.seen THEN Applied(s)
  ELSE LET r == handler(s, a) IN
       IF r.status = "APPLIED" /\ key # 0
       THEN Applied([r.state EXCEPT !.seen = @ \cup {<<a.type, key>>}]) ELSE r

-----------------------------------------------------------------------------
\* What the rules promise, of the simulated world on its own: nothing is refunded beyond what
\* was paid, no coupon is spent twice unless the rule restores it, points, entitlements and
\* the balance never go below zero, and the points taken back follow the refunded share.
RulesKept ==
  /\ sim.user.balance >= 0 /\ sim.user.points >= 0
  /\ \A o \in DOMAIN sim.orders :
       LET r == sim.orders[o] IN
       /\ r.refunded <= r.paid
       /\ rule_spec.refund # None => r.refunds <= rule_spec.refund.maximum
       /\ r.refunded > 0 /\ rule_spec.points # None =>
            r.revoked = IF rule_spec.points.revoke THEN target_revoke(r, r.refunded) ELSE 0
  /\ rule_spec.promotion # None /\ ~rule_spec.promotion.restore =>
       \A c \in DOMAIN sim.coupons : sim.coupons[c].usage <= 1
  /\ \A e \in DOMAIN sim.entitlements :
       /\ available(sim.entitlements[e]) >= 0
       /\ sim.memberships[1].status # "ACTIVE" => available(sim.entitlements[e]) = 0
       /\ sim.memberships[1].refunded <= sim.memberships[1].paid
=============================================================================
