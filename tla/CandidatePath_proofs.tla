------------------------ MODULE CandidatePath_proofs ------------------------
(***************************************************************************)
(* Proofs about a candidate path, from the search to the reported trace:   *)
(* the simulated world in which the strategies find it keeps the rules     *)
(* whatever they propose; where the sandbox does not follow the simulator, *)
(* the cause is one of those CandidateReplay lists; and minimisation       *)
(* returns a trace that was replayed, violates and is one-minimal, for     *)
(* traces of any length and whatever the replays answer.                   *)
(***************************************************************************)
EXTENDS CandidateReplay, Minimization, SandboxDomain_proofs

-----------------------------------------------------------------------------
(* The simulated world *)

SimActions == {"create_user", "issue_coupon", "create_order", "apply_coupon", "pay_order",
               "refund_order", "redeem_points", "activate_membership", "consume_entitlement",
               "cancel_membership"}
SimUser == [exists : BOOLEAN, balance : Nat, points : Nat,
            membership : {"NONE", "ACTIVE", "INACTIVE"}]
SimCoupon == [face : Nat, threshold : Nat, status : {"AVAILABLE", "RESERVED", "USED"},
              reserved : Nat, used : Nat, usage : Nat]
SimOrder == [original : Nat, discount : Nat, paid : Nat, refunded : Nat, points : Nat,
             revoked : Nat, refunds : Nat,
             status : {"CREATED", "PAID", "PARTIALLY_REFUNDED", "REFUNDED"}, coupon : Nat]
SimMembership == [paid : Nat, status : MembershipStatus, refunded : Nat]
SimEntitlement == [membership : Nat, granted : Nat, consumed : Nat, revoked : Nat]
SimState == [scenario : Scenarios, user : SimUser, coupons : Seq(SimCoupon),
             orders : Seq(SimOrder), memberships : Seq(SimMembership),
             entitlements : Seq(SimEntitlement), seen : SUBSET (SimActions \X Nat)]
Proposal == [type : SimActions, target : Nat, coupon : Nat, amount : Nat, threshold : Nat,
             quantity : Nat, refund_requested : BOOLEAN]

\* An order's refunds and the points taken back, as the rules have them.
SimOrderOK(r) ==
  /\ r.discount <= r.original
  /\ r.refunded <= r.paid /\ (r.refunded = 0 => r.revoked = 0)
  /\ r.status \in {"CREATED", "PAID"} => r.refunded = 0 /\ r.revoked = 0 /\ r.refunds = 0
  /\ rule_spec.refund # None => r.refunds <= rule_spec.refund.maximum
  /\ rule_spec.points # None =>
       IF rule_spec.points.revoke
       THEN r.refunded > 0 => r.revoked = Ref!target_revoke(r, r.refunded)
       ELSE r.revoked = 0

\* Where refunds do not restore coupons, a coupon is spent once.
Consumed == rule_spec.promotion # None /\ ~rule_spec.promotion.restore
SimCouponOK(c) == Consumed => c.usage = IF c.status = "USED" THEN 1 ELSE 0

\* A coupon is held by the order it is on until that order is refunded in full.
SimHolds(s, o) ==
  LET c == s.orders[o].coupon IN
  c # 0 /\ s.orders[o].status # "REFUNDED" =>
    /\ c \in DOMAIN s.coupons
    /\ IF s.orders[o].status = "CREATED"
       THEN s.coupons[c].status = "RESERVED" /\ s.coupons[c].reserved = o
       ELSE s.coupons[c].status = "USED" /\ s.coupons[c].used = o

\* There is one membership at most, with one entitlement.
SimMembershipOK(s) ==
  /\ Len(s.memberships) = Len(s.entitlements) /\ Len(s.memberships) <= 1
  /\ \A e \in DOMAIN s.entitlements :
       /\ s.entitlements[e].granted > 0 /\ Ref!available(s.entitlements[e]) >= 0
       /\ s.memberships[1].status # "ACTIVE" => Ref!available(s.entitlements[e]) = 0
       /\ s.memberships[1].refunded <= s.memberships[1].paid

SimInv(s) ==
  /\ rule_spec \in Ref!RuleSpec
  /\ s \in SimState /\ s.scenario = rule_spec.scenario
  /\ \A o \in DOMAIN s.orders : SimOrderOK(s.orders[o]) /\ SimHolds(s, o)
  /\ \A c \in DOMAIN s.coupons : SimCouponOK(s.coupons[c])
  /\ SimMembershipOK(s)

\* What the rules promise is part of it.
LEMMA SimKeepsRules ==
  ASSUME SimInv(sim)
  PROVE  RulesKept
<1>1. sim.user.balance >= 0 /\ sim.user.points >= 0
  BY DEF SimInv, SimState, SimUser
<1>2. ASSUME NEW o \in DOMAIN sim.orders
      PROVE  LET r == sim.orders[o] IN
             /\ r.refunded <= r.paid
             /\ rule_spec.refund # None => r.refunds <= rule_spec.refund.maximum
             /\ r.refunded > 0 /\ rule_spec.points # None =>
                  r.revoked = IF rule_spec.points.revoke THEN Ref!target_revoke(r, r.refunded) ELSE 0
  BY DEF SimInv, SimOrderOK
<1>3. ASSUME rule_spec.promotion # None /\ ~rule_spec.promotion.restore, NEW c \in DOMAIN sim.coupons
      PROVE  sim.coupons[c].usage <= 1
  BY <1>3 DEF SimInv, SimCouponOK, Consumed
<1>4. ASSUME NEW e \in DOMAIN sim.entitlements
      PROVE  /\ Ref!available(sim.entitlements[e]) >= 0
             /\ sim.memberships[1].status # "ACTIVE" => Ref!available(sim.entitlements[e]) = 0
             /\ sim.memberships[1].refunded <= sim.memberships[1].paid
  BY DEF SimInv, SimMembershipOK
<1> QED
  BY <1>1, <1>2, <1>3, <1>4 DEF RulesKept, Ref!RulesKept

\* The rules a specification has are well formed, and None is not one of them.
LEMMA RuleFields ==
  ASSUME rule_spec \in Ref!RuleSpec
  PROVE  /\ rule_spec.scenario \in Scenarios
         /\ rule_spec.refund \in Ref!RefundRule \cup {None}
         /\ rule_spec.refund # None => rule_spec.refund.maximum \in Nat \ {0}
         /\ rule_spec.points \in Ref!PointsRule \cup {None}
         /\ rule_spec.points # None => /\ rule_spec.points.spend \in Nat \ {0}
                                       /\ rule_spec.points.granted \in Nat
                                       /\ rule_spec.points.revoke \in BOOLEAN
         /\ rule_spec.promotion \in Ref!PromotionRule \cup {None}
         /\ rule_spec.promotion # None => rule_spec.promotion.restore \in BOOLEAN
         /\ rule_spec.membership \in Ref!MembershipRule \cup {None}
         /\ rule_spec.membership # None =>
              /\ rule_spec.membership.price \in Nat \ {0}
              /\ rule_spec.membership.quantity \in Nat \ {0}
              /\ rule_spec.membership.policy \in {"UNUSED_ONLY", "PRORATED", "NON_REFUNDABLE"}
<1>1. /\ rule_spec.scenario \in Scenarios
      /\ rule_spec.refund \in Ref!RefundRule \cup {None}
      /\ rule_spec.points \in Ref!PointsRule \cup {None}
      /\ rule_spec.promotion \in Ref!PromotionRule \cup {None}
      /\ rule_spec.membership \in Ref!MembershipRule \cup {None}
  BY DEF Ref!RuleSpec, Scenarios
<1> QED
  BY <1>1 DEF Ref!RefundRule, Ref!PointsRule, Ref!PromotionRule, Ref!MembershipRule

LEMMA SimInit ==
  ASSUME rule_spec \in Ref!RuleSpec
  PROVE  SimInv(Ref!initial_state(rule_spec))
<1> DEFINE s == Ref!initial_state(rule_spec)
<1>1. rule_spec.scenario \in Scenarios
  BY DEF Ref!RuleSpec, Scenarios
<1>2. s \in SimState /\ s.scenario = rule_spec.scenario
  BY <1>1 DEF Ref!initial_state, SimState, SimUser
<1>3. s.orders = <<>> /\ s.coupons = <<>> /\ s.memberships = <<>> /\ s.entitlements = <<>>
  BY DEF Ref!initial_state
<1> HIDE DEF s
<1>4. SimInv(s)
  BY <1>2, <1>3 DEF SimInv, SimMembershipOK
<1> QED
  BY <1>4 DEF s

\* A step that writes orders and coupons, or neither.
LEMMA SimRows ==
  ASSUME NEW s, SimInv(s), NEW t \in SimState, t.scenario = s.scenario,
         t.memberships = s.memberships, t.entitlements = s.entitlements,
         \A o \in DOMAIN t.orders : SimOrderOK(t.orders[o]) /\ SimHolds(t, o),
         \A c \in DOMAIN t.coupons : SimCouponOK(t.coupons[c])
  PROVE  SimInv(t)
<1>1. SimMembershipOK(t)
  BY DEF SimInv, SimMembershipOK
<1> QED
  BY <1>1 DEF SimInv

LEMMA SimSameRows ==
  ASSUME NEW s, SimInv(s), NEW t \in SimState, t.scenario = s.scenario,
         t.memberships = s.memberships, t.entitlements = s.entitlements,
         t.orders = s.orders, t.coupons = s.coupons
  PROVE  SimInv(t)
<1>1. \A o \in DOMAIN t.orders : SimHolds(s, o) => SimHolds(t, o)
  BY DEF SimHolds
<1> QED
  BY <1>1, SimRows DEF SimInv

LEMMA SimSeen ==
  ASSUME NEW s, SimInv(s), NEW X \in SUBSET (SimActions \X Nat)
  PROVE  SimInv([s EXCEPT !.seen = X])
<1> DEFINE t == [s EXCEPT !.seen = X]
<1>1. s \in SimState
  BY DEF SimInv
<1>2. /\ t \in SimState /\ t.scenario = s.scenario /\ t.orders = s.orders /\ t.coupons = s.coupons
      /\ t.memberships = s.memberships /\ t.entitlements = s.entitlements
  BY <1>1 DEF SimState
<1> HIDE DEF t
<1>3. SimInv(t)
  BY <1>2, SimSameRows
<1> QED
  BY <1>3 DEF t

\* A handler that rejects leaves the state alone.
LEMMA SimApplied ==
  ASSUME NEW cond \in BOOLEAN, NEW s, NEW t, SimInv(s), cond => SimInv(t)
  PROVE  SimInv(Ref!AppliedIf(cond, s, t).state)
  BY DEF Ref!AppliedIf, Ref!Applied, Ref!Reject, Ref!Result

LEMMA SimCreateUser ==
  ASSUME NEW s, SimInv(s), NEW a \in Proposal
  PROVE  SimInv(Ref!do_create_user(s, a).state)
<1> DEFINE u == [exists |-> TRUE, balance |-> a.amount, points |-> 0, membership |-> "NONE"]
           t == [s EXCEPT !.user = u]
<1>1. s \in SimState /\ u \in SimUser
  BY DEF SimInv, SimUser, Proposal
<1>2. /\ t \in SimState /\ t.scenario = s.scenario /\ t.orders = s.orders /\ t.coupons = s.coupons
      /\ t.memberships = s.memberships /\ t.entitlements = s.entitlements
  BY <1>1 DEF SimState
<1>3. Ref!do_create_user(s, a) = Ref!AppliedIf(~s.user.exists, s, t)
  BY DEF Ref!do_create_user
<1> HIDE DEF t
<1>4. SimInv(t)
  BY <1>2, SimSameRows
<1> QED
  BY <1>3, <1>4, SimApplied

LEMMA SimIssueCoupon ==
  ASSUME NEW s, SimInv(s), NEW a \in Proposal
  PROVE  SimInv(Ref!do_issue_coupon(s, a).state)
<1> DEFINE row == [face |-> a.amount, threshold |-> a.threshold, status |-> "AVAILABLE",
                   reserved |-> 0, used |-> 0, usage |-> 0]
           new == Append(s.coupons, row)
           t == [s EXCEPT !.coupons = new]
<1>1. s \in SimState /\ row \in SimCoupon /\ s.coupons \in Seq(SimCoupon)
  BY DEF SimInv, SimState, SimCoupon, Proposal
<1>2. /\ t \in SimState /\ t.scenario = s.scenario /\ t.orders = s.orders
      /\ t.coupons = new
      /\ t.memberships = s.memberships /\ t.entitlements = s.entitlements
  <2>1. new \in Seq(SimCoupon)
    BY <1>1
  <2> HIDE DEF new
  <2> QED  BY <1>1, <2>1 DEF SimState
<1>3. Ref!do_issue_coupon(s, a)
        = Ref!AppliedIf(/\ s.user.exists /\ rule_spec.promotion # None /\ a.amount > 0
                        /\ rule_spec.promotion.currency = "CNY", s, t)
  BY DEF Ref!do_issue_coupon
<1>4. SimCouponOK(row)
  BY DEF SimCouponOK
<1> HIDE DEF t, row
<1>5. \A c \in DOMAIN t.coupons : SimCouponOK(t.coupons[c])
  BY <1>1, <1>2, <1>4, AppendRow DEF SimInv
<1>6. \A c \in DOMAIN s.coupons : c \in DOMAIN t.coupons /\ t.coupons[c] = s.coupons[c]
  BY <1>1, <1>2, AppendRow
<1>7. \A o \in DOMAIN t.orders : SimOrderOK(t.orders[o]) /\ SimHolds(t, o)
  BY <1>2, <1>6 DEF SimInv, SimHolds
<1>8. SimInv(t)
  BY <1>2, <1>5, <1>7, SimRows
<1> QED
  BY <1>3, <1>8, SimApplied

LEMMA SimCreateOrder ==
  ASSUME NEW s, SimInv(s), NEW a \in Proposal
  PROVE  SimInv(Ref!do_create_order(s, a).state)
<1> DEFINE row == [original |-> a.amount, discount |-> 0, paid |-> 0, refunded |-> 0,
                   points |-> 0, revoked |-> 0, refunds |-> 0, status |-> "CREATED",
                   coupon |-> 0]
           new == Append(s.orders, row)
           t == [s EXCEPT !.orders = new]
<1>1. s \in SimState /\ row \in SimOrder /\ s.orders \in Seq(SimOrder)
  BY DEF SimInv, SimState, SimOrder, Proposal
<1>2. /\ t \in SimState /\ t.scenario = s.scenario /\ t.coupons = s.coupons
      /\ t.orders = new
      /\ t.memberships = s.memberships /\ t.entitlements = s.entitlements
  <2>1. new \in Seq(SimOrder)
    BY <1>1
  <2> HIDE DEF new
  <2> QED  BY <1>1, <2>1 DEF SimState
<1>3. Ref!do_create_order(s, a) = Ref!AppliedIf(s.user.exists /\ a.amount > 0, s, t)
  BY DEF Ref!do_create_order
<1>4. SimOrderOK(row) /\ row.coupon = 0
  BY RuleFields DEF SimInv, SimOrderOK, Proposal
<1> HIDE DEF t, row
<1>5. ASSUME NEW o \in DOMAIN t.orders  PROVE SimOrderOK(t.orders[o]) /\ SimHolds(t, o)
  <2>0. /\ DOMAIN new = DOMAIN s.orders \cup {Len(s.orders) + 1} /\ new[Len(s.orders) + 1] = row
        /\ \A i \in DOMAIN s.orders : new[i] = s.orders[i]
    BY <1>1, AppendRow
  <2> HIDE DEF new
  <2>1. t.orders[o] = row \/ (o \in DOMAIN s.orders /\ t.orders[o] = s.orders[o])
    BY <1>2, <2>0
  <2>2. CASE t.orders[o] = row
    BY <1>4, <2>2 DEF SimHolds
  <2>3. CASE o \in DOMAIN s.orders /\ t.orders[o] = s.orders[o]
    BY <1>2, <2>3 DEF SimInv, SimHolds
  <2> QED  BY <2>1, <2>2, <2>3
<1>6. SimInv(t)
  BY <1>2, <1>5, SimRows DEF SimInv
<1> QED
  BY <1>3, <1>6, SimApplied

\* One order and at most one coupon are written, and no other order holds that coupon.
WritesOrder(s, t, o, row, c, crow) ==
  /\ t \in SimState /\ t.scenario = s.scenario
  /\ t.memberships = s.memberships /\ t.entitlements = s.entitlements
  /\ o \in DOMAIN s.orders /\ row \in SimOrder /\ SimOrderOK(row)
  /\ t.orders = [s.orders EXCEPT ![o] = row]
  /\ \/ t.coupons = s.coupons
     \/ /\ c \in DOMAIN s.coupons /\ crow \in SimCoupon /\ SimCouponOK(crow)
        /\ t.coupons = [s.coupons EXCEPT ![c] = crow]
        /\ \A p \in DOMAIN s.orders \ {o} :
             s.orders[p].coupon = c => s.orders[p].status = "REFUNDED"
  /\ SimHolds(t, o)

LEMMA SimOrderWritten ==
  ASSUME NEW s, SimInv(s), NEW t, NEW o, NEW row, NEW c, NEW crow,
         WritesOrder(s, t, o, row, c, crow)
  PROVE  SimInv(t)
<1> USE DEF WritesOrder
<1>1. s.orders \in Seq(SimOrder) /\ s.coupons \in Seq(SimCoupon)
  BY DEF SimInv, SimState
<1>2. /\ DOMAIN t.orders = DOMAIN s.orders /\ t.orders[o] = row
      /\ \A p \in DOMAIN s.orders \ {o} : t.orders[p] = s.orders[p]
  BY <1>1, UpdateRow
<1>3. /\ DOMAIN t.coupons = DOMAIN s.coupons
      /\ \A d \in DOMAIN s.coupons :
           \/ t.coupons[d] = s.coupons[d]
           \/ /\ d = c /\ t.coupons[d] = crow /\ SimCouponOK(crow)
              /\ \A p \in DOMAIN s.orders \ {o} :
                   s.orders[p].coupon = c => s.orders[p].status = "REFUNDED"
  BY <1>1, UpdateRow
<1> HIDE DEF WritesOrder
<1>4. \A d \in DOMAIN t.coupons : SimCouponOK(t.coupons[d])
  BY <1>3 DEF SimInv
<1>5. ASSUME NEW p \in DOMAIN t.orders  PROVE SimOrderOK(t.orders[p]) /\ SimHolds(t, p)
  <2>1. CASE p = o
    BY <1>2, <2>1 DEF WritesOrder
  <2>2. CASE p # o
    <3>1. SimOrderOK(t.orders[p]) /\ t.orders[p] = s.orders[p] /\ SimHolds(s, p)
      BY <1>2, <2>2 DEF SimInv
    <3>2. SimHolds(t, p)
      BY <1>2, <1>3, <2>2, <3>1 DEF SimHolds
    <3> QED  BY <3>1, <3>2
  <2> QED  BY <2>1, <2>2
<1> QED
  BY <1>4, <1>5, SimRows DEF WritesOrder

\* What the application of coupon c to order o writes, d being the discount.
SimReserved(s, o, c, d) ==
  [s EXCEPT !.orders[o].coupon = c, !.orders[o].discount = d,
            !.coupons[c].status = "RESERVED", !.coupons[c].reserved = o]

\* One write of an order's row and one of a coupon's row.
SimRowsAt(s, o, r, c, q) ==
  [s EXCEPT !.orders = [s.orders EXCEPT ![o] = r], !.coupons = [s.coupons EXCEPT ![c] = q]]
Discounted(r, c, d) == [r EXCEPT !.coupon = c, !.discount = d]
HeldFor(q, o) == [q EXCEPT !.status = "RESERVED", !.reserved = o]

\* The four writes amount to one write of each of the two rows.
LEMMA SimReserves ==
  ASSUME NEW s \in SimState, NEW o \in DOMAIN s.orders, NEW c \in DOMAIN s.coupons, NEW d
  PROVE  SimReserved(s, o, c, d) =
           SimRowsAt(s, o, Discounted(s.orders[o], c, d), c, HeldFor(s.coupons[c], o))
<1> DEFINE O == [s.orders EXCEPT ![o] = Discounted(s.orders[o], c, d)]
           C == [s.coupons EXCEPT ![c] = HeldFor(s.coupons[c], o)]
           mid == [s EXCEPT !.orders[o].coupon = c, !.orders[o].discount = d]
<1>1. mid = [s EXCEPT !.orders = O]
  BY DEF SimState, Discounted
<1>2. SimReserved(s, o, c, d) =
        [mid EXCEPT !.coupons[c].status = "RESERVED", !.coupons[c].reserved = o]
  BY Zenon DEF SimReserved
<1> HIDE DEF mid, O
<1>3. [mid EXCEPT !.coupons[c].status = "RESERVED", !.coupons[c].reserved = o]
      = [s EXCEPT !.orders = O, !.coupons = C]
  BY <1>1 DEF SimState, HeldFor
<1> QED  BY <1>2, <1>3, Zenon DEF SimRowsAt, O

LEMMA SimApplyCoupon ==
  ASSUME NEW s, SimInv(s), NEW a \in Proposal
  PROVE  SimInv(Ref!do_apply_coupon(s, a).state)
<1> DEFINE o == a.target
           c == a.coupon
           row == [s.orders[o] EXCEPT !.coupon = c,
                     !.discount = Ref!Least(s.coupons[c].face, s.orders[o].original)]
           crow == [s.coupons[c] EXCEPT !.status = "RESERVED", !.reserved = o]
           ok == Ref!Applicable(s.orders[o], s.coupons[c])
           d == Ref!Least(s.coupons[c].face, s.orders[o].original)
           new == SimReserved(s, o, c, d)
<1>1. ~(o \in DOMAIN s.orders /\ c \in DOMAIN s.coupons) => Ref!do_apply_coupon(s, a).state = s
  BY DEF Ref!do_apply_coupon, Ref!Reject, Ref!Result
<1> SUFFICES ASSUME o \in DOMAIN s.orders, c \in DOMAIN s.coupons
             PROVE  SimInv(Ref!do_apply_coupon(s, a).state)
  BY <1>1
<1>2. Ref!do_apply_coupon(s, a) = Ref!AppliedIf(ok, s, new)
  BY Zenon DEF Ref!do_apply_coupon, SimReserved
<1>3. /\ s \in SimState /\ s.orders \in Seq(SimOrder) /\ s.coupons \in Seq(SimCoupon)
      /\ s.orders[o] \in SimOrder /\ s.coupons[c] \in SimCoupon /\ o \in Nat /\ c \in Nat \ {0}
  BY DEF SimInv, SimState
<1> DEFINE O == [s.orders EXCEPT ![o] = row]
           C == [s.coupons EXCEPT ![c] = crow]
<1>0. new = [s EXCEPT !.orders = O, !.coupons = C]
  <2>1. new = SimRowsAt(s, o, Discounted(s.orders[o], c, d), c, HeldFor(s.coupons[c], o))
    <3> HIDE DEF o, c, d
    <3> QED  BY <1>3, SimReserves
  <2>2. Discounted(s.orders[o], c, d) = row /\ HeldFor(s.coupons[c], o) = crow
    BY Zenon DEF Discounted, HeldFor
  <2> HIDE DEF row, crow, new, d
  <2> QED  BY <2>1, <2>2, Zenon DEF SimRowsAt
<1>4. /\ new.scenario = s.scenario /\ new.memberships = s.memberships /\ new.user = s.user
      /\ new.entitlements = s.entitlements /\ new.seen = s.seen
      /\ new.orders = [s.orders EXCEPT ![o] = row]
      /\ new.coupons = [s.coupons EXCEPT ![c] = crow]
      /\ DOMAIN new = DOMAIN s
  <2> HIDE DEF O, C, new
  <2> QED  BY <1>0, <1>3 DEF SimState, O, C
<1>5. row \in SimOrder /\ crow \in SimCoupon /\ row.coupon = c /\ crow.status = "RESERVED"
      /\ crow.reserved = o
  BY <1>3 DEF SimOrder, SimCoupon, Ref!Least
<1>6. new \in SimState
  <2>1. [s.orders EXCEPT ![o] = row] \in Seq(SimOrder)
        /\ [s.coupons EXCEPT ![c] = crow] \in Seq(SimCoupon)
    <3> HIDE DEF row, crow
    <3> QED  BY <1>3, <1>5, UpdateRow
  <2> HIDE DEF O, C, new
  <2> QED  BY <1>0, <1>3, <2>1 DEF SimState, O, C
<1>7. ASSUME ok  PROVE SimInv(new)
  <2>1. SimOrderOK(row)
    <3>1. SimOrderOK(s.orders[o]) /\ s.orders[o].status = "CREATED"
      BY <1>7 DEF SimInv, Ref!Applicable
    <3>2. /\ row.refunded = s.orders[o].refunded /\ row.paid = s.orders[o].paid
          /\ row.status = s.orders[o].status /\ row.revoked = s.orders[o].revoked
          /\ row.refunds = s.orders[o].refunds
      BY <1>3 DEF SimOrder
    <3>3. row.discount <= row.original
      <4>1. /\ row.discount = Ref!Least(s.coupons[c].face, s.orders[o].original)
            /\ row.original = s.orders[o].original
        BY <1>3 DEF SimOrder
      <4>2. s.coupons[c].face \in Nat /\ s.orders[o].original \in Nat
        BY <1>3 DEF SimOrder, SimCoupon
      <4> HIDE DEF row
      <4> QED  BY <4>1, <4>2 DEF Ref!Least
    <3> HIDE DEF row
    <3> QED  BY <3>1, <3>2, <3>3 DEF SimOrderOK
  <2>2. SimCouponOK(crow)
    BY <1>3, <1>7 DEF SimInv, SimCouponOK, SimCoupon, Ref!Applicable
  <2>3. \A p \in DOMAIN s.orders :
          s.orders[p].coupon = c /\ c # 0 => s.orders[p].status = "REFUNDED"
    BY <1>7 DEF SimInv, SimHolds, Ref!Applicable
  <2>6. row.status = "CREATED"
    BY <1>3, <1>7 DEF SimOrder, Ref!Applicable
  <2> HIDE DEF row, crow, new, ok, o, c
  <2>4. SimHolds(new, o)
    <3>1. /\ new.orders[o] = row /\ c \in DOMAIN new.coupons /\ new.coupons[c] = crow
      BY <1>3, <1>4, <1>5, UpdateRow
    <3> QED  BY <1>5, <2>6, <3>1 DEF SimHolds
  <2>5. WritesOrder(s, new, o, row, c, crow)
    BY <1>3, <1>4, <1>5, <1>6, <2>1, <2>2, <2>3, <2>4 DEF WritesOrder
  <2> QED  BY <2>5, SimOrderWritten
<1>8. ok \in BOOLEAN
  BY DEF Ref!Applicable
<1> QED
  BY <1>2, <1>7, <1>8, SimApplied

LEMMA EarnedType ==
  ASSUME rule_spec \in Ref!RuleSpec, NEW amount \in Nat
  PROVE  Ref!Earned(amount) \in Nat
<1>1. CASE rule_spec.points = None
  BY <1>1 DEF Ref!Earned
<1>2. CASE rule_spec.points # None
  <2>1. rule_spec.points.spend \in Nat \ {0} /\ rule_spec.points.granted \in Nat
    BY <1>2, RuleFields
  <2>2. (amount * Ref!Fraction) \div rule_spec.points.spend \in Nat
    <3> DEFINE m == amount * Ref!Fraction
    <3>1. m \in Nat
      BY DEF Ref!Fraction
    <3> HIDE DEF m
    <3>2. m \div rule_spec.points.spend \in Nat
      BY <2>1, <3>1
    <3> QED  BY <3>2 DEF m
  <2>3. ((amount * Ref!Fraction) \div rule_spec.points.spend) * rule_spec.points.granted \in Nat
    <3> DEFINE q == (amount * Ref!Fraction) \div rule_spec.points.spend
    <3>1. q \in Nat
      BY <2>2
    <3> HIDE DEF q
    <3>2. q * rule_spec.points.granted \in Nat
      BY <2>1, <3>1
    <3> QED  BY <3>2 DEF q
  <2> QED  BY <1>2, <2>3 DEF Ref!Earned
<1> QED
  BY <1>1, <1>2

\* The rows that the handlers write.
LEMMA SimOrderFields ==
  ASSUME NEW o \in SimOrder
  PROVE  /\ o.original \in Nat /\ o.discount \in Nat /\ o.paid \in Nat /\ o.refunded \in Nat
         /\ o.points \in Nat /\ o.revoked \in Nat /\ o.refunds \in Nat /\ o.coupon \in Nat
         /\ o.status \in {"CREATED", "PAID", "PARTIALLY_REFUNDED", "REFUNDED"}
  BY DEF SimOrder

LEMMA SimUserMoved ==
  ASSUME NEW u \in SimUser, NEW b \in Nat, NEW p \in Nat
  PROVE  [u EXCEPT !.balance = b, !.points = p] \in SimUser
  BY DEF SimUser

LEMMA SimUserFields ==
  ASSUME NEW u \in SimUser
  PROVE  u.balance \in Nat /\ u.points \in Nat /\ u.exists \in BOOLEAN
  BY DEF SimUser

LEMMA SimPaidRow ==
  ASSUME NEW o \in SimOrder, NEW amount \in Nat, NEW granted \in Nat, NEW row,
         row = [o EXCEPT !.paid = amount, !.points = granted, !.status = "PAID"]
  PROVE  /\ row \in SimOrder /\ row.status = "PAID" /\ row.paid = amount /\ row.points = granted
         /\ row.original = o.original /\ row.discount = o.discount /\ row.refunded = o.refunded
         /\ row.revoked = o.revoked /\ row.refunds = o.refunds /\ row.coupon = o.coupon
  BY DEF SimOrder

Spent(c, i) == [c EXCEPT !.status = "USED", !.used = i, !.usage = c.usage + 1]

LEMMA SimCouponSpent ==
  ASSUME NEW c \in SimCoupon, NEW i \in Nat
  PROVE  /\ Spent(c, i) \in SimCoupon /\ Spent(c, i).status = "USED"
         /\ Spent(c, i).usage = c.usage + 1 /\ Spent(c, i).used = i
         /\ Spent(c, i).face = c.face /\ Spent(c, i).threshold = c.threshold
<1> DEFINE n == c.usage + 1
           row == Spent(c, i)
<1>1. n \in Nat
  BY DEF SimCoupon
<1>2. row = [c EXCEPT !.status = "USED", !.used = i, !.usage = n]
  BY DEF Spent
<1> HIDE DEF n, row
<1>3. /\ row \in SimCoupon /\ row.status = "USED" /\ row.usage = n /\ row.used = i
      /\ row.face = c.face /\ row.threshold = c.threshold
  BY <1>1, <1>2 DEF SimCoupon
<1> QED
  BY <1>3 DEF n, row

\* A state of which user, orders and coupons are written.
SimWith(s, u, O, C) == [s EXCEPT !.user = u, !.orders = O, !.coupons = C]

LEMMA SimWithFields ==
  ASSUME NEW s \in SimState, NEW u \in SimUser, NEW O \in Seq(SimOrder), NEW C \in Seq(SimCoupon)
  PROVE  LET t == SimWith(s, u, O, C) IN
         /\ t \in SimState /\ t.user = u /\ t.orders = O /\ t.coupons = C
         /\ t.scenario = s.scenario /\ t.memberships = s.memberships
         /\ t.entitlements = s.entitlements /\ t.seen = s.seen
  BY DEF SimState, SimWith

LEMMA SimPayOrder ==
  ASSUME NEW s, SimInv(s), NEW a \in Proposal
  PROVE  SimInv(Ref!do_pay_order(s, a).state)
<1> DEFINE i == a.target
           o == s.orders[i]
           c == o.coupon
           amount == o.original - o.discount
           granted == Ref!Earned(amount)
           u == [s.user EXCEPT !.balance = @ - amount, !.points = @ + granted]
           row == [o EXCEPT !.paid = amount, !.points = granted, !.status = "PAID"]
           crow == Spent(s.coupons[c], i)
           O == [s.orders EXCEPT ![i] = row]
           C == IF c = 0 THEN s.coupons ELSE [s.coupons EXCEPT ![c] = crow]
           ok == o.status = "CREATED" /\ s.user.balance >= amount
           new == SimWith(s, u, O, C)
<1>1. i \notin DOMAIN s.orders => Ref!do_pay_order(s, a).state = s
  BY DEF Ref!do_pay_order, Ref!Reject, Ref!Result
<1> SUFFICES ASSUME i \in DOMAIN s.orders, ok
             PROVE  SimInv(new) /\ Ref!do_pay_order(s, a) = Ref!AppliedIf(ok, s, new)
  <2>1. ASSUME i \in DOMAIN s.orders, ~ok  PROVE Ref!do_pay_order(s, a).state = s
    BY <2>1 DEF Ref!do_pay_order, Ref!AppliedIf, Ref!Reject, Ref!Result
  <2>2. ASSUME ok, Ref!do_pay_order(s, a) = Ref!AppliedIf(ok, s, new)
        PROVE  Ref!do_pay_order(s, a).state = new
    <3> HIDE DEF new
    <3> QED  BY <2>2 DEF Ref!AppliedIf, Ref!Applied, Ref!Result
  <2> HIDE DEF ok, new, i
  <2> QED  BY <1>1, <2>1, <2>2
<1>2. /\ s \in SimState /\ s.orders \in Seq(SimOrder) /\ s.coupons \in Seq(SimCoupon)
      /\ o \in SimOrder /\ i \in Nat \ {0} /\ c \in Nat /\ s.user \in SimUser
  <2>1. /\ s \in SimState /\ s.orders \in Seq(SimOrder) /\ s.coupons \in Seq(SimCoupon)
        /\ s.user \in SimUser
    BY DEF SimInv, SimState
  <2>2. o \in SimOrder /\ i \in Nat \ {0}
    BY <2>1
  <2> HIDE DEF o
  <2> QED  BY <2>1, <2>2 DEF SimOrder
<1>3. Ref!do_pay_order(s, a) = Ref!AppliedIf(ok, s, new)
  <2>1. [s EXCEPT !.user.balance = @ - amount, !.user.points = @ + granted, !.orders[i] = row]
          = [s EXCEPT !.user = u, !.orders = O]
    BY <1>2 DEF SimState, SimUser
  <2>2. CASE c = 0
    BY <1>2, <2>1, <2>2 DEF Ref!do_pay_order, SimState, SimWith, Spent
  <2>3. CASE c # 0
    BY <1>2, <2>1, <2>3 DEF Ref!do_pay_order, SimState, SimWith, Spent
  <2> QED  BY <2>2, <2>3
<1>4. SimOrderOK(o) /\ SimHolds(s, i)
  BY DEF SimInv
<1>5. amount \in Nat /\ granted \in Nat
  <2>1. amount \in Nat
    <3> HIDE DEF o
    <3>1. o.discount <= o.original
      BY <1>4 DEF SimOrderOK
    <3> QED  BY <1>2, <3>1, SimOrderFields
  <2> HIDE DEF amount
  <2> QED  BY <2>1, EarnedType DEF SimInv
<1>6. u \in SimUser /\ row \in SimOrder
  <2>1. s.user.balance - amount \in Nat /\ s.user.points + granted \in Nat
    <3> HIDE DEF amount, granted, o
    <3> QED  BY <1>2, <1>5, SimUserFields
  <2>2. u \in SimUser
    <3> HIDE DEF amount, granted, o
    <3> QED  BY <1>2, <2>1, SimUserMoved
  <2>3. row \in SimOrder
    <3> HIDE DEF amount, granted, o
    <3> QED  BY <1>2, <1>5, SimPaidRow
  <2> QED  BY <2>2, <2>3
<1>7. SimOrderOK(row) /\ row.status = "PAID"
  <2>1. /\ row.discount = o.discount /\ row.original = o.original /\ row.refunded = o.refunded
        /\ row.paid = amount /\ row.revoked = o.revoked /\ row.refunds = o.refunds
        /\ row.status = "PAID" /\ o.refunded = 0
    BY <1>2, <1>4 DEF SimOrder, SimOrderOK
  <2> HIDE DEF row, amount
  <2> QED  BY <1>4, <1>5, <2>1 DEF SimOrderOK
<1>8. ASSUME c # 0, c \in DOMAIN s.coupons
      PROVE  /\ crow \in SimCoupon /\ SimCouponOK(crow)
             /\ \A p \in DOMAIN s.orders \ {i} :
                  s.orders[p].coupon = c => s.orders[p].status = "REFUNDED"
  <2>1. s.coupons[c] \in SimCoupon /\ SimCouponOK(s.coupons[c])
    BY <1>2, <1>8 DEF SimInv
  <2>2. crow \in SimCoupon /\ crow.status = "USED" /\ crow.usage = s.coupons[c].usage + 1
    <3> HIDE DEF c, i
    <3> QED  BY <1>2, <2>1, SimCouponSpent
  <2>3. s.coupons[c].status = "RESERVED" /\ s.coupons[c].reserved = i
    BY <1>4, <1>8 DEF SimHolds
  <2>4. SimCouponOK(crow)
    <3> HIDE DEF crow
    <3> QED  BY <2>1, <2>2, <2>3 DEF SimCouponOK
  <2>5. \A p \in DOMAIN s.orders \ {i} :
          s.orders[p].coupon = c => s.orders[p].status = "REFUNDED"
    BY <1>8, <2>3 DEF SimInv, SimHolds
  <2> QED  BY <2>2, <2>4, <2>5
<1>9. C = s.coupons \/ (c # 0 /\ c \in DOMAIN s.coupons /\ C = [s.coupons EXCEPT ![c] = crow])
  BY <1>2
<1>10. O \in Seq(SimOrder) /\ C \in Seq(SimCoupon) /\ O[i].status = "PAID"
  <2> HIDE DEF row, crow, c, i
  <2>1. O \in Seq(SimOrder) /\ O[i] = row
    BY <1>2, <1>6, UpdateRow
  <2>2. CASE C = s.coupons
    BY <1>2, <1>7, <2>1, <2>2
  <2>3. CASE c # 0 /\ c \in DOMAIN s.coupons /\ C = [s.coupons EXCEPT ![c] = crow]
    <3> HIDE DEF O, C
    <3> QED  BY <1>2, <1>7, <1>8, <2>1, <2>3, UpdateRow
  <2> HIDE DEF O, C
  <2> QED  BY <1>9, <2>2, <2>3
<1>13. /\ row.coupon = c /\ O[i] = row
       /\ c # 0 => c \in DOMAIN s.coupons /\ crow.status = "USED" /\ crow.used = i
  <2>1. row.coupon = c
    BY <1>2 DEF SimOrder
  <2>2. c # 0 => c \in DOMAIN s.coupons
    BY <1>4 DEF SimHolds
  <2>3. c \in DOMAIN s.coupons => crow.status = "USED" /\ crow.used = i
    <3> HIDE DEF c, i
    <3>1. c \in DOMAIN s.coupons => s.coupons[c] \in SimCoupon /\ i \in Nat
      BY <1>2
    <3> QED  BY <3>1, SimCouponSpent
  <2>4. O[i] = row
    <3> HIDE DEF row, i
    <3> QED  BY <1>2, <1>6, UpdateRow
  <2> QED  BY <2>1, <2>2, <2>3, <2>4
<1> HIDE DEF u, row, crow, O, C, c, i
<1>11. /\ new \in SimState /\ new.orders = O /\ new.coupons = C
       /\ new.scenario = s.scenario /\ new.memberships = s.memberships
       /\ new.entitlements = s.entitlements
  BY <1>2, <1>6, <1>10, SimWithFields
<1> HIDE DEF new
<1>12. WritesOrder(s, new, i, row, c, crow)
  <2>1. SimHolds(new, i)
    <3>1. CASE c = 0
      BY <1>2, <1>10, <1>11, <1>13, <3>1 DEF SimHolds
    <3>2. CASE c # 0
      <4>1. c \in DOMAIN s.coupons /\ crow.status = "USED" /\ crow.used = i
        BY <1>13, <3>2
      <4>2. C[c] = crow /\ c \in DOMAIN C
        BY <1>2, <1>8, <3>2, <4>1, UpdateRow DEF C
      <4> QED  BY <1>10, <1>11, <1>13, <4>1, <4>2 DEF SimHolds
    <3> QED  BY <3>1, <3>2
  <2> QED  BY <1>6, <1>7, <1>8, <1>9, <1>11, <2>1 DEF WritesOrder, O
<1> QED
  BY <1>3, <1>12, SimOrderWritten

\* The row of an order of which `total` is refunded, with `back` the points taken back in all.
Refunded(o, total, back) ==
  [o EXCEPT !.refunded = total, !.refunds = @ + 1, !.revoked = back,
            !.status = IF total = o.paid THEN "REFUNDED" ELSE "PARTIALLY_REFUNDED"]
Returned(c) == [c EXCEPT !.status = "AVAILABLE", !.reserved = 0, !.used = 0]

LEMMA SimRefundedRow ==
  ASSUME NEW o \in SimOrder, NEW total \in Nat, NEW back \in Nat
  PROVE  LET row == Refunded(o, total, back) IN
         /\ row \in SimOrder /\ row.refunded = total /\ row.refunds = o.refunds + 1
         /\ row.revoked = back /\ row.paid = o.paid /\ row.points = o.points
         /\ row.original = o.original /\ row.discount = o.discount /\ row.coupon = o.coupon
         /\ total = o.paid => row.status = "REFUNDED"
         /\ total # o.paid => row.status = "PARTIALLY_REFUNDED"
<1> DEFINE n == o.refunds + 1
           row == Refunded(o, total, back)
<1>1. n \in Nat
  BY SimOrderFields
<1>2. row = [o EXCEPT !.refunded = total, !.refunds = n, !.revoked = back,
                      !.status = IF total = o.paid THEN "REFUNDED" ELSE "PARTIALLY_REFUNDED"]
  BY DEF Refunded
<1> HIDE DEF n, row
<1>3. /\ row \in SimOrder /\ row.refunded = total /\ row.refunds = n
      /\ row.revoked = back /\ row.paid = o.paid /\ row.points = o.points
      /\ row.original = o.original /\ row.discount = o.discount /\ row.coupon = o.coupon
      /\ total = o.paid => row.status = "REFUNDED"
      /\ total # o.paid => row.status = "PARTIALLY_REFUNDED"
  BY <1>1, <1>2 DEF SimOrder
<1> QED
  BY <1>3 DEF n, row

LEMMA SimCouponReturned ==
  ASSUME NEW c \in SimCoupon
  PROVE  /\ Returned(c) \in SimCoupon /\ Returned(c).status = "AVAILABLE"
         /\ Returned(c).usage = c.usage
         /\ Returned(c).face = c.face /\ Returned(c).threshold = c.threshold
  BY DEF SimCoupon, Returned

LEMMA SimTargetType ==
  ASSUME NEW o \in SimOrder, NEW total \in Nat, o.paid > 0
  PROVE  Ref!target_revoke(o, total) \in Nat
<1>1. o.points \in Nat /\ o.paid \in Nat
  BY SimOrderFields
<1>2. o.points * total \in Nat
  BY <1>1
<1>3. (o.points * total) \div o.paid \in Nat
  BY <1>1, <1>2
<1> QED
  BY <1>1, <1>3 DEF Ref!target_revoke

\* What is taken back in all, and now.
SimRevokes == rule_spec.points # None /\ rule_spec.points.revoke
BackInAll(o, total) == IF SimRevokes THEN Ref!target_revoke(o, total) ELSE o.revoked
BackNow(o, total) ==
  IF SimRevokes /\ o.points # 0
  THEN Ref!AtLeastZero(Ref!target_revoke(o, total) - o.revoked) ELSE 0
Accepted(s, o, amount) ==
  /\ Ref!Refundable(o, amount) /\ Ref!Permitted(o, amount)
  /\ s.user.points >= BackNow(o, o.refunded + amount)
  /\ ~(SimRevokes /\ o.points = 0)
Crashes(s, o, amount) ==
  /\ Ref!Refundable(o, amount) /\ Ref!Permitted(o, amount)
  /\ s.user.points >= BackNow(o, o.refunded + amount)
  /\ SimRevokes /\ o.points = 0
RefundedUser(u, o, amount) ==
  [u EXCEPT !.balance = @ + amount, !.points = @ - BackNow(o, o.refunded + amount)]
RefundedState(s, i, amount) ==
  LET o == s.orders[i] IN
  SimWith(s, RefundedUser(s.user, o, amount),
          [s.orders EXCEPT ![i] = Refunded(o, o.refunded + amount,
                                           BackInAll(o, o.refunded + amount))],
          IF Ref!Restores(o, o.refunded + amount = o.paid)
          THEN [s.coupons EXCEPT ![o.coupon] = Returned(s.coupons[o.coupon])] ELSE s.coupons)

\* refund_order gives RefundedState or leaves the state alone.
LEMMA SimRefundEffect ==
  ASSUME NEW s \in SimState, NEW a \in Proposal
  PROVE  LET r == Ref!do_refund_order(s, a) IN
         IF a.target \in DOMAIN s.orders /\ Accepted(s, s.orders[a.target], a.amount)
         THEN r = Ref!Applied(RefundedState(s, a.target, a.amount))
         ELSE /\ r.state = s
              /\ IF a.target \in DOMAIN s.orders /\ Crashes(s, s.orders[a.target], a.amount)
                 THEN r.status = "CRASHED" ELSE r.status = "REJECTED"
<1> DEFINE i == a.target
           o == s.orders[i]
           total == o.refunded + a.amount
           delta == BackNow(o, total)
           back == [s EXCEPT !.user.balance = @ + a.amount, !.user.points = @ - delta,
                             !.orders[i] =
                               [o EXCEPT !.refunded = total, !.refunds = @ + 1,
                                         !.revoked = IF SimRevokes THEN Ref!target_revoke(o, total)
                                                     ELSE @,
                                         !.status = IF total = o.paid THEN "REFUNDED"
                                                    ELSE "PARTIALLY_REFUNDED"]]
           r == Ref!do_refund_order(s, a)
<1>1. CASE ~(i \in DOMAIN s.orders)
  BY <1>1 DEF Ref!do_refund_order, Ref!Reject, Ref!Result
<1>2. CASE i \in DOMAIN s.orders
  <2>1. r = IF ~(Ref!Refundable(o, a.amount) /\ Ref!Permitted(o, a.amount) /\ s.user.points >= delta)
            THEN Ref!Reject(s)
            ELSE IF SimRevokes /\ o.points = 0 THEN Ref!Result("CRASHED", s)
            ELSE Ref!Applied(IF Ref!Restores(o, total = o.paid)
                             THEN [back EXCEPT !.coupons[o.coupon] =
                                    [@ EXCEPT !.status = "AVAILABLE", !.reserved = 0, !.used = 0]]
                             ELSE back)
    BY <1>2 DEF Ref!do_refund_order, SimRevokes, BackNow
  <2>2. back = [s EXCEPT !.user = RefundedUser(s.user, o, a.amount),
                         !.orders = [s.orders EXCEPT ![i] = Refunded(o, total, BackInAll(o, total))]]
    BY DEF SimState, SimUser, RefundedUser, Refunded, BackInAll
  <2>3. back.coupons = s.coupons
    BY <2>2 DEF SimState
  <2>4. (IF Ref!Restores(o, total = o.paid)
         THEN [back EXCEPT !.coupons[o.coupon] =
                 [@ EXCEPT !.status = "AVAILABLE", !.reserved = 0, !.used = 0]]
         ELSE back) = RefundedState(s, i, a.amount)
    <3> DEFINE O == [s.orders EXCEPT ![i] = Refunded(o, total, BackInAll(o, total))]
               u == RefundedUser(s.user, o, a.amount)
               C == [s.coupons EXCEPT ![o.coupon] = Returned(s.coupons[o.coupon])]
    <3>1. RefundedState(s, i, a.amount) = IF Ref!Restores(o, total = o.paid)
                                          THEN SimWith(s, u, O, C) ELSE SimWith(s, u, O, s.coupons)
      BY DEF RefundedState
    <3>2. C = [s.coupons EXCEPT ![o.coupon] =
                 [@ EXCEPT !.status = "AVAILABLE", !.reserved = 0, !.used = 0]]
      BY DEF Returned
    <3> HIDE DEF back, O, u
    <3>3. back = SimWith(s, u, O, s.coupons)
      BY <2>2 DEF SimWith, SimState, O, u
    <3>4. [back EXCEPT !.coupons[o.coupon] =
                 [@ EXCEPT !.status = "AVAILABLE", !.reserved = 0, !.used = 0]] = SimWith(s, u, O, C)
      BY <3>2, <3>3 DEF SimWith, SimState
    <3> QED  BY <3>1, <3>3, <3>4
  <2> HIDE DEF back, r, delta, total, o, i
  <2>5. r = IF ~(Ref!Refundable(o, a.amount) /\ Ref!Permitted(o, a.amount) /\ s.user.points >= delta)
            THEN Ref!Reject(s)
            ELSE IF SimRevokes /\ o.points = 0 THEN Ref!Result("CRASHED", s)
            ELSE Ref!Applied(RefundedState(s, i, a.amount))
    BY <2>1, <2>4
  <2>6. Accepted(s, o, a.amount) <=>
          /\ Ref!Refundable(o, a.amount) /\ Ref!Permitted(o, a.amount) /\ s.user.points >= delta
          /\ ~(SimRevokes /\ o.points = 0)
    BY DEF Accepted, delta, total
  <2>7. CASE Accepted(s, o, a.amount)
    BY <1>2, <2>5, <2>6, <2>7 DEF i, o, r
  <2>8. CASE ~Accepted(s, o, a.amount)
    <3>1. Crashes(s, o, a.amount) <=>
            /\ Ref!Refundable(o, a.amount) /\ Ref!Permitted(o, a.amount) /\ s.user.points >= delta
            /\ SimRevokes /\ o.points = 0
      BY DEF Crashes, delta, total
    <3>2. r.state = s /\ IF Crashes(s, o, a.amount) THEN r.status = "CRASHED" ELSE r.status = "REJECTED"
      BY <2>5, <2>6, <2>8, <3>1 DEF Ref!Reject, Ref!Result
    <3> QED  BY <1>2, <2>8, <3>2 DEF i, o, r
  <2> QED  BY <2>7, <2>8
<1> QED
  BY <1>1, <1>2

LEMMA SimRefundOrder ==
  ASSUME NEW s, SimInv(s), NEW a \in Proposal
  PROVE  SimInv(Ref!do_refund_order(s, a).state)
<1> DEFINE i == a.target
           o == s.orders[i]
           c == o.coupon
           total == o.refunded + a.amount
           delta == BackNow(o, total)
           all == BackInAll(o, total)
           u == RefundedUser(s.user, o, a.amount)
           row == Refunded(o, total, all)
           O == [s.orders EXCEPT ![i] = row]
           crow == Returned(s.coupons[c])
           C == IF Ref!Restores(o, total = o.paid) THEN [s.coupons EXCEPT ![c] = crow]
                ELSE s.coupons
           new == SimWith(s, u, O, C)
<1>1. s \in SimState
  BY DEF SimInv
<1> SUFFICES ASSUME i \in DOMAIN s.orders, Accepted(s, o, a.amount)
             PROVE  SimInv(new)
  <2>1. new = RefundedState(s, i, a.amount)
    BY DEF RefundedState
  <2> HIDE DEF new
  <2>2. Ref!Applied(new).state = new
    BY DEF Ref!Applied, Ref!Result
  <2> QED  BY <1>1, <2>1, <2>2, SimRefundEffect
<1>2. /\ s.orders \in Seq(SimOrder) /\ s.coupons \in Seq(SimCoupon) /\ s.user \in SimUser
      /\ a.amount \in Nat
  BY <1>1 DEF SimState, Proposal
<1>3. o \in SimOrder /\ i \in Nat /\ SimOrderOK(o)
  BY <1>2 DEF SimInv
<1>4. /\ c \in Nat /\ o.points \in Nat /\ o.revoked \in Nat /\ o.refunds \in Nat
      /\ o.refunded \in Nat /\ o.paid \in Nat
  BY <1>3, SimOrderFields
<1> HIDE DEF o
<1>5. /\ a.amount > 0 /\ total \in Nat /\ total <= o.paid /\ total > 0
      /\ rule_spec.refund # None => o.refunds < rule_spec.refund.maximum
      /\ s.user.points >= delta /\ (SimRevokes => o.points # 0)
      /\ o.status \in {"PAID", "PARTIALLY_REFUNDED"}
  BY <1>2, <1>4 DEF Accepted, Ref!Refundable, Ref!Permitted
<1> HIDE DEF total
<1>6. Ref!target_revoke(o, total) \in Nat
  BY <1>3, <1>4, <1>5, SimTargetType
<1>7. delta \in Nat /\ all \in Nat
  BY <1>4, <1>6 DEF BackNow, BackInAll, Ref!AtLeastZero
<1>8. row \in SimOrder /\ row.status # "CREATED" /\ SimOrderOK(row)
  <2> HIDE DEF all
  <2>0. o \in SimOrder /\ total \in Nat /\ all \in Nat
    BY <1>3, <1>5, <1>7
  <2>1. /\ row \in SimOrder /\ row.refunded = total /\ row.refunds = o.refunds + 1
        /\ row.revoked = all /\ row.paid = o.paid /\ row.points = o.points
        /\ row.original = o.original /\ row.discount = o.discount
        /\ total = o.paid => row.status = "REFUNDED"
        /\ total # o.paid => row.status = "PARTIALLY_REFUNDED"
    BY <2>0, SimRefundedRow
  <2> HIDE DEF row
  <2>2. Ref!target_revoke(row, total) = Ref!target_revoke(o, total)
    BY <2>1 DEF Ref!target_revoke
  <2>3. rule_spec.points # None =>
          all = IF rule_spec.points.revoke THEN Ref!target_revoke(o, total) ELSE 0
    BY <1>3 DEF all, BackInAll, SimRevokes, SimOrderOK
  <2>4. rule_spec.refund # None =>
          o.refunds < rule_spec.refund.maximum /\ rule_spec.refund.maximum \in Nat
    BY <1>5, RuleFields DEF SimInv
  <2> QED  BY <1>3, <1>4, <1>5, <2>1, <2>2, <2>3, <2>4 DEF SimOrderOK
<1>9. u \in SimUser
  <2>1. s.user.balance + a.amount \in Nat /\ s.user.points - delta \in Nat
    <3> HIDE DEF delta
    <3> QED  BY <1>2, <1>5, <1>7, SimUserFields
  <2>2. u = [s.user EXCEPT !.balance = s.user.balance + a.amount, !.points = s.user.points - delta]
    BY <1>2 DEF RefundedUser, SimUser, total
  <2> HIDE DEF delta, u
  <2> QED  BY <1>2, <2>1, <2>2, SimUserMoved
<1>10. \/ C = s.coupons
       \/ /\ c \in DOMAIN s.coupons /\ C = [s.coupons EXCEPT ![c] = crow] /\ ~Consumed /\ c # 0
  BY <1>2 DEF Ref!Restores, Consumed
<1>16. /\ row.coupon = c /\ row.status \in {"REFUNDED", "PARTIALLY_REFUNDED"}
       /\ row.status # "REFUNDED" => C = s.coupons
       /\ c # 0 => /\ c \in DOMAIN s.coupons
                   /\ s.coupons[c].status = "USED" /\ s.coupons[c].used = i
  <2>1. /\ row.coupon = c
        /\ total = o.paid => row.status = "REFUNDED"
        /\ total # o.paid => row.status = "PARTIALLY_REFUNDED"
    <3> HIDE DEF all
    <3>1. o \in SimOrder /\ total \in Nat /\ all \in Nat
      BY <1>3, <1>5, <1>7
    <3> QED  BY <3>1, SimRefundedRow
  <2>2. total # o.paid => C = s.coupons
    BY DEF Ref!Restores
  <2>3. SimHolds(s, i)
    BY DEF SimInv
  <2>4. c # 0 => /\ c \in DOMAIN s.coupons
                 /\ s.coupons[c].status = "USED" /\ s.coupons[c].used = i
    BY <1>5, <2>3 DEF SimHolds, o
  <2> HIDE DEF row, C
  <2> QED  BY <2>1, <2>2, <2>4
<1>11. c \in DOMAIN s.coupons => crow \in SimCoupon
  <2> HIDE DEF c
  <2> QED  BY <1>2, SimCouponReturned
<1> HIDE DEF u, row, crow, c, i
<1>12. O \in Seq(SimOrder) /\ O[i] = row
  BY <1>2, <1>8, UpdateRow
<1> HIDE DEF O, C
<1>13. C \in Seq(SimCoupon)
  <2>1. CASE C = s.coupons
    BY <1>2, <2>1
  <2>2. CASE c \in DOMAIN s.coupons /\ C = [s.coupons EXCEPT ![c] = crow]
    BY <1>2, <1>11, <2>2, UpdateRow
  <2> QED  BY <1>10, <2>1, <2>2
<1>14. /\ new \in SimState /\ new.orders = O /\ new.coupons = C
       /\ new.scenario = s.scenario /\ new.memberships = s.memberships
       /\ new.entitlements = s.entitlements
  BY <1>1, <1>2, <1>9, <1>12, <1>13, SimWithFields
<1> HIDE DEF new
<1>15. WritesOrder(s, new, i, row, c, crow)
  <2>1. SimHolds(new, i)
    <3>1. CASE row.status = "REFUNDED"
      BY <1>12, <1>14, <3>1 DEF SimHolds
    <3>2. CASE row.status # "REFUNDED"
      BY <1>12, <1>14, <1>16, <3>2 DEF SimHolds
    <3> QED  BY <3>1, <3>2
  <2>2. ~Consumed => SimCouponOK(crow)
    BY DEF SimCouponOK
  <2>3. c # 0 => \A p \in DOMAIN s.orders \ {i} :
                   s.orders[p].coupon = c => s.orders[p].status = "REFUNDED"
    BY <1>16 DEF SimInv, SimHolds
  <2> QED  BY <1>8, <1>10, <1>11, <1>14, <2>1, <2>2, <2>3 DEF WritesOrder, O
<1> QED
  BY <1>15, SimOrderWritten

LEMMA SimRedeemPoints ==
  ASSUME NEW s, SimInv(s), NEW a \in Proposal
  PROVE  SimInv(Ref!do_redeem_points(s, a).state)
<1> DEFINE u == [s.user EXCEPT !.points = s.user.points - a.amount]
           t == [s EXCEPT !.user = u]
           ok == s.user.exists /\ a.amount > 0 /\ s.user.points >= a.amount
<1>1. s \in SimState /\ s.user \in SimUser /\ a.amount \in Nat
  BY DEF SimInv, SimState, Proposal
<1>2. [s EXCEPT !.user.points = @ - a.amount] = t
  BY <1>1 DEF SimState, SimUser
<1>3. Ref!do_redeem_points(s, a) = Ref!AppliedIf(ok, s, t)
  BY <1>2 DEF Ref!do_redeem_points
<1>4. ASSUME ok  PROVE u \in SimUser
  BY <1>1, <1>4 DEF SimUser
<1> HIDE DEF u
<1>5. ASSUME ok  PROVE SimInv(t)
  <2>1. /\ t \in SimState /\ t.scenario = s.scenario /\ t.orders = s.orders /\ t.coupons = s.coupons
        /\ t.memberships = s.memberships /\ t.entitlements = s.entitlements
    BY <1>1, <1>4, <1>5 DEF SimState
  <2> HIDE DEF t
  <2> QED  BY <2>1, SimSameRows
<1>6. ok \in BOOLEAN
  BY <1>1 DEF SimUser
<1> QED
  BY <1>3, <1>5, <1>6, SimApplied

\* A state of which user, memberships and entitlements are written.
SimMember(s, u, M, E) == [s EXCEPT !.user = u, !.memberships = M, !.entitlements = E]

LEMMA SimMemberFields ==
  ASSUME NEW s \in SimState, NEW u \in SimUser, NEW M \in Seq(SimMembership),
         NEW E \in Seq(SimEntitlement)
  PROVE  LET t == SimMember(s, u, M, E) IN
         /\ t \in SimState /\ t.user = u /\ t.memberships = M /\ t.entitlements = E
         /\ t.scenario = s.scenario /\ t.orders = s.orders /\ t.coupons = s.coupons
         /\ t.seen = s.seen
  BY DEF SimState, SimMember

LEMMA SimMemberWritten ==
  ASSUME NEW s, SimInv(s), NEW u \in SimUser, NEW M \in Seq(SimMembership),
         NEW E \in Seq(SimEntitlement), SimMembershipOK(SimMember(s, u, M, E))
  PROVE  SimInv(SimMember(s, u, M, E))
<1> DEFINE t == SimMember(s, u, M, E)
<1>1. /\ t \in SimState /\ t.scenario = s.scenario /\ t.orders = s.orders /\ t.coupons = s.coupons
  <2>1. s \in SimState
    BY DEF SimInv
  <2> QED  BY <2>1, SimMemberFields
<1>2. SimMembershipOK(t)
  OBVIOUS
<1> HIDE DEF t
<1>3. \A o \in DOMAIN t.orders : SimHolds(s, o) => SimHolds(t, o)
  BY <1>1 DEF SimHolds
<1>4. SimInv(t)
  BY <1>1, <1>2, <1>3 DEF SimInv
<1> QED
  BY <1>4 DEF t

LEMMA SimUserJoins ==
  ASSUME NEW u \in SimUser, NEW b \in Nat, NEW m \in {"NONE", "ACTIVE", "INACTIVE"}
  PROVE  [u EXCEPT !.balance = b, !.membership = m] \in SimUser
  BY DEF SimUser

LEMMA SimEntitlementFields ==
  ASSUME NEW e \in SimEntitlement
  PROVE  /\ e.granted \in Nat /\ e.consumed \in Nat /\ e.revoked \in Nat
         /\ Ref!available(e) \in Int /\ Ref!available(e) = e.granted - e.consumed - e.revoked
  BY DEF SimEntitlement, Ref!available

LEMMA SimConsumedRow ==
  ASSUME NEW e \in SimEntitlement, NEW q \in Nat
  PROVE  LET row == [e EXCEPT !.consumed = e.consumed + q] IN
         /\ row \in SimEntitlement /\ row.granted = e.granted
         /\ row.consumed = e.consumed + q /\ row.revoked = e.revoked
         /\ Ref!available(row) = Ref!available(e) - q
<1> DEFINE n == e.consumed + q
           row == [e EXCEPT !.consumed = n]
<1>1. n \in Nat
  BY SimEntitlementFields
<1>2. /\ row \in SimEntitlement /\ row.granted = e.granted /\ row.consumed = n
      /\ row.revoked = e.revoked
  <2> HIDE DEF n
  <2> QED  BY <1>1 DEF SimEntitlement
<1>3. Ref!available(row) = Ref!available(e) - q
  <2>1. Ref!available(row) = row.granted - row.consumed - row.revoked
    BY DEF Ref!available
  <2> HIDE DEF row
  <2> QED  BY <1>2, <2>1, SimEntitlementFields
<1> QED
  BY <1>2, <1>3

LEMMA SimActivateMembership ==
  ASSUME NEW s, SimInv(s), NEW a \in Proposal
  PROVE  SimInv(Ref!do_activate_membership(s, a).state)
<1> DEFINE u == [s.user EXCEPT !.balance = s.user.balance - a.amount, !.membership = "ACTIVE"]
           m == [paid |-> a.amount, status |-> "ACTIVE", refunded |-> 0]
           e == [membership |-> 1, granted |-> a.quantity, consumed |-> 0, revoked |-> 0]
           M == <<m>>
           E == <<e>>
           new == SimMember(s, u, M, E)
           ok == /\ s.user.exists /\ rule_spec.membership # None /\ s.memberships = <<>>
                 /\ a.amount * Ref!Fraction = rule_spec.membership.price
                 /\ a.quantity = rule_spec.membership.quantity
                 /\ s.user.balance >= a.amount
<1>1. s \in SimState /\ s.user \in SimUser /\ a.amount \in Nat /\ a.quantity \in Nat
  BY DEF SimInv, SimState, Proposal
<1>2. Ref!do_activate_membership(s, a) = Ref!AppliedIf(ok, s, new)
  <2>1. [s EXCEPT !.user.balance = @ - a.amount, !.user.membership = "ACTIVE",
                  !.memberships = <<m>>, !.entitlements = <<e>>] = new
    <3> HIDE DEF m, e
    <3> QED  BY <1>1 DEF SimMember, SimState, SimUser
  <2> QED  BY <2>1 DEF Ref!do_activate_membership
<1>3. ASSUME ok  PROVE SimInv(new)
  <2>1. u \in SimUser
    <3>1. s.user.balance - a.amount \in Nat
      BY <1>1, <1>3, SimUserFields
    <3> QED  BY <1>1, <3>1, SimUserJoins
  <2>2. m \in SimMembership /\ e \in SimEntitlement
    BY <1>1 DEF SimMembership, SimEntitlement, MembershipStatus
  <2>3. a.quantity > 0
    BY <1>1, <1>3, RuleFields DEF SimInv
  <2>4. m.status = "ACTIVE" /\ m.refunded = 0 /\ m.paid \in Nat
        /\ e.granted > 0 /\ Ref!available(e) >= 0
    BY <1>1, <2>3 DEF Ref!available
  <2> HIDE DEF u, m, e
  <2>5. /\ M \in Seq(SimMembership) /\ Len(M) = 1 /\ M[1] = m
        /\ E \in Seq(SimEntitlement) /\ Len(E) = 1 /\ \A i \in DOMAIN E : E[i] = e
    BY <2>2
  <2> HIDE DEF M, E
  <2>6. new.memberships = M /\ new.entitlements = E
    BY <1>1, <2>1, <2>5, SimMemberFields
  <2>7. SimMembershipOK(new)
    <3> HIDE DEF new
    <3>1. /\ Len(new.memberships) = 1 /\ Len(new.entitlements) = 1
          /\ new.memberships[1] = m /\ \A i \in DOMAIN new.entitlements : new.entitlements[i] = e
      BY <2>5, <2>6
    <3>2. m.refunded <= m.paid
      BY <2>4
    <3> QED  BY <2>4, <3>1, <3>2 DEF SimMembershipOK
  <2> QED  BY <2>1, <2>5, <2>7, SimMemberWritten
<1>4. ok \in BOOLEAN
  BY <1>1 DEF SimUser
<1> QED
  BY <1>2, <1>3, <1>4, SimApplied

LEMMA SimConsumeEntitlement ==
  ASSUME NEW s, SimInv(s), NEW a \in Proposal
  PROVE  SimInv(Ref!do_consume_entitlement(s, a).state)
<1> DEFINE i == a.target
           e == s.entitlements[i]
           q == a.quantity
           row == [e EXCEPT !.consumed = e.consumed + q]
           E == [s.entitlements EXCEPT ![i] = row]
           new == SimMember(s, s.user, s.memberships, E)
           ok == q > 0 /\ Ref!available(e) >= q
<1>1. i \notin DOMAIN s.entitlements => Ref!do_consume_entitlement(s, a).state = s
  BY DEF Ref!do_consume_entitlement, Ref!Reject, Ref!Result
<1> SUFFICES ASSUME i \in DOMAIN s.entitlements
             PROVE  SimInv(Ref!do_consume_entitlement(s, a).state)
  BY <1>1
<1>2. /\ s \in SimState /\ s.user \in SimUser /\ q \in Nat
      /\ s.memberships \in Seq(SimMembership) /\ s.entitlements \in Seq(SimEntitlement)
  BY DEF SimInv, SimState, Proposal
<1>3. e \in SimEntitlement
  BY <1>2
<1>4. Ref!do_consume_entitlement(s, a) = Ref!AppliedIf(ok, s, new)
  <2>1. [s EXCEPT !.entitlements[i].consumed = @ + q] = new
    BY <1>2, <1>3 DEF SimMember, SimState, SimEntitlement
  <2> QED  BY <2>1 DEF Ref!do_consume_entitlement
<1>5. ASSUME ok  PROVE SimInv(new)
  <2>1. SimMembershipOK(s) /\ e.granted > 0
        /\ (s.memberships[1].status # "ACTIVE" => Ref!available(e) = 0)
    BY DEF SimInv, SimMembershipOK
  <2>2. /\ row \in SimEntitlement /\ row.granted = e.granted
        /\ Ref!available(row) = Ref!available(e) - q
    <3> HIDE DEF e, q
    <3> QED  BY <1>2, <1>3, SimConsumedRow
  <2>3. Ref!available(e) \in Int
    <3> HIDE DEF e
    <3> QED  BY <1>3 DEF SimEntitlement, Ref!available
  <2>4. s.memberships[1].status = "ACTIVE"
    BY <1>2, <1>5, <2>1
  <2>5. Ref!available(row) >= 0
    <3> HIDE DEF row, e, q
    <3> QED  BY <1>2, <1>5, <2>2, <2>3
  <2> HIDE DEF row, i
  <2>6. /\ E \in Seq(SimEntitlement) /\ DOMAIN E = DOMAIN s.entitlements
        /\ Len(E) = Len(s.entitlements)
        /\ \A j \in DOMAIN E : E[j] = row \/ E[j] = s.entitlements[j]
    BY <1>2, <2>2, UpdateRow
  <2> HIDE DEF E
  <2>7. new.memberships = s.memberships /\ new.entitlements = E
    BY <1>2, <2>6, SimMemberFields
  <2>8. SimMembershipOK(new)
    <3> HIDE DEF new, e
    <3> QED  BY <2>1, <2>2, <2>4, <2>5, <2>6, <2>7 DEF SimMembershipOK
  <2> QED  BY <1>2, <2>6, <2>8, SimMemberWritten
<1>6. ok \in BOOLEAN
  OBVIOUS
<1> QED
  BY <1>4, <1>5, <1>6, SimApplied

\* A prorated amount, rounded half up, is at most the whole.
LEMMA HalfUpBound ==
  ASSUME NEW p \in Nat, NEW x \in Nat, NEW g \in Nat \ {0}, x <= g
  PROVE  Ref!HalfUp(p * x, g) \in Nat /\ Ref!HalfUp(p * x, g) <= p
<1> DEFINE num == 2 * (p * x) + g
           den == 2 * g
           h == num \div den
<1>1. p * x \in Nat /\ p * x <= p * g /\ p * g \in Nat
  OBVIOUS
<1>2. num \in Nat /\ den \in Nat \ {0}
  BY <1>1
<1>3. num < (p + 1) * den
  <2>1. (p + 1) * den = 2 * (p * g) + 2 * g
    OBVIOUS
  <2> QED  BY <1>1, <2>1
<1>4. h \in Nat /\ h * den <= num
  <2> HIDE DEF num, den
  <2> QED  BY <1>2
<1>5. h <= p
  <2> HIDE DEF num, den, h
  <2>1. SUFFICES ASSUME h >= p + 1  PROVE FALSE
    BY <1>4
  <2>2. h * den >= (p + 1) * den
    BY <1>2, <1>4, <2>1
  <2>3. h * den \in Int /\ (p + 1) * den \in Int
    BY <1>2, <1>4
  <2> QED  BY <1>2, <1>3, <1>4, <2>2, <2>3
<1> QED
  BY <1>4, <1>5 DEF Ref!HalfUp

LEMMA SimMembershipFields ==
  ASSUME NEW m \in SimMembership
  PROVE  m.paid \in Nat /\ m.refunded \in Nat /\ m.status \in MembershipStatus
  BY DEF SimMembership

LEMMA MembershipRefundBound ==
  ASSUME rule_spec \in Ref!RuleSpec, rule_spec.membership # None,
         NEW m \in SimMembership, NEW e \in SimEntitlement, NEW requested \in BOOLEAN,
         e.granted > 0, Ref!available(e) >= 0
  PROVE  /\ Ref!MembershipRefund(m, e, requested) \in Nat
         /\ Ref!MembershipRefund(m, e, requested) <= m.paid
<1>1. /\ m.paid \in Nat /\ e.granted \in Nat \ {0} /\ Ref!available(e) \in Nat
      /\ Ref!available(e) <= e.granted
  BY SimMembershipFields, SimEntitlementFields
<1>2. rule_spec.membership.policy \in {"UNUSED_ONLY", "PRORATED", "NON_REFUNDABLE"}
  BY RuleFields
<1>3. /\ Ref!HalfUp(m.paid * Ref!available(e), e.granted) \in Nat
      /\ Ref!HalfUp(m.paid * Ref!available(e), e.granted) <= m.paid
  BY <1>1, HalfUpBound
<1> QED
  BY <1>1, <1>2, <1>3 DEF Ref!MembershipRefund

\* The rows a cancellation writes.
Ended(m, back) == [m EXCEPT !.refunded = back,
                            !.status = IF back # 0 THEN "REFUNDED" ELSE "CANCELLED"]
Emptied(e) == [e EXCEPT !.revoked = e.revoked + Ref!available(e)]

LEMMA SimEndedRow ==
  ASSUME NEW m \in SimMembership, NEW back \in Nat
  PROVE  /\ Ended(m, back) \in SimMembership /\ Ended(m, back).paid = m.paid
         /\ Ended(m, back).refunded = back
         /\ back # 0 => Ended(m, back).status = "REFUNDED"
         /\ back = 0 => Ended(m, back).status = "CANCELLED"
  BY DEF SimMembership, Ended, MembershipStatus

LEMMA SimEmptiedRow ==
  ASSUME NEW e \in SimEntitlement, Ref!available(e) >= 0
  PROVE  LET row == Emptied(e) IN
         /\ row \in SimEntitlement /\ row.granted = e.granted
         /\ row.consumed = e.consumed /\ row.revoked = e.revoked + Ref!available(e)
         /\ Ref!available(row) = 0
<1> DEFINE n == e.revoked + Ref!available(e)
           row == [e EXCEPT !.revoked = n]
<1>1. n \in Nat
  BY SimEntitlementFields
<1>2. /\ row \in SimEntitlement /\ row.granted = e.granted /\ row.consumed = e.consumed
      /\ row.revoked = n
  <2> HIDE DEF n
  <2> QED  BY <1>1 DEF SimEntitlement
<1>3. Ref!available(row) = 0
  <2>1. Ref!available(row) = row.granted - row.consumed - row.revoked
    BY DEF Ref!available
  <2> HIDE DEF row
  <2> QED  BY <1>2, <2>1, SimEntitlementFields
<1> QED
  BY <1>2, <1>3 DEF Emptied

SimCancelled(s, back) ==
  SimMember(s, [s.user EXCEPT !.balance = s.user.balance + back, !.membership = "INACTIVE"],
            [s.memberships EXCEPT ![1] = Ended(s.memberships[1], back)],
            [s.entitlements EXCEPT ![1] = Emptied(s.entitlements[1])])

\* cancel_membership gives SimCancelled or leaves the state alone.
LEMMA SimCancelEffect ==
  ASSUME NEW s, SimInv(s), NEW a \in Proposal, s.memberships # <<>>, rule_spec.membership # None
  PROVE  LET m == s.memberships[1]
             e == s.entitlements[1]
         IN Ref!do_cancel_membership(s, a)
              = Ref!AppliedIf(/\ m.status = "ACTIVE"
                              /\ ~(/\ a.refund_requested /\ e.consumed > 0
                                   /\ rule_spec.membership.policy = "UNUSED_ONLY"), s,
                  SimCancelled(s, Ref!MembershipRefund(m, e, a.refund_requested)))
<1> DEFINE m == s.memberships[1]
           e == s.entitlements[1]
           back == Ref!MembershipRefund(m, e, a.refund_requested)
<1>1. /\ s \in SimState /\ s.user \in SimUser
      /\ s.memberships \in Seq(SimMembership) /\ s.entitlements \in Seq(SimEntitlement)
  BY DEF SimInv, SimState
<1>2. 1 \in DOMAIN s.memberships /\ 1 \in DOMAIN s.entitlements
  BY <1>1 DEF SimInv, SimMembershipOK
<1>3. m \in SimMembership /\ e \in SimEntitlement
  BY <1>1, <1>2
<1>4. [s EXCEPT !.user.balance = @ + back, !.user.membership = "INACTIVE",
                !.memberships[1] = [@ EXCEPT !.refunded = back,
                                             !.status = IF back # 0 THEN "REFUNDED" ELSE "CANCELLED"],
                !.entitlements[1].revoked = @ + Ref!available(e)]
        = SimCancelled(s, back)
  <2> HIDE DEF back
  <2> QED  BY <1>1, <1>2, <1>3 DEF SimCancelled, SimMember, Ended, Emptied, SimState, SimUser,
                                   SimEntitlement
<1> QED
  BY <1>4 DEF Ref!do_cancel_membership

LEMMA SimCancelMembership ==
  ASSUME NEW s, SimInv(s), NEW a \in Proposal
  PROVE  SimInv(Ref!do_cancel_membership(s, a).state)
<1> DEFINE m == s.memberships[1]
           e == s.entitlements[1]
           back == Ref!MembershipRefund(m, e, a.refund_requested)
           u == [s.user EXCEPT !.balance = s.user.balance + back, !.membership = "INACTIVE"]
           M == [s.memberships EXCEPT ![1] = Ended(m, back)]
           E == [s.entitlements EXCEPT ![1] = Emptied(e)]
           new == SimMember(s, u, M, E)
           ok == /\ m.status = "ACTIVE"
                 /\ ~(/\ a.refund_requested /\ e.consumed > 0
                      /\ rule_spec.membership.policy = "UNUSED_ONLY")
<1>1. s.memberships = <<>> \/ rule_spec.membership = None => Ref!do_cancel_membership(s, a).state = s
  BY DEF Ref!do_cancel_membership, Ref!Reject, Ref!Result
<1> SUFFICES ASSUME s.memberships # <<>>, rule_spec.membership # None
             PROVE  SimInv(Ref!do_cancel_membership(s, a).state)
  BY <1>1
<1>2. /\ s \in SimState /\ s.user \in SimUser /\ a.refund_requested \in BOOLEAN
      /\ s.memberships \in Seq(SimMembership) /\ s.entitlements \in Seq(SimEntitlement)
  BY DEF SimInv, SimState, Proposal
<1>3. /\ DOMAIN s.memberships = {1} /\ DOMAIN s.entitlements = {1}
      /\ Len(s.memberships) = 1 /\ Len(s.entitlements) = 1
  <2>1. Len(s.memberships) \in Nat /\ Len(s.memberships) # 0
    BY <1>2
  <2>2. Len(s.memberships) = Len(s.entitlements) /\ Len(s.memberships) <= 1
    BY DEF SimInv, SimMembershipOK
  <2> DEFINE n == Len(s.memberships)
  <2>3. n = 1
    <3>1. n \in Nat /\ n # 0 /\ n <= 1
      BY <2>1, <2>2
    <3> HIDE DEF n
    <3> QED  BY <3>1
  <2>4. Len(s.memberships) = 1 /\ Len(s.entitlements) = 1
    BY <2>2, <2>3
  <2> QED  BY <1>2, <2>4
<1>4. m \in SimMembership /\ e \in SimEntitlement
  BY <1>2, <1>3
<1>5. e.granted > 0 /\ Ref!available(e) >= 0
  BY <1>3 DEF SimInv, SimMembershipOK
<1>6. Ref!do_cancel_membership(s, a) = Ref!AppliedIf(ok, s, new)
  BY SimCancelEffect DEF SimCancelled
<1>7. back \in Nat /\ back <= m.paid
  <2> HIDE DEF m, e
  <2> QED  BY <1>2, <1>4, <1>5, MembershipRefundBound DEF SimInv
<1>8. Ended(m, back) \in SimMembership /\ Ended(m, back).refunded <= Ended(m, back).paid
  <2> HIDE DEF m, e, back
  <2> QED  BY <1>4, <1>7, SimEndedRow
<1>9. /\ Emptied(e) \in SimEntitlement /\ Emptied(e).granted = e.granted
      /\ Ref!available(Emptied(e)) = 0
  <2> HIDE DEF e
  <2> QED  BY <1>4, <1>5, SimEmptiedRow
<1>10. u \in SimUser
  <2>1. s.user.balance + back \in Nat
    <3> HIDE DEF back
    <3> QED  BY <1>2, <1>7, SimUserFields
  <2> HIDE DEF back
  <2> QED  BY <1>2, <2>1, SimUserJoins
<1> HIDE DEF m, back, e
<1>11. /\ M \in Seq(SimMembership) /\ Len(M) = 1 /\ M[1] = Ended(m, back)
       /\ E \in Seq(SimEntitlement) /\ Len(E) = 1 /\ \A i \in DOMAIN E : E[i] = Emptied(e)
  BY <1>2, <1>3, <1>8, <1>9, UpdateRow
<1> HIDE DEF u, M, E
<1>12. new.memberships = M /\ new.entitlements = E
  BY <1>2, <1>10, <1>11, SimMemberFields
<1>13. SimMembershipOK(new)
  <2> HIDE DEF new
  <2>1. /\ Len(new.memberships) = 1 /\ Len(new.entitlements) = 1
        /\ new.memberships[1] = Ended(m, back)
        /\ \A i \in DOMAIN new.entitlements : new.entitlements[i] = Emptied(e)
    BY <1>11, <1>12
  <2> QED  BY <1>5, <1>8, <1>9, <2>1 DEF SimMembershipOK
<1>14. SimInv(new)
  BY <1>10, <1>11, <1>13, SimMemberWritten
<1> HIDE DEF new
<1> QED
  BY <1>6, <1>14, SimApplied

\* Every handler keeps the simulated world within the rules.
LEMMA SimHandler ==
  ASSUME NEW s, SimInv(s), NEW a \in Proposal
  PROVE  SimInv(Ref!handler(s, a).state)
<1>1. CASE a.type = "create_user"
  BY <1>1, SimCreateUser DEF Ref!handler
<1>2. CASE a.type = "issue_coupon"
  BY <1>2, SimIssueCoupon DEF Ref!handler
<1>3. CASE a.type = "create_order"
  BY <1>3, SimCreateOrder DEF Ref!handler
<1>4. CASE a.type = "apply_coupon"
  BY <1>4, SimApplyCoupon DEF Ref!handler
<1>5. CASE a.type = "pay_order"
  BY <1>5, SimPayOrder DEF Ref!handler
<1>6. CASE a.type = "refund_order"
  BY <1>6, SimRefundOrder DEF Ref!handler
<1>7. CASE a.type = "redeem_points"
  BY <1>7, SimRedeemPoints DEF Ref!handler
<1>8. CASE a.type = "activate_membership"
  BY <1>8, SimActivateMembership DEF Ref!handler
<1>9. CASE a.type = "consume_entitlement"
  BY <1>9, SimConsumeEntitlement DEF Ref!handler
<1>10. CASE a.type = "cancel_membership"
  BY <1>10, SimCancelMembership DEF Ref!handler
<1>11. CASE a.type \notin {"create_user", "issue_coupon", "create_order", "apply_coupon",
                           "pay_order", "refund_order", "redeem_points", "activate_membership",
                           "consume_entitlement", "cancel_membership"}
  BY <1>11 DEF Ref!handler, Ref!Result
<1> QED
  BY <1>1, <1>2, <1>3, <1>4, <1>5, <1>6, <1>7, <1>8, <1>9, <1>10, <1>11

\* So does transition(), which only adds the key to what it has seen.
LEMMA SimTransition ==
  ASSUME NEW s, SimInv(s), NEW a \in Proposal, NEW key \in Nat
  PROVE  SimInv(Ref!transition(s, a, key).state)
<1> DEFINE r == Ref!handler(s, a)
           X == r.state.seen \cup {<<a.type, key>>}
           kept == [r.state EXCEPT !.seen = X]
<1>1. SimInv(r.state)
  BY SimHandler
<1>2. a.type \in SimActions
  BY DEF Proposal
<1>3. r.state.seen \in SUBSET (SimActions \X Nat)
  BY <1>1 DEF SimInv, SimState
<1>4. X \in SUBSET (SimActions \X Nat)
  BY <1>2, <1>3
<1>5. SimInv(kept)
  <2> HIDE DEF r, X
  <2> QED  BY <1>1, <1>4, SimSeen
<1>6. Ref!transition(s, a, key).state \in {s, r.state, kept}
  BY DEF Ref!transition, Ref!Result, Ref!Applied
<1> QED
  BY <1>1, <1>5, <1>6

-----------------------------------------------------------------------------
(* What a strategy may propose *)

LEMMA ProposalArguments ==
  ASSUME NEW a \in Proposal, NEW n \in Nat, NEW q \in Nat
  PROVE  /\ [a EXCEPT !.amount = n] \in Proposal
         /\ [a EXCEPT !.quantity = q] \in Proposal
         /\ [a EXCEPT !.coupon = n] \in Proposal
         /\ [a EXCEPT !.amount = n, !.threshold = q] \in Proposal
         /\ [a EXCEPT !.amount = n, !.quantity = q] \in Proposal
         /\ [a EXCEPT !.refund_requested = TRUE] \in Proposal
  BY DEF Proposal

LEMMA OrderOffersType ==
  ASSUME NEW s, SimInv(s)
  PROVE  Ref!OrderOffers(s) \subseteq Proposal
<1> SUFFICES ASSUME NEW o \in DOMAIN s.orders
             PROVE  {Ref!SimAction("pay_order", o)} \cup Ref!refund_offers(s, o) \subseteq Proposal
  BY DEF Ref!OrderOffers
<1>1. s.orders \in Seq(SimOrder) /\ o \in Nat /\ s.orders[o] \in SimOrder
  BY DEF SimInv, SimState
<1>2. s.orders[o].refunded <= s.orders[o].paid
  BY DEF SimInv, SimOrderOK
<1> DEFINE left == s.orders[o].paid - s.orders[o].refunded
           all == IF left > 0 THEN left ELSE s.orders[o].paid
<1>3. all \in Nat /\ left + 1 \in Nat
  <2>1. s.orders[o].paid \in Nat /\ s.orders[o].refunded \in Nat
    BY <1>1 DEF SimOrder
  <2> QED  BY <1>2, <2>1
<1>4. Ref!SimAction("pay_order", o) \in Proposal /\ Ref!SimAction("refund_order", o) \in Proposal
  BY <1>1 DEF Ref!SimAction, Proposal, SimActions
<1>5. /\ [Ref!SimAction("refund_order", o) EXCEPT !.amount = all] \in Proposal
      /\ [Ref!SimAction("refund_order", o) EXCEPT !.amount = left + 1] \in Proposal
  <2> HIDE DEF left, all
  <2> QED  BY <1>3, <1>4, ProposalArguments
<1> QED
  BY <1>4, <1>5 DEF Ref!refund_offers

\* A rule's amount rounded to cents is a number of cents, and the amount itself if that is one.
LEMMA MoneyType ==
  ASSUME NEW n \in Nat
  PROVE  Ref!money(n) \in Nat
  BY DEF Ref!money, Ref!HalfUp, Ref!Fraction

LEMMA MoneyExact ==
  ASSUME NEW n \in Nat, n % Ref!Fraction = 0
  PROVE  Ref!money(n) * Ref!Fraction = n
  BY DEF Ref!money, Ref!HalfUp, Ref!Fraction

LEMMA LegalType ==
  ASSUME NEW s, SimInv(s)
  PROVE  Ref!legal_actions(s) \subseteq Proposal
<1>1. /\ s.scenario \in Scenarios /\ s.scenario = rule_spec.scenario
      /\ s.user.points \in Nat
      /\ s.orders \in Seq(SimOrder) /\ s.coupons \in Seq(SimCoupon)
      /\ s.memberships \in Seq(SimMembership) /\ s.entitlements \in Seq(SimEntitlement)
  BY DEF SimInv, SimState, SimUser
<1>2. rule_spec \in Ref!RuleSpec
  BY DEF SimInv
<1>4. CASE ~s.user.exists
  <2>1. OpeningBalance \in Nat
    BY OffersAssumption
  <2>2. [Ref!SimAction("create_user", 1) EXCEPT !.amount = OpeningBalance] \in Proposal
    BY <2>1 DEF Ref!SimAction, Proposal, SimActions
  <2> QED  BY <1>4, <2>2 DEF Ref!legal_actions
<1>5. CASE s.user.exists /\ s.scenario = "PROMOTION"
  <2> DEFINE d == Ref!money(rule_spec.promotion.discount)
             n == Ref!money(rule_spec.promotion.minimum)
  <2>1. d \in Nat /\ n \in Nat
    <3>1. rule_spec.promotion.discount \in Nat /\ rule_spec.promotion.minimum \in Nat
      BY <1>1, <1>2, <1>5 DEF Ref!RuleSpec, Ref!PromotionRule
    <3> QED  BY <3>1, MoneyType
  <2>2. /\ [Ref!SimAction("issue_coupon", 1) EXCEPT !.amount = d, !.threshold = n] \in Proposal
        /\ [Ref!SimAction("create_order", 1) EXCEPT !.amount = n] \in Proposal
    <3> HIDE DEF d, n
    <3> QED  BY <2>1 DEF Ref!SimAction, Proposal, SimActions
  <2>3. ASSUME NEW o \in DOMAIN s.orders, NEW c \in DOMAIN s.coupons
        PROVE  [Ref!SimAction("apply_coupon", o) EXCEPT !.coupon = c] \in Proposal
    <3>1. o \in Nat /\ c \in Nat
      BY <1>1
    <3> QED  BY <3>1 DEF Ref!SimAction, Proposal, SimActions
  <2>4. Ref!PromotionOffers(s) \subseteq Proposal
    BY <2>2, <2>3, OrderOffersType DEF Ref!PromotionOffers
  <2> QED  BY <1>5, <2>4 DEF Ref!legal_actions
<1>6. CASE s.user.exists /\ s.scenario = "REFUND_POINTS"
  <2>0. OpeningAmount \in Nat /\ s.user.points \in Nat /\ s.user.points + 1 \in Nat
    BY <1>1, OffersAssumption
  <2> DEFINE p == s.user.points
             q == s.user.points + 1
  <2>3. p \in Nat /\ q \in Nat
    BY <2>0
  <2> HIDE DEF p, q
  <2>4. /\ [Ref!SimAction("create_order", 1) EXCEPT !.amount = OpeningAmount] \in Proposal
        /\ [Ref!SimAction("redeem_points", 1) EXCEPT !.amount = p] \in Proposal
        /\ [Ref!SimAction("redeem_points", 1) EXCEPT !.amount = q] \in Proposal
    BY <2>0, <2>3 DEF Ref!SimAction, Proposal, SimActions
  <2>1. /\ [Ref!SimAction("create_order", 1) EXCEPT !.amount = OpeningAmount] \in Proposal
        /\ [Ref!SimAction("redeem_points", 1) EXCEPT !.amount = s.user.points] \in Proposal
        /\ [Ref!SimAction("redeem_points", 1) EXCEPT !.amount = s.user.points + 1] \in Proposal
    BY <2>4 DEF p, q
  <2>2. Ref!PointsOffers(s) \subseteq Proposal
    BY <2>1, OrderOffersType DEF Ref!PointsOffers
  <2> QED  BY <1>6, <2>2 DEF Ref!legal_actions
<1>7. CASE s.user.exists /\ s.scenario = "MEMBERSHIP_ENTITLEMENT"
  <2> DEFINE n == Ref!money(rule_spec.membership.price)
  <2>1. n \in Nat /\ rule_spec.membership.quantity \in Nat
    <3>1. rule_spec.membership.price \in Nat /\ rule_spec.membership.quantity \in Nat
      BY <1>1, <1>2, <1>7 DEF Ref!RuleSpec, Ref!MembershipRule
    <3> QED  BY <3>1, MoneyType
  <2>2. [Ref!SimAction("activate_membership", 1) EXCEPT !.amount = n,
                                             !.quantity = rule_spec.membership.quantity] \in Proposal
    <3> HIDE DEF n
    <3> QED  BY <2>1 DEF Ref!SimAction, Proposal, SimActions
  <2>3. ASSUME NEW e \in DOMAIN s.entitlements
        PROVE  /\ [Ref!SimAction("consume_entitlement", e) EXCEPT !.quantity = 1] \in Proposal
               /\ [Ref!SimAction("consume_entitlement", e) EXCEPT !.quantity =
                     Ref!AtLeastZero(Ref!available(s.entitlements[e])) + 1] \in Proposal
    <3>1. e \in Nat /\ s.entitlements[e] \in SimEntitlement
      BY <1>1
    <3>2. Ref!AtLeastZero(Ref!available(s.entitlements[e])) + 1 \in Nat
      BY <3>1 DEF Ref!AtLeastZero, Ref!available, SimEntitlement
    <3> QED  BY <3>1, <3>2 DEF Ref!SimAction, Proposal, SimActions
  <2>4. ASSUME NEW m \in DOMAIN s.memberships
        PROVE  [Ref!SimAction("cancel_membership", m) EXCEPT !.refund_requested = TRUE] \in Proposal
    <3>1. m \in Nat
      BY <1>1
    <3> QED  BY <3>1 DEF Ref!SimAction, Proposal, SimActions
  <2>5. Ref!MembershipOffers(s) \subseteq Proposal
    <3> SUFFICES ASSUME NEW x \in Ref!MembershipOffers(s)  PROVE x \in Proposal
      OBVIOUS
    <3>1. \/ x = [Ref!SimAction("activate_membership", 1) EXCEPT
                   !.amount = n,
                   !.quantity = rule_spec.membership.quantity]
          \/ \E e \in DOMAIN s.entitlements :
               \/ x = [Ref!SimAction("consume_entitlement", e) EXCEPT !.quantity = 1]
               \/ x = [Ref!SimAction("consume_entitlement", e) EXCEPT !.quantity =
                         Ref!AtLeastZero(Ref!available(s.entitlements[e])) + 1]
          \/ \E m \in DOMAIN s.memberships :
               x = [Ref!SimAction("cancel_membership", m) EXCEPT !.refund_requested = TRUE]
      BY DEF Ref!MembershipOffers
    <3> QED  BY <2>2, <2>3, <2>4, <3>1, Zenon
  <2> QED  BY <1>7, <2>5 DEF Ref!legal_actions
<1> QED
  BY <1>1, <1>4, <1>5, <1>6, <1>7 DEF Scenarios

LEMMA ProposalsType ==
  ASSUME SimInv(sim)
  PROVE  Proposals \subseteq Proposal
<1>1. Ref!legal_actions(sim) \subseteq Proposal
  BY LegalType
<1> DEFINE legal == Ref!legal_actions(sim)
           A == {[t EXCEPT !.amount = n] : t \in {u \in legal : u.type \in flexible /\ u.quantity = 0},
                                           n \in Amounts}
           Q == {[t EXCEPT !.quantity = q] : t \in {u \in legal : u.quantity > 0},
                                             q \in Quantities}
<1>3. ASSUME NEW x \in A  PROVE x \in Proposal
  <2>1. PICK t \in legal, n \in Amounts : x = [t EXCEPT !.amount = n]
    BY <1>3
  <2>2. t \in Proposal /\ n \in Nat
    BY <1>1, ArgumentsAssumption
  <2> QED  BY <2>1, <2>2 DEF Proposal
<1>4. ASSUME NEW x \in Q  PROVE x \in Proposal
  <2>1. PICK t \in legal, q \in Quantities : x = [t EXCEPT !.quantity = q]
    BY <1>4
  <2>2. t \in Proposal /\ q \in Nat
    BY <1>1, ArgumentsAssumption
  <2> QED  BY <2>1, <2>2 DEF Proposal
<1>5. Proposals = legal \cup A \cup Q
  BY DEF Proposals
<1> HIDE DEF A, Q
<1> QED
  BY <1>1, <1>3, <1>4, <1>5

-----------------------------------------------------------------------------
\* Whatever the strategies propose, however long they search and whichever rules they search,
\* the simulated world keeps what the rules promise (RulesKept): do_refund_order's checks on
\* the running total and on the number of refunds, its proportional revocation, do_pay_order's
\* and do_apply_coupon's handling of a reserved coupon, and do_cancel_membership's refund.
THEOREM SimulatorKeepsRules == ReplaySpec => []RulesKept
<1> DEFINE I == SimInv(sim) /\ steps \in Nat
<1>1. ReplayInit => I
  BY RulesAssumption, SimInit DEF ReplayInit
<1>2. I /\ [ReplayNext]_replayVars => I'
  <2> SUFFICES ASSUME I, [ReplayNext]_replayVars  PROVE I'
    OBVIOUS
  <2>1. CASE UNCHANGED replayVars
    BY <2>1 DEF replayVars, SimInv, SimOrderOK, SimHolds, SimCouponOK, SimMembershipOK, Consumed,
                Ref!target_revoke
  <2>2. ASSUME NEW a \in Proposals, Step(a)  PROVE I'
    <3>1. sim' = Ref!transition(sim, a, steps + 1).state /\ steps' = steps + 1
            /\ rule_spec' = rule_spec
      BY <2>2 DEF Step
    <3>2. SimInv(sim')
      BY <2>2, <3>1, SimTransition, ProposalsType
    <3>3. SimInv(sim)'
      BY <3>1, <3>2 DEF SimInv, SimOrderOK, SimHolds, SimCouponOK, SimMembershipOK, Consumed
    <3> QED  BY <3>1, <3>3
  <2> QED  BY <2>1, <2>2 DEF ReplayNext
<1>3. I => RulesKept
  BY SimKeepsRules
<1> QED
  BY <1>1, <1>2, <1>3, PTL DEF ReplaySpec

-----------------------------------------------------------------------------
(* The two sides compared *)

\* SameState, table by table.
SameUser(u, U) ==
  /\ u.exists = U.exists /\ u.balance = U.balance /\ u.points = U.points
  /\ (u.membership = "ACTIVE") = (U.membership = "ACTIVE")
SameOrders(R, O) == Len(R) = Len(O) /\ \A o \in DOMAIN O : SameOrder(R[o], O[o])
SameCoupons(R, C) ==
  /\ Len(R) = Len(C)
  /\ \A c \in DOMAIN C : R[c].status = C[c].status /\ R[c].usage = C[c].usage
SameMemberships(R, M) == Len(R) = Len(M) /\ \A m \in DOMAIN M : R[m].status = M[m].status
SameEntitlements(R, E) ==
  \A e \in DOMAIN E : R[e].consumed = E[e].consumed /\ R[e].revoked = E[e].revoked
Same(s, U, C, O, M, E) ==
  /\ SameUser(s.user, U) /\ SameOrders(s.orders, O) /\ SameCoupons(s.coupons, C)
  /\ SameMemberships(s.memberships, M) /\ SameEntitlements(s.entitlements, E)

\* What SameState does not compare but later answers depend on.
CouponTerms(R, C) ==
  \A c \in DOMAIN C : /\ R[c].face = C[c].face /\ R[c].threshold = C[c].threshold
                      /\ C[c].status = "RESERVED" => R[c].reserved = C[c].reserved
MembershipTerms(R, M) == \A m \in DOMAIN M : R[m].paid = M[m].paid /\ M[m].paid > 0
EntitlementTerms(R, E) ==
  \A e \in DOMAIN E : /\ R[e].granted = E[e].granted /\ E[e].membership = e
                      /\ E[e].status \in {"REVOKED", "CONSUMED"} => available(E[e]) <= 0
Terms(s, U, C, M, E) ==
  /\ CouponTerms(s.coupons, C) /\ MembershipTerms(s.memberships, M)
  /\ EntitlementTerms(s.entitlements, E)
  /\ Len(M) = Len(E) /\ (M = <<>> => U.membership = "INACTIVE")

Typed(U, C, O, M, E) ==
  /\ U \in User /\ C \in Seq(Coupon) /\ O \in Seq(Order)
  /\ M \in Seq(Membership) /\ E \in Seq(Entitlement)

Paired(s) ==
  /\ Same(s, user, coupons, orders, memberships, entitlements)
  /\ Terms(s, user, coupons, memberships, entitlements)
  /\ Typed(user, coupons, orders, memberships, entitlements)

\* What excuses each way of parting, of the proposal a and the simulated state s.
SimulatorExcuse(a, s) ==
  \/ a.type = "pay_order" /\ s.orders[a.target].paid = 0
  \/ a.type = "refund_order" /\ rule_spec.points # None /\ ~rule_spec.points.revoke
  \/ a.type = "cancel_membership" /\ rule_spec.membership.policy # "UNUSED_ONLY"
SandboxExcuse(a, s) ==
  CASE a.type = "issue_coupon" -> rule_spec.promotion.currency # "CNY"
    [] a.type = "refund_order" ->
         \/ Axis("REFUND_AGAINST_ORIGINAL") \/ Axis("POINTS_GRANTED_AGAIN_ON_REFUND")
         \/ rule_spec.refund # None
              /\ (~rule_spec.refund.partial
                  \/ s.orders[a.target].refunds = rule_spec.refund.maximum)
    [] a.type = "redeem_points" -> Axis("POINTS_OVERREDEMPTION")
    [] a.type = "consume_entitlement" -> Axis("ENTITLEMENT_OVERCONSUMPTION")
    [] a.type = "cancel_membership" -> Axis("FULL_REFUND_AFTER_CONSUMPTION")
    [] a.type = "activate_membership" ->
         Len(s.memberships) = 1 \/ rule_spec.membership.price % Ref!Fraction # 0
    [] OTHER -> FALSE
StatesExcuse(a) ==
  CASE a.type = "pay_order" ->
         rule_spec.points # None /\ (rule_spec.points.spend # Unit * Ref!Fraction
                                     \/ rule_spec.points.granted # 1)
    [] a.type = "refund_order" ->
         \/ Axis("POINTS_GRANTED_AGAIN_ON_REFUND")
         \/ rule_spec.points # None /\ ~rule_spec.points.revoke
         \/ rule_spec.promotion # None
              /\ rule_spec.promotion.restore # Axis("COUPON_RESTORED_ON_REFUND")
    [] a.type = "cancel_membership" ->
         Axis("ENTITLEMENT_LEFT_AFTER_REFUND") \/ Axis("ENTITLEMENT_OVERCONSUMPTION")
           \/ rule_spec.membership.policy # "UNUSED_ONLY"
    [] OTHER -> FALSE
CrashExcuse(a, s) ==
  a.type = "refund_order" /\ rule_spec.points.revoke /\ s.orders[a.target].points = 0

\* What the two sides answer, h being the simulator's result.
Replies(a, h) ==
  /\ h.status \in {"APPLIED", "REJECTED", "CRASHED"}
  /\ h.status # "APPLIED" => h.state = sim
  /\ h.status = "APPLIED" /\ ~Posted(a) => SimulatorExcuse(a, h.state)
  /\ h.status = "REJECTED" /\ Posted(a) => SandboxExcuse(a, h.state)
  /\ h.status = "CRASHED" => CrashExcuse(a, h.state)

\* What they do when both accept.
Effects(a, s) ==
  /\ Typed(user', coupons', orders', memberships', entitlements')
  /\ Same(s, user', coupons', orders', memberships', entitlements') =>
       Terms(s, user', coupons', memberships', entitlements')
  /\ Same(s, user', coupons', orders', memberships', entitlements') \/ StatesExcuse(a)

\* The sandbox's side of a path on which the two have agreed so far.
Agreeing(a) ==
  /\ SimInv(sim) /\ Paired(sim) /\ rule_spec.scenario = scenario
  /\ a \in Proposal /\ Supported(a.type)

LEMMA AppliedStatus ==
  ASSUME NEW cond \in BOOLEAN, NEW s, NEW t
  PROVE  /\ cond => Ref!AppliedIf(cond, s, t).status = "APPLIED" /\ Ref!AppliedIf(cond, s, t).state = t
         /\ ~cond => Ref!AppliedIf(cond, s, t).status = "REJECTED" /\ Ref!AppliedIf(cond, s, t).state = s
  BY DEF Ref!AppliedIf, Ref!Applied, Ref!Reject, Ref!Result

\* Where the two sides accept alike there is nothing to excuse.
LEMMA SameAnswer ==
  ASSUME NEW a, NEW cond \in BOOLEAN, NEW t, cond <=> Posted(a)
  PROVE  Replies(a, Ref!AppliedIf(cond, sim, t))
  BY AppliedStatus DEF Replies

\* The rules that the scenario must have.
LEMMA ScenarioRules ==
  ASSUME rule_spec \in Ref!RuleSpec
  PROVE  /\ rule_spec.scenario = "PROMOTION" <=> rule_spec.promotion # None
         /\ rule_spec.scenario = "REFUND_POINTS" <=> rule_spec.points # None
         /\ rule_spec.scenario = "MEMBERSHIP_ENTITLEMENT" <=> rule_spec.membership # None
  BY NoneAssumption DEF Ref!RuleSpec

LEMMA SupportedIn ==
  ASSUME NEW a, Agreeing(a)
  PROVE  /\ a.type \in {"issue_coupon", "apply_coupon"} => scenario = "PROMOTION"
         /\ a.type = "redeem_points" => scenario = "REFUND_POINTS"
         /\ a.type \in {"create_order", "pay_order", "refund_order"} =>
              scenario \in {"PROMOTION", "REFUND_POINTS"}
         /\ a.type \in {"activate_membership", "consume_entitlement", "cancel_membership"} =>
              scenario = "MEMBERSHIP_ENTITLEMENT"
<1>1. scenario \in Scenarios
  BY DEF Agreeing, SimInv, SimState
<1> QED
  BY <1>1 DEF Agreeing, Supported, scenario_actions, Scenarios

LEMMA PostedAs ==
  ASSUME NEW a, Supported(a.type)
  PROVE  /\ a.type = "create_user" => (Posted(a) <=> CanCreateUser(a.amount))
         /\ a.type = "issue_coupon" => (Posted(a) <=> CanIssueCoupon(a.amount, a.threshold))
         /\ a.type = "create_order" => (Posted(a) <=> CanCreateOrder(a.amount))
         /\ a.type = "apply_coupon" => (Posted(a) <=> CanApplyCoupon(a.target, a.coupon))
         /\ a.type = "pay_order" => (Posted(a) <=> CanPayOrder(a.target))
         /\ a.type = "refund_order" => (Posted(a) <=> CanRefundOrder(a.target, a.amount))
         /\ a.type = "redeem_points" => (Posted(a) <=> CanRedeemPoints(a.amount))
         /\ a.type = "activate_membership" =>
              (Posted(a) <=> CanActivateMembership(a.amount, a.quantity))
         /\ a.type = "consume_entitlement" =>
              (Posted(a) <=> CanConsumeEntitlement(a.target, a.quantity))
         /\ a.type = "cancel_membership" =>
              (Posted(a) <=> \E e \in DOMAIN entitlements :
                               CanCancelMembership(a.target, a.refund_requested, e))
  BY DEF Posted

LEMMA PostAs ==
  ASSUME NEW a, NEW k, Post(a, k)
  PROVE  /\ a.type = "create_user" => CreateUser(a.amount, k)
         /\ a.type = "issue_coupon" => IssueCoupon(a.amount, a.threshold, k)
         /\ a.type = "create_order" => CreateOrder(a.amount, k)
         /\ a.type = "apply_coupon" => ApplyCoupon(a.target, a.coupon, k)
         /\ a.type = "pay_order" => PayOrder(a.target, k)
         /\ a.type = "refund_order" => RefundOrder(a.target, a.amount, k)
         /\ a.type = "redeem_points" => RedeemPoints(a.amount, k)
         /\ a.type = "activate_membership" => ActivateMembership(a.amount, a.quantity, k)
         /\ a.type = "consume_entitlement" => ConsumeEntitlement(a.target, a.quantity, k)
         /\ a.type = "cancel_membership" =>
              \E e \in DOMAIN entitlements : /\ entitlements[e].membership = a.target
                                             /\ CancelMembership(a.target, a.refund_requested, e, k)
  BY DEF Post

LEMMA SimFacts ==
  ASSUME NEW s, SimInv(s)
  PROVE  /\ rule_spec \in Ref!RuleSpec /\ s \in SimState /\ s.user \in SimUser
         /\ s.orders \in Seq(SimOrder) /\ s.coupons \in Seq(SimCoupon)
         /\ s.memberships \in Seq(SimMembership) /\ s.entitlements \in Seq(SimEntitlement)
         /\ \A o \in DOMAIN s.orders : SimOrderOK(s.orders[o]) /\ SimHolds(s, o)
         /\ SimMembershipOK(s)
  BY DEF SimInv, SimState

LEMMA ProposalFields ==
  ASSUME NEW a \in Proposal
  PROVE  /\ a.target \in Nat /\ a.coupon \in Nat /\ a.amount \in Nat /\ a.threshold \in Nat
         /\ a.quantity \in Nat /\ a.refund_requested \in BOOLEAN
  BY DEF Proposal

\* Both sides write or add the same row.
LEMMA OrdersWritten ==
  ASSUME NEW R \in Seq(SimOrder), NEW O \in Seq(Order), SameOrders(R, O), NEW i \in DOMAIN O,
         NEW r \in SimOrder, NEW o \in Order, SameOrder(r, o)
  PROVE  SameOrders([R EXCEPT ![i] = r], [O EXCEPT ![i] = o])
<1>1. DOMAIN R = DOMAIN O
  BY DEF SameOrders
<1>2. Len([R EXCEPT ![i] = r]) = Len([O EXCEPT ![i] = o])
  BY <1>1, UpdateRow DEF SameOrders
<1>3. ASSUME NEW j \in DOMAIN [O EXCEPT ![i] = o]
      PROVE  SameOrder([R EXCEPT ![i] = r][j], [O EXCEPT ![i] = o][j])
  BY <1>1, UpdateRow DEF SameOrders
<1> QED
  BY <1>2, <1>3 DEF SameOrders

LEMMA OrdersAdded ==
  ASSUME NEW R \in Seq(SimOrder), NEW O \in Seq(Order), SameOrders(R, O),
         NEW r \in SimOrder, NEW o \in Order, SameOrder(r, o)
  PROVE  SameOrders(Append(R, r), Append(O, o))
<1>1. DOMAIN R = DOMAIN O /\ Len(R) = Len(O)
  BY DEF SameOrders
<1>2. Len(Append(R, r)) = Len(Append(O, o))
  BY <1>1
<1>3. ASSUME NEW j \in DOMAIN Append(O, o)
      PROVE  SameOrder(Append(R, r)[j], Append(O, o)[j])
  <2>1. CASE j \in DOMAIN O
    <3>1. Append(R, r)[j] = R[j] /\ Append(O, o)[j] = O[j]
      BY <1>1, <2>1, AppendRow
    <3> QED  BY <2>1, <3>1 DEF SameOrders
  <2>2. CASE j = Len(O) + 1
    <3>1. Append(R, r)[j] = r /\ Append(O, o)[j] = o
      BY <1>1, <2>2, AppendRow
    <3> QED  BY <3>1
  <2>3. DOMAIN Append(O, o) = DOMAIN O \cup {Len(O) + 1}
    BY AppendRow
  <2> QED  BY <2>1, <2>2, <2>3
<1> QED
  BY <1>2, <1>3 DEF SameOrders

SameCoupon(r, c) == r.status = c.status /\ r.usage = c.usage
CouponTerm(r, c) == /\ r.face = c.face /\ r.threshold = c.threshold
                    /\ c.status = "RESERVED" => r.reserved = c.reserved

LEMMA CouponsWritten ==
  ASSUME NEW R \in Seq(SimCoupon), NEW C \in Seq(Coupon), SameCoupons(R, C), NEW i \in DOMAIN C,
         NEW r \in SimCoupon, NEW c \in Coupon
  PROVE  /\ SameCoupon(r, c) => SameCoupons([R EXCEPT ![i] = r], [C EXCEPT ![i] = c])
         /\ CouponTerms(R, C) /\ CouponTerm(r, c) =>
              CouponTerms([R EXCEPT ![i] = r], [C EXCEPT ![i] = c])
<1> DEFINE R1 == [R EXCEPT ![i] = r]
           C1 == [C EXCEPT ![i] = c]
<1>1. DOMAIN R = DOMAIN C
  BY DEF SameCoupons
<1>2. /\ Len(R1) = Len(C1) /\ DOMAIN C1 = DOMAIN C /\ R1[i] = r /\ C1[i] = c
      /\ \A j \in DOMAIN C : j # i => R1[j] = R[j] /\ C1[j] = C[j]
  BY <1>1, UpdateRow DEF SameCoupons
<1> HIDE DEF R1, C1
<1>3. SameCoupon(r, c) => SameCoupons(R1, C1)
  BY <1>2 DEF SameCoupons, SameCoupon
<1>4. CouponTerms(R, C) /\ CouponTerm(r, c) => CouponTerms(R1, C1)
  BY <1>2 DEF CouponTerms, CouponTerm
<1> QED
  BY <1>3, <1>4 DEF R1, C1

LEMMA CouponsAdded ==
  ASSUME NEW R \in Seq(SimCoupon), NEW C \in Seq(Coupon), SameCoupons(R, C), CouponTerms(R, C),
         NEW r \in SimCoupon, NEW c \in Coupon, SameCoupon(r, c), CouponTerm(r, c)
  PROVE  SameCoupons(Append(R, r), Append(C, c)) /\ CouponTerms(Append(R, r), Append(C, c))
<1> DEFINE R1 == Append(R, r)
           C1 == Append(C, c)
           n == Len(C) + 1
<1>1. DOMAIN R = DOMAIN C /\ Len(R) = Len(C)
  BY DEF SameCoupons
<1>2. /\ Len(R1) = Len(C1) /\ DOMAIN C1 = DOMAIN C \cup {n} /\ R1[n] = r /\ C1[n] = c
      /\ \A j \in DOMAIN C : R1[j] = R[j] /\ C1[j] = C[j]
  BY <1>1, AppendRow
<1> HIDE DEF R1, C1
<1>3. SameCoupons(R1, C1)
  BY <1>2 DEF SameCoupons, SameCoupon
<1>4. CouponTerms(R1, C1)
  BY <1>2 DEF CouponTerms, CouponTerm
<1> QED
  BY <1>3, <1>4 DEF R1, C1

-----------------------------------------------------------------------------
(* The commands that need no excuse *)

Compared(a, h) ==
  /\ Replies(a, h)
  /\ \A k : Posted(a) /\ Post(a, k) /\ h.status = "APPLIED" => Effects(a, h.state)

LEMMA ComparedAlike ==
  ASSUME NEW a, NEW cond \in BOOLEAN, NEW t, cond <=> Posted(a),
         \A k : cond /\ Post(a, k) => Effects(a, t)
  PROVE  Compared(a, Ref!AppliedIf(cond, sim, t))
<1>1. Replies(a, Ref!AppliedIf(cond, sim, t))
  BY SameAnswer
<1>2. Ref!AppliedIf(cond, sim, t).status = "APPLIED" => Ref!AppliedIf(cond, sim, t).state = t
  BY AppliedStatus
<1> QED
  BY <1>1, <1>2 DEF Compared

\* The user alone is written.
LEMMA UserEffects ==
  ASSUME NEW a, Agreeing(a), NEW t,
         UNCHANGED <<coupons, orders, memberships, entitlements>>,
         t.orders = sim.orders, t.coupons = sim.coupons,
         t.memberships = sim.memberships, t.entitlements = sim.entitlements,
         user' \in User, SameUser(t.user, user'),
         user'.membership = user.membership \/ user'.membership = "INACTIVE"
  PROVE  Effects(a, t)
<1>1. Typed(user', coupons', orders', memberships', entitlements')
  BY DEF Agreeing, Paired, Typed
<1>2. Same(t, user', coupons', orders', memberships', entitlements')
  BY DEF Agreeing, Paired, Same
<1>3. Terms(t, user', coupons', memberships', entitlements')
  BY DEF Agreeing, Paired, Terms
<1> QED
  BY <1>1, <1>2, <1>3 DEF Effects

LEMMA CreateUserCompared ==
  ASSUME NEW a, Agreeing(a), a.type = "create_user"
  PROVE  Compared(a, Ref!do_create_user(sim, a))
<1> DEFINE u == [exists |-> TRUE, balance |-> a.amount, points |-> 0, membership |-> "NONE"]
           t == [sim EXCEPT !.user = u]
           ok == ~sim.user.exists
<1>1. Ref!do_create_user(sim, a) = Ref!AppliedIf(ok, sim, t)
  BY DEF Ref!do_create_user
<1>2. SimInv(sim) /\ Paired(sim) /\ a \in Proposal /\ a.amount \in Nat
  BY ProposalFields DEF Agreeing
<1>3. ok \in BOOLEAN /\ (ok <=> Posted(a))
  BY PostedAs DEF Agreeing, CanCreateUser, Paired, Same, SameUser
<1>4. ASSUME NEW k, Post(a, k)  PROVE Effects(a, t)
  <2>1. /\ user' = [exists |-> TRUE, balance |-> a.amount, points |-> 0, membership |-> "INACTIVE"]
        /\ UNCHANGED <<coupons, orders, memberships, entitlements>>
    BY <1>4, PostAs DEF CreateUser
  <2>2. /\ t.user = u /\ t.orders = sim.orders /\ t.coupons = sim.coupons
        /\ t.memberships = sim.memberships /\ t.entitlements = sim.entitlements
    BY <1>2, SimFacts DEF SimState
  <2>3. user' \in User /\ SameUser(u, user') /\ user'.membership = "INACTIVE"
    BY <1>2, <2>1 DEF User, SameUser
  <2> HIDE DEF t, u
  <2> QED  BY <2>1, <2>2, <2>3, UserEffects
<1> HIDE DEF ok, t
<1> QED
  BY <1>1, <1>3, <1>4, ComparedAlike

LEMMA RedeemPointsCompared ==
  ASSUME NEW a, Agreeing(a), a.type = "redeem_points"
  PROVE  Compared(a, Ref!do_redeem_points(sim, a))
<1> DEFINE u == [sim.user EXCEPT !.points = sim.user.points - a.amount]
           t == [sim EXCEPT !.user = u]
           ok == sim.user.exists /\ a.amount > 0 /\ sim.user.points >= a.amount
           h == Ref!do_redeem_points(sim, a)
<1>1. /\ sim \in SimState /\ sim.user \in SimUser /\ a.amount \in Nat
      /\ SameUser(sim.user, user) /\ user \in User
  BY ProposalFields, SimFacts DEF Agreeing, Paired, Same, Typed
<1>2. h = Ref!AppliedIf(ok, sim, t)
  <2>1. [sim EXCEPT !.user.points = @ - a.amount] = t
    BY <1>1 DEF SimState, SimUser
  <2> QED  BY <2>1 DEF Ref!do_redeem_points
<1>3. ok \in BOOLEAN
  BY <1>1 DEF SimUser
<1>4. /\ ok => Posted(a)
      /\ Posted(a) /\ ~ok => Axis("POINTS_OVERREDEMPTION")
  BY <1>1, PostedAs DEF Agreeing, CanRedeemPoints, SameUser
<1>5. ASSUME NEW k, Post(a, k)  PROVE Effects(a, t)
  <2>1. /\ user' = [user EXCEPT !.points = user.points - a.amount]
        /\ UNCHANGED <<coupons, orders, memberships, entitlements>>
    BY <1>5, PostAs DEF RedeemPoints
  <2>2. /\ t.user = u /\ t.orders = sim.orders /\ t.coupons = sim.coupons
        /\ t.memberships = sim.memberships /\ t.entitlements = sim.entitlements
    BY <1>1 DEF SimState
  <2>3. user' \in User /\ SameUser(u, user') /\ user'.membership = user.membership
    BY <1>1, <2>1 DEF User, SimUser, SameUser
  <2> HIDE DEF t, u
  <2> QED  BY <2>1, <2>2, <2>3, UserEffects
<1> HIDE DEF ok, t, h
<1>6. /\ ok => h.status = "APPLIED" /\ h.state = t
      /\ ~ok => h.status = "REJECTED" /\ h.state = sim
  BY <1>2, <1>3, AppliedStatus
<1>7. Replies(a, h)
  BY <1>3, <1>4, <1>6 DEF Replies, SandboxExcuse
<1>8. Compared(a, h)
  BY <1>3, <1>5, <1>6, <1>7 DEF Compared
<1> QED
  BY <1>8 DEF h

LEMMA IssueCouponCompared ==
  ASSUME NEW a, Agreeing(a), a.type = "issue_coupon"
  PROVE  Compared(a, Ref!do_issue_coupon(sim, a))
<1> DEFINE row == [face |-> a.amount, threshold |-> a.threshold, status |-> "AVAILABLE",
                   reserved |-> 0, used |-> 0, usage |-> 0]
           t == [sim EXCEPT !.coupons = Append(sim.coupons, row)]
           ok == /\ sim.user.exists /\ rule_spec.promotion # None /\ a.amount > 0
                 /\ rule_spec.promotion.currency = "CNY"
           h == Ref!do_issue_coupon(sim, a)
<1>1. h = Ref!AppliedIf(ok, sim, t)
  BY DEF Ref!do_issue_coupon
<1>2. /\ Paired(sim) /\ sim \in SimState /\ sim.user \in SimUser /\ rule_spec.promotion # None
      /\ sim.coupons \in Seq(SimCoupon) /\ a.amount \in Nat /\ a.threshold \in Nat
  BY ProposalFields, SimFacts, SupportedIn, ScenarioRules DEF Agreeing
<1>3. /\ ok \in BOOLEAN /\ (ok => Posted(a))
      /\ Posted(a) /\ ~ok => rule_spec.promotion.currency # "CNY"
  BY <1>2, PostedAs DEF Agreeing, CanIssueCoupon, Paired, Same, SameUser, SimUser
<1>4. ASSUME NEW k, Post(a, k)  PROVE Effects(a, t)
  <2>1. coupons' = Append(coupons, row) /\ UNCHANGED <<user, orders, memberships, entitlements>>
    BY <1>4, PostAs DEF IssueCoupon
  <2>2. /\ t.user = sim.user /\ t.orders = sim.orders /\ t.coupons = Append(sim.coupons, row)
        /\ t.memberships = sim.memberships /\ t.entitlements = sim.entitlements
    <3> HIDE DEF row
    <3> QED  BY <1>2 DEF SimState
  <2>3. row \in Coupon /\ row \in SimCoupon /\ SameCoupon(row, row) /\ CouponTerm(row, row)
    BY <1>2 DEF Coupon, SimCoupon, CouponStatus, SameCoupon, CouponTerm
  <2> HIDE DEF t, row
  <2>4. Typed(user', coupons', orders', memberships', entitlements')
    BY <1>2, <2>1, <2>3 DEF Paired, Typed
  <2>5. SameCoupons(t.coupons, coupons') /\ CouponTerms(t.coupons, coupons')
    BY <1>2, <2>1, <2>2, <2>3, CouponsAdded DEF Paired, Same, Terms, Typed
  <2>6. Same(t, user', coupons', orders', memberships', entitlements')
    BY <1>2, <2>1, <2>2, <2>5 DEF Paired, Same
  <2>7. Terms(t, user', coupons', memberships', entitlements')
    BY <1>2, <2>1, <2>2, <2>5 DEF Paired, Terms
  <2> QED  BY <2>4, <2>6, <2>7 DEF Effects
<1> HIDE DEF ok, t, h
<1>5. /\ ok => h.status = "APPLIED" /\ h.state = t
      /\ ~ok => h.status = "REJECTED" /\ h.state = sim
  BY <1>1, <1>3, AppliedStatus
<1>6. Replies(a, h)
  BY <1>3, <1>5 DEF Replies, SandboxExcuse
<1>7. Compared(a, h)
  BY <1>3, <1>4, <1>5, <1>6 DEF Compared
<1> QED
  BY <1>7 DEF h

LEMMA CreateOrderCompared ==
  ASSUME NEW a, Agreeing(a), a.type = "create_order"
  PROVE  Compared(a, Ref!do_create_order(sim, a))
<1> DEFINE row == [original |-> a.amount, discount |-> 0, paid |-> 0, refunded |-> 0,
                   points |-> 0, revoked |-> 0, refunds |-> 0, status |-> "CREATED",
                   coupon |-> 0]
           new == [original |-> a.amount, discount |-> 0, paid |-> 0, refunded |-> 0,
                   points |-> 0, ledgerGrant |-> 0, ledgerRevoke |-> 0,
                   status |-> "PENDING_PAYMENT", coupon |-> 0]
           t == [sim EXCEPT !.orders = Append(sim.orders, row)]
           ok == sim.user.exists /\ a.amount > 0
<1>1. Ref!do_create_order(sim, a) = Ref!AppliedIf(ok, sim, t)
  BY DEF Ref!do_create_order
<1>2. /\ Paired(sim) /\ sim \in SimState /\ sim.user \in SimUser
      /\ sim.orders \in Seq(SimOrder) /\ a.amount \in Nat
  BY ProposalFields, SimFacts DEF Agreeing
<1>3. ok \in BOOLEAN /\ (ok <=> Posted(a))
  BY <1>2, PostedAs DEF Agreeing, CanCreateOrder, Paired, Same, SameUser, SimUser
<1>4. ASSUME NEW k, Post(a, k)  PROVE Effects(a, t)
  <2>1. orders' = Append(orders, new) /\ UNCHANGED <<user, coupons, memberships, entitlements>>
    BY <1>4, PostAs DEF CreateOrder
  <2>2. /\ t.user = sim.user /\ t.orders = Append(sim.orders, row) /\ t.coupons = sim.coupons
        /\ t.memberships = sim.memberships /\ t.entitlements = sim.entitlements
    <3> HIDE DEF row
    <3> QED  BY <1>2 DEF SimState
  <2>3. row \in SimOrder /\ new \in Order /\ SameOrder(row, new)
    BY <1>2 DEF Order, SimOrder, OrderStatus, SameOrder
  <2> HIDE DEF t, row, new
  <2>4. Typed(user', coupons', orders', memberships', entitlements')
    BY <1>2, <2>1, <2>3 DEF Paired, Typed
  <2>5. SameOrders(t.orders, orders')
    BY <1>2, <2>1, <2>2, <2>3, OrdersAdded DEF Paired, Same, Typed
  <2>6. Same(t, user', coupons', orders', memberships', entitlements')
    BY <1>2, <2>1, <2>2, <2>5 DEF Paired, Same
  <2>7. Terms(t, user', coupons', memberships', entitlements')
    BY <1>2, <2>1, <2>2 DEF Paired, Terms
  <2> QED  BY <2>4, <2>6, <2>7 DEF Effects
<1> HIDE DEF ok, t
<1> QED
  BY <1>1, <1>3, <1>4, ComparedAlike

\* The rows of an order and of a coupon on both sides.
LEMMA PairedOrder ==
  ASSUME NEW a, Agreeing(a)
  PROVE  /\ DOMAIN sim.orders = DOMAIN orders
         /\ \A i \in DOMAIN orders :
              /\ orders[i] \in Order /\ sim.orders[i] \in SimOrder /\ i \in Nat \ {0}
              /\ SameOrder(sim.orders[i], orders[i])
              /\ sim.orders[i].status = "CREATED" <=> orders[i].status = "PENDING_PAYMENT"
              /\ sim.orders[i].status # "CREATED" => sim.orders[i].status = orders[i].status
<1>1. /\ orders \in Seq(Order) /\ sim.orders \in Seq(SimOrder) /\ SameOrders(sim.orders, orders)
  BY SimFacts DEF Agreeing, Paired, Typed, Same
<1>2. DOMAIN sim.orders = DOMAIN orders
  BY <1>1 DEF SameOrders
<1>3. ASSUME NEW i \in DOMAIN orders
      PROVE  /\ orders[i] \in Order /\ sim.orders[i] \in SimOrder /\ i \in Nat \ {0}
             /\ SameOrder(sim.orders[i], orders[i])
  BY <1>1, <1>2 DEF SameOrders
<1>4. ASSUME NEW r \in SimOrder, NEW o \in Order, SameOrder(r, o)
      PROVE  /\ r.status = "CREATED" <=> o.status = "PENDING_PAYMENT"
             /\ r.status # "CREATED" => r.status = o.status
  <2>1. o.status \in OrderStatus
    BY DEF Order
  <2> QED  BY <1>4, <2>1 DEF SameOrder, OrderStatus
<1> QED
  BY <1>2, <1>3, <1>4

LEMMA PairedCoupon ==
  ASSUME NEW a, Agreeing(a)
  PROVE  /\ DOMAIN sim.coupons = DOMAIN coupons
         /\ \A c \in DOMAIN coupons :
              /\ coupons[c] \in Coupon /\ sim.coupons[c] \in SimCoupon /\ c \in Nat \ {0}
              /\ SameCoupon(sim.coupons[c], coupons[c]) /\ CouponTerm(sim.coupons[c], coupons[c])
              /\ coupons[c].status # "RESTORED"
<1>1. /\ coupons \in Seq(Coupon) /\ sim.coupons \in Seq(SimCoupon)
      /\ SameCoupons(sim.coupons, coupons) /\ CouponTerms(sim.coupons, coupons)
  BY SimFacts DEF Agreeing, Paired, Typed, Same, Terms
<1>2. DOMAIN sim.coupons = DOMAIN coupons
  BY <1>1 DEF SameCoupons
<1>3. ASSUME NEW c \in DOMAIN coupons
      PROVE  /\ coupons[c] \in Coupon /\ sim.coupons[c] \in SimCoupon /\ c \in Nat \ {0}
             /\ SameCoupon(sim.coupons[c], coupons[c]) /\ CouponTerm(sim.coupons[c], coupons[c])
  BY <1>1, <1>2 DEF SameCoupons, CouponTerms, SameCoupon, CouponTerm
<1>4. \A r \in SimCoupon, c \in Coupon : SameCoupon(r, c) => c.status # "RESTORED"
  BY DEF SimCoupon, SameCoupon
<1> QED
  BY <1>2, <1>3, <1>4

LEMMA OrderFields ==
  ASSUME NEW o \in Order
  PROVE  /\ o.original \in Nat /\ o.discount \in Nat /\ o.paid \in Nat /\ o.refunded \in Nat
         /\ o.points \in Nat /\ o.ledgerGrant \in Nat /\ o.ledgerRevoke \in Nat /\ o.coupon \in Nat
         /\ o.status \in OrderStatus
  BY DEF Order

LEMMA CouponFields ==
  ASSUME NEW c \in Coupon
  PROVE  c.face \in Nat /\ c.threshold \in Nat /\ c.usage \in Nat /\ c.status \in CouponStatus
  BY DEF Coupon

LEMMA CouponOnOrder ==
  ASSUME NEW r \in SimOrder, NEW o \in Order, SameOrder(r, o), NEW c \in Nat, NEW d \in Nat
  PROVE  /\ [r EXCEPT !.coupon = c, !.discount = d] \in SimOrder
         /\ [o EXCEPT !.discount = d, !.coupon = c] \in Order
         /\ SameOrder([r EXCEPT !.coupon = c, !.discount = d],
                      [o EXCEPT !.discount = d, !.coupon = c])
  BY DEF SimOrder, Order, SameOrder

LEMMA CouponReserved ==
  ASSUME NEW r \in SimCoupon, NEW c \in Coupon, SameCoupon(r, c), CouponTerm(r, c), NEW i \in Nat
  PROVE  LET x == [r EXCEPT !.status = "RESERVED", !.reserved = i]
             y == [c EXCEPT !.status = "RESERVED", !.reserved = i]
         IN x \in SimCoupon /\ y \in Coupon /\ SameCoupon(x, y) /\ CouponTerm(x, y)
  BY DEF SimCoupon, Coupon, CouponStatus, SameCoupon, CouponTerm

LEMMA ApplyCouponCompared ==
  ASSUME NEW a, Agreeing(a), a.type = "apply_coupon"
  PROVE  Compared(a, Ref!do_apply_coupon(sim, a))
<1> DEFINE i == a.target
           c == a.coupon
           d == Ref!Least(sim.coupons[c].face, sim.orders[i].original)
           row == [sim.orders[i] EXCEPT !.coupon = c, !.discount = d]
           crow == [sim.coupons[c] EXCEPT !.status = "RESERVED", !.reserved = i]
           new == [orders[i] EXCEPT !.discount = d, !.coupon = c]
           cnew == [coupons[c] EXCEPT !.status = "RESERVED", !.reserved = i]
           t == [sim EXCEPT !.orders[i].coupon = c, !.orders[i].discount = d,
                            !.coupons[c].status = "RESERVED", !.coupons[c].reserved = i]
           ok == /\ i \in DOMAIN sim.orders /\ c \in DOMAIN sim.coupons
                 /\ Ref!Applicable(sim.orders[i], sim.coupons[c])
<1>1. Ref!do_apply_coupon(sim, a) = Ref!AppliedIf(ok, sim, t)
  <2>1. CASE i \in DOMAIN sim.orders /\ c \in DOMAIN sim.coupons
    <3>1. Ref!do_apply_coupon(sim, a)
            = Ref!AppliedIf(Ref!Applicable(sim.orders[i], sim.coupons[c]), sim, t)
      BY <2>1 DEF Ref!do_apply_coupon
    <3> HIDE DEF t, i, c
    <3> QED  BY <2>1, <3>1 DEF Ref!AppliedIf
  <2>2. CASE ~(i \in DOMAIN sim.orders /\ c \in DOMAIN sim.coupons)
    <3>1. Ref!do_apply_coupon(sim, a) = Ref!Reject(sim)
      BY <2>2 DEF Ref!do_apply_coupon
    <3> HIDE DEF t
    <3> QED  BY <2>2, <3>1 DEF Ref!AppliedIf
  <2> QED  BY <2>1, <2>2
<1>2. /\ Paired(sim) /\ sim \in SimState
      /\ sim.orders \in Seq(SimOrder) /\ sim.coupons \in Seq(SimCoupon)
      /\ orders \in Seq(Order) /\ coupons \in Seq(Coupon)
      /\ DOMAIN sim.orders = DOMAIN orders /\ DOMAIN sim.coupons = DOMAIN coupons
  BY SimFacts, PairedOrder, PairedCoupon DEF Agreeing, Paired, Typed
<1>3. ASSUME i \in DOMAIN orders, c \in DOMAIN coupons
      PROVE  /\ sim.orders[i] \in SimOrder /\ orders[i] \in Order /\ i \in Nat /\ c \in Nat
             /\ sim.coupons[c] \in SimCoupon /\ coupons[c] \in Coupon
             /\ SameOrder(sim.orders[i], orders[i])
             /\ SameCoupon(sim.coupons[c], coupons[c]) /\ CouponTerm(sim.coupons[c], coupons[c])
             /\ sim.orders[i].status = "CREATED" <=> orders[i].status = "PENDING_PAYMENT"
             /\ coupons[c].status # "RESTORED"
  BY <1>3, PairedOrder, PairedCoupon
<1>4. ok \in BOOLEAN /\ (ok <=> Posted(a))
  <2>1. Posted(a) <=> CanApplyCoupon(i, c)
    BY PostedAs DEF Agreeing
  <2>2. ASSUME i \in DOMAIN orders, c \in DOMAIN coupons
        PROVE  Ref!Applicable(sim.orders[i], sim.coupons[c]) <=> CanApplyCoupon(i, c)
    BY <1>3, <2>2 DEF Ref!Applicable, CanApplyCoupon, SameOrder, SameCoupon, CouponTerm
  <2>3. CanApplyCoupon(i, c) => i \in DOMAIN orders /\ c \in DOMAIN coupons
    BY DEF CanApplyCoupon
  <2>4. Ref!Applicable(sim.orders[i], sim.coupons[c]) \in BOOLEAN
    BY DEF Ref!Applicable
  <2> QED  BY <1>2, <2>1, <2>2, <2>3, <2>4
<1>5. ASSUME NEW k, ok, Post(a, k)  PROVE Effects(a, t)
  <2>0. i \in DOMAIN orders /\ c \in DOMAIN coupons
    BY <1>2, <1>5
  <2>1. d \in Nat /\ d = Lower(coupons[c].face, orders[i].original)
    <3>1. sim.coupons[c].face = coupons[c].face /\ sim.orders[i].original = orders[i].original
      BY <1>3, <2>0 DEF CouponTerm, SameOrder
    <3>2. coupons[c].face \in Nat /\ orders[i].original \in Nat
      BY <1>3, <2>0, OrderFields, CouponFields
    <3> QED  BY <3>1, <3>2 DEF Ref!Least, Lower
  <2>2. /\ orders' = [orders EXCEPT ![i] = new] /\ coupons' = [coupons EXCEPT ![c] = cnew]
        /\ UNCHANGED <<user, memberships, entitlements>>
    <3>1. ApplyCoupon(i, c, k)
      BY <1>5, PostAs
    <3> HIDE DEF d, i, c
    <3> QED  BY <2>1, <3>1 DEF ApplyCoupon
  <2>3. /\ t.user = sim.user /\ t.memberships = sim.memberships
        /\ t.entitlements = sim.entitlements
        /\ t.orders = [sim.orders EXCEPT ![i] = row] /\ t.coupons = [sim.coupons EXCEPT ![c] = crow]
    <3> HIDE DEF d, i, c
    <3> QED  BY <1>2, <2>0 DEF SimState
  <2> HIDE DEF d, i, c, t
  <2>4. row \in SimOrder /\ new \in Order /\ SameOrder(row, new)
    BY <1>3, <2>0, <2>1, CouponOnOrder
  <2>5. crow \in SimCoupon /\ cnew \in Coupon /\ SameCoupon(crow, cnew) /\ CouponTerm(crow, cnew)
    BY <1>3, <2>0, CouponReserved
  <2> HIDE DEF row, crow, new, cnew
  <2>6. Typed(user', coupons', orders', memberships', entitlements')
    BY <1>2, <2>0, <2>2, <2>4, <2>5, UpdateRow DEF Paired, Typed
  <2>11. /\ SameOrders(sim.orders, orders) /\ SameCoupons(sim.coupons, coupons)
         /\ CouponTerms(sim.coupons, coupons)
    BY <1>2 DEF Paired, Same, Terms
  <2>7. SameOrders(t.orders, orders')
    <3>1. SameOrders([sim.orders EXCEPT ![i] = row], [orders EXCEPT ![i] = new])
      BY <1>2, <2>0, <2>4, <2>11, OrdersWritten
    <3> QED  BY <2>2, <2>3, <3>1
  <2>8. SameCoupons(t.coupons, coupons') /\ CouponTerms(t.coupons, coupons')
    <3>1. /\ SameCoupons([sim.coupons EXCEPT ![c] = crow], [coupons EXCEPT ![c] = cnew])
          /\ CouponTerms([sim.coupons EXCEPT ![c] = crow], [coupons EXCEPT ![c] = cnew])
      BY <1>2, <2>0, <2>5, <2>11, CouponsWritten
    <3> QED  BY <2>2, <2>3, <3>1
  <2>9. Same(t, user', coupons', orders', memberships', entitlements')
    BY <1>2, <2>2, <2>3, <2>7, <2>8 DEF Paired, Same
  <2>10. Terms(t, user', coupons', memberships', entitlements')
    BY <1>2, <2>2, <2>3, <2>8 DEF Paired, Terms
  <2> QED  BY <2>6, <2>9, <2>10 DEF Effects
<1> HIDE DEF ok, t
<1> QED
  BY <1>1, <1>4, <1>5, ComparedAlike

\* The rows that pay_order writes on the two sides.
LEMMA PaidRows ==
  ASSUME NEW r \in SimOrder, NEW o \in Order, SameOrder(r, o), NEW n \in Nat, NEW g \in Nat,
         NEW p \in Nat
  PROVE  LET x == [r EXCEPT !.paid = n, !.points = g, !.status = "PAID"]
             y == [o EXCEPT !.paid = n, !.status = "PAID", !.points = p,
                            !.ledgerGrant = o.ledgerGrant + p]
         IN x \in SimOrder /\ y \in Order /\ (g = p => SameOrder(x, y)) /\ x.paid = n
<1> DEFINE q == o.ledgerGrant + p
           x == [r EXCEPT !.paid = n, !.points = g, !.status = "PAID"]
           y == [o EXCEPT !.paid = n, !.status = "PAID", !.points = p, !.ledgerGrant = q]
<1>1. q \in Nat
  BY OrderFields
<1> HIDE DEF q
<1>2. x \in SimOrder /\ y \in Order /\ x.paid = n
  BY <1>1 DEF SimOrder, Order, OrderStatus
<1>3. ASSUME g = p  PROVE SameOrder(x, y)
  BY <1>1, <1>3 DEF SimOrder, Order, SameOrder
<1> QED
  BY <1>2, <1>3 DEF q

Used(c, i) == [c EXCEPT !.status = "USED", !.reserved = 0, !.used = i, !.usage = c.usage + 1]

LEMMA SpentRows ==
  ASSUME NEW r \in SimCoupon, NEW c \in Coupon, SameCoupon(r, c), CouponTerm(r, c), NEW i \in Nat
  PROVE  /\ Spent(r, i) \in SimCoupon /\ Used(c, i) \in Coupon
         /\ SameCoupon(Spent(r, i), Used(c, i)) /\ CouponTerm(Spent(r, i), Used(c, i))
<1> DEFINE n == c.usage + 1
           y == [c EXCEPT !.status = "USED", !.reserved = 0, !.used = i, !.usage = n]
<1>1. n \in Nat
  BY CouponFields
<1>2. /\ Spent(r, i) \in SimCoupon /\ Spent(r, i).status = "USED"
      /\ Spent(r, i).usage = r.usage + 1
      /\ Spent(r, i).face = r.face /\ Spent(r, i).threshold = r.threshold
  BY SimCouponSpent
<1>3. /\ y \in Coupon /\ y.status = "USED" /\ y.usage = n /\ y.face = c.face
      /\ y.threshold = c.threshold
  <2> HIDE DEF n
  <2> QED  BY <1>1 DEF Coupon, CouponStatus
<1>4. y = Used(c, i) /\ r.usage + 1 = n
  BY DEF Used, SameCoupon
<1> HIDE DEF y, n
<1>5. SameCoupon(Spent(r, i), y) /\ CouponTerm(Spent(r, i), y)
  BY <1>2, <1>3, <1>4 DEF SameCoupon, CouponTerm
<1> QED
  BY <1>2, <1>3, <1>4, <1>5

LEMMA UserFields ==
  ASSUME NEW u \in User
  PROVE  u.balance \in Int /\ u.points \in Int /\ u.exists \in BOOLEAN
         /\ u.membership \in {"INACTIVE", "ACTIVE"}
  BY DEF User

UserAt(u, b, p) == [u EXCEPT !.balance = b, !.points = p]

LEMMA UsersMoved ==
  ASSUME NEW u \in SimUser, NEW v \in User, SameUser(u, v), NEW b \in Int, NEW p \in Int,
         NEW q \in Int
  PROVE  /\ UserAt(v, b, q) \in User /\ UserAt(v, b, q).membership = v.membership
         /\ p = q => SameUser(UserAt(u, b, p), UserAt(v, b, q))
  BY DEF SimUser, User, SameUser, UserAt

\* A quotient does not depend on the unit both numbers are counted in.
LEMMA FinerQuotient ==
  ASSUME NEW n \in Nat, NEW u \in Nat \ {0}
  PROVE  (n * 100) \div (u * 100) = n \div u
<1> DEFINE q == n \div u
           d == (n * 100) \div (u * 100)
<1>1. q \in Nat /\ q * u <= n /\ n < (q + 1) * u
  OBVIOUS
<1>2. d \in Nat /\ d * (u * 100) <= n * 100 /\ n * 100 < (d + 1) * (u * 100)
  OBVIOUS
<1> HIDE DEF q, d
<1>3. d * u \in Nat /\ q * u \in Nat /\ d * u <= n /\ n < d * u + u /\ n < q * u + u
  BY <1>1, <1>2
<1>4. ~(d < q) /\ ~(q < d)
  <2>1. ASSUME d < q  PROVE FALSE
    <3>1. (d + 1) * u <= q * u
      BY <1>1, <1>2, <2>1
    <3> QED  BY <1>1, <1>2, <1>3, <3>1
  <2>2. ASSUME q < d  PROVE FALSE
    <3>1. (q + 1) * u <= d * u
      BY <1>1, <1>2, <2>2
    <3> QED  BY <1>1, <1>2, <1>3, <3>1
  <2> QED  BY <2>1, <2>2
<1> QED
  BY <1>1, <1>2, <1>4 DEF q, d

\* The simulator's points are the sandbox's where the rule is the sandbox's.
LEMMA EarnedAlike ==
  ASSUME rule_spec \in Ref!RuleSpec, rule_spec.scenario = scenario, NEW n \in Nat,
         ~(rule_spec.points # None /\ (rule_spec.points.spend # Unit * Ref!Fraction
                                       \/ rule_spec.points.granted # 1))
  PROVE  Ref!Earned(n) = IF RefundPoints THEN points_for(n) ELSE 0
<1>1. CASE rule_spec.points = None
  BY <1>1, ScenarioRules DEF Ref!Earned, RefundPoints
<1>2. CASE rule_spec.points # None
  <2>1. /\ rule_spec.points.spend = Unit * Ref!Fraction /\ rule_spec.points.granted = 1
        /\ RefundPoints
    BY <1>2, ScenarioRules DEF RefundPoints
  <2>2. n \div Unit \in Int /\ (n * Ref!Fraction) \div (Unit * Ref!Fraction) = n \div Unit
    BY UnitAssumption, FinerQuotient DEF Ref!Fraction
  <2>3. Ref!Earned(n) = (n \div Unit) * 1
    BY <1>2, <2>1, <2>2 DEF Ref!Earned
  <2> QED  BY <2>1, <2>2, <2>3 DEF points_for
<1> QED
  BY <1>1, <1>2

PaidState(s, i, n, g) ==
  SimWith(s, [s.user EXCEPT !.balance = s.user.balance - n, !.points = s.user.points + g],
          [s.orders EXCEPT ![i] = [s.orders[i] EXCEPT !.paid = n, !.points = g, !.status = "PAID"]],
          IF s.orders[i].coupon = 0 THEN s.coupons
          ELSE [s.coupons EXCEPT ![s.orders[i].coupon] = Spent(s.coupons[s.orders[i].coupon], i)])

LEMMA SimPayEffect ==
  ASSUME NEW s, SimInv(s), NEW a \in Proposal
  PROVE  LET o == s.orders[a.target]
             n == o.original - o.discount
         IN Ref!do_pay_order(s, a)
              = Ref!AppliedIf(/\ a.target \in DOMAIN s.orders /\ o.status = "CREATED"
                              /\ s.user.balance >= n, s, PaidState(s, a.target, n, Ref!Earned(n)))
<1> DEFINE i == a.target
           o == s.orders[i]
           c == o.coupon
           n == o.original - o.discount
           g == Ref!Earned(n)
           u == [s.user EXCEPT !.balance = s.user.balance - n, !.points = s.user.points + g]
           row == [o EXCEPT !.paid = n, !.points = g, !.status = "PAID"]
           O == [s.orders EXCEPT ![i] = row]
           paid == [s EXCEPT !.user.balance = @ - n, !.user.points = @ + g, !.orders[i] = row]
           t == PaidState(s, i, n, g)
           cond == o.status = "CREATED" /\ s.user.balance >= n
<1>1. s \in SimState /\ s.user \in SimUser
  BY SimFacts
<1>2. paid = [s EXCEPT !.user = u, !.orders = O]
  BY <1>1 DEF SimState, SimUser
<1>3. (IF c = 0 THEN paid
       ELSE [paid EXCEPT !.coupons[c] = [@ EXCEPT !.status = "USED", !.used = i,
                                                 !.usage = s.coupons[c].usage + 1]]) = t
  <2>1. CASE c = 0
    BY <1>1, <1>2, <2>1 DEF SimState, SimWith, Spent, PaidState
  <2>2. CASE c # 0
    BY <1>1, <1>2, <2>2 DEF SimState, SimWith, Spent, PaidState
  <2> QED  BY <2>1, <2>2
<1>4. Ref!do_pay_order(s, a)
        = IF ~(i \in DOMAIN s.orders) THEN Ref!Reject(s)
          ELSE Ref!AppliedIf(cond, s,
                 IF c = 0 THEN paid
                 ELSE [paid EXCEPT !.coupons[c] = [@ EXCEPT !.status = "USED", !.used = i,
                                                           !.usage = s.coupons[c].usage + 1]])
  BY DEF Ref!do_pay_order
<1>5. Ref!do_pay_order(s, a)
        = IF ~(i \in DOMAIN s.orders) THEN Ref!Reject(s) ELSE Ref!AppliedIf(cond, s, t)
  <2> HIDE DEF paid, t, cond
  <2> QED  BY <1>3, <1>4
<1> HIDE DEF t
<1>6. Ref!do_pay_order(s, a)
        = Ref!AppliedIf(i \in DOMAIN s.orders /\ o.status = "CREATED" /\ s.user.balance >= n, s, t)
  BY <1>5 DEF Ref!AppliedIf
<1> QED
  BY <1>6 DEF t

\* The coupon of a pending order is reserved for it on both sides, that of a paid one used by it.
LEMMA PairedHolds ==
  ASSUME NEW a, Agreeing(a), NEW i \in DOMAIN orders, orders[i].coupon # 0
  PROVE  /\ orders[i].status = "PENDING_PAYMENT" => HoldsCoupon(i)
         /\ orders[i].status # "REFUNDED" => orders[i].coupon \in DOMAIN coupons
<1>1. /\ i \in DOMAIN sim.orders /\ SameOrder(sim.orders[i], orders[i])
      /\ sim.orders[i].status = "CREATED" <=> orders[i].status = "PENDING_PAYMENT"
      /\ sim.orders[i].status # "CREATED" => sim.orders[i].status = orders[i].status
  BY PairedOrder
<1>2. SimHolds(sim, i) /\ sim.orders[i].coupon = orders[i].coupon
  BY <1>1, SimFacts DEF Agreeing, SameOrder
<1>3. DOMAIN sim.coupons = DOMAIN coupons
  BY PairedCoupon
<1>4. orders[i].status # "REFUNDED" => orders[i].coupon \in DOMAIN coupons
  BY <1>1, <1>2, <1>3 DEF SimHolds
<1>5. ASSUME orders[i].status = "PENDING_PAYMENT"  PROVE HoldsCoupon(i)
  <2> DEFINE c == orders[i].coupon
  <2>1. c \in DOMAIN coupons /\ sim.coupons[c].status = "RESERVED" /\ sim.coupons[c].reserved = i
    BY <1>1, <1>2, <1>3, <1>5 DEF SimHolds
  <2>2. SameCoupon(sim.coupons[c], coupons[c]) /\ CouponTerm(sim.coupons[c], coupons[c])
    BY <2>1, PairedCoupon
  <2> QED  BY <2>1, <2>2 DEF HoldsCoupon, SameCoupon, CouponTerm
<1> QED
  BY <1>4, <1>5

LEMMA PayOrderCompared ==
  ASSUME NEW a, Agreeing(a), a.type = "pay_order"
  PROVE  Compared(a, Ref!do_pay_order(sim, a))
<1> DEFINE i == a.target
           r == sim.orders[i]
           o == orders[i]
           n == r.original - r.discount
           g == Ref!Earned(n)
           p == IF RefundPoints THEN points_for(n) ELSE 0
           c == o.coupon
           row == [r EXCEPT !.paid = n, !.points = g, !.status = "PAID"]
           new == [o EXCEPT !.paid = n, !.status = "PAID", !.points = p,
                            !.ledgerGrant = o.ledgerGrant + p]
           u == [sim.user EXCEPT !.balance = sim.user.balance - n, !.points = sim.user.points + g]
           v == [user EXCEPT !.balance = user.balance - n, !.points = user.points + p]
           O == [sim.orders EXCEPT ![i] = row]
           C == IF r.coupon = 0 THEN sim.coupons
                ELSE [sim.coupons EXCEPT ![r.coupon] = Spent(sim.coupons[r.coupon], i)]
           t == PaidState(sim, i, n, g)
           ok == i \in DOMAIN sim.orders /\ r.status = "CREATED" /\ sim.user.balance >= n
           h == Ref!do_pay_order(sim, a)
<1>1. h = Ref!AppliedIf(ok, sim, t)
  BY SimPayEffect DEF Agreeing
<1>2. /\ Paired(sim) /\ SimInv(sim) /\ sim \in SimState /\ sim.user \in SimUser /\ user \in User
      /\ sim.orders \in Seq(SimOrder) /\ sim.coupons \in Seq(SimCoupon)
      /\ orders \in Seq(Order) /\ coupons \in Seq(Coupon) /\ SameUser(sim.user, user)
      /\ SameOrders(sim.orders, orders) /\ SameCoupons(sim.coupons, coupons)
      /\ CouponTerms(sim.coupons, coupons)
      /\ DOMAIN sim.orders = DOMAIN orders /\ DOMAIN sim.coupons = DOMAIN coupons
      /\ rule_spec \in Ref!RuleSpec /\ rule_spec.scenario = scenario
  BY SimFacts, PairedOrder, PairedCoupon DEF Agreeing, Paired, Typed, Same, Terms
<1>3. ASSUME i \in DOMAIN orders
      PROVE  /\ r \in SimOrder /\ o \in Order /\ i \in Nat /\ SameOrder(r, o)
             /\ r.status = "CREATED" <=> o.status = "PENDING_PAYMENT"
             /\ r.original = o.original /\ r.discount = o.discount /\ r.coupon = c
             /\ n \in Nat /\ n = o.original - o.discount
  <2>1. /\ r \in SimOrder /\ o \in Order /\ i \in Nat /\ SameOrder(r, o)
        /\ r.status = "CREATED" <=> o.status = "PENDING_PAYMENT"
        /\ SimOrderOK(r)
    BY <1>2, <1>3, PairedOrder, SimFacts
  <2> HIDE DEF r, o
  <2>2. r.original = o.original /\ r.discount = o.discount /\ r.coupon = c
        /\ r.discount <= r.original
    BY <2>1 DEF SameOrder, SimOrderOK
  <2>3. r.original \in Nat /\ r.discount \in Nat
    BY <2>1, SimOrderFields
  <2>4. n \in Nat
    BY <2>2, <2>3
  <2> QED  BY <2>1, <2>2, <2>4
<1>4. ok \in BOOLEAN /\ (Posted(a) <=> ok /\ n > 0)
  <2>1. Posted(a) <=> CanPayOrder(i)
    BY PostedAs DEF Agreeing
  <2>2. ASSUME i \in DOMAIN orders
        PROVE  CanPayOrder(i) <=> r.status = "CREATED" /\ sim.user.balance >= n /\ n > 0
    <3>1. o.status = "PENDING_PAYMENT" /\ o.coupon # 0 => HoldsCoupon(i)
      BY <2>2, PairedHolds
    <3>2. sim.user.balance = user.balance
      BY <1>2 DEF SameUser
    <3>3. CanPayOrder(i) <=> /\ o.status = "PENDING_PAYMENT" /\ o.original - o.discount > 0
                             /\ user.balance >= o.original - o.discount
                             /\ o.coupon # 0 => HoldsCoupon(i)
      BY <2>2 DEF CanPayOrder
    <3> HIDE DEF r, o, n
    <3> QED  BY <1>3, <2>2, <3>1, <3>2, <3>3
  <2>3. CanPayOrder(i) => i \in DOMAIN orders
    BY DEF CanPayOrder
  <2> QED  BY <1>2, <2>1, <2>2, <2>3
<1>5. ASSUME ok
      PROVE  /\ g \in Nat /\ p \in Nat /\ row \in SimOrder /\ new \in Order
             /\ g = p => SameOrder(row, new)
             /\ row.paid = n
             /\ v \in User /\ v.membership = user.membership
             /\ g = p => SameUser(u, v)
             /\ u \in SimUser
  <2>1. n \in Nat /\ i \in DOMAIN orders /\ r \in SimOrder /\ o \in Order /\ SameOrder(r, o)
    BY <1>2, <1>3, <1>5
  <2>2. g \in Nat /\ p \in Nat
    <3> HIDE DEF n
    <3> QED  BY <1>2, <2>1, EarnedType, PointsForType
  <2> HIDE DEF g, p, r, o
  <2>3. row \in SimOrder /\ new \in Order /\ (g = p => SameOrder(row, new)) /\ row.paid = n
    <3> HIDE DEF n
    <3> QED  BY <2>1, <2>2, PaidRows
  <2>4. sim.user.balance = user.balance /\ sim.user.points = user.points
        /\ user.balance \in Int /\ user.points \in Int /\ sim.user.balance >= n
    BY <1>2, <1>5, UserFields DEF SameUser
  <2>5. /\ u \in SimUser /\ user.balance - n \in Int /\ user.points + p \in Int
        /\ sim.user.points + g \in Int /\ user.balance - n = sim.user.balance - n
        /\ g = p => sim.user.points + g = user.points + p
    <3>1. sim.user.balance - n \in Nat /\ sim.user.points + g \in Nat
      <4> HIDE DEF n
      <4> QED  BY <1>2, <2>1, <2>2, <2>4, SimUserFields
    <3>2. u \in SimUser
      <4> HIDE DEF n
      <4> QED  BY <1>2, <3>1, SimUserMoved
    <3> HIDE DEF n, u
    <3> QED  BY <2>1, <2>2, <2>4, <3>1, <3>2
  <2>6. v \in User /\ v.membership = user.membership /\ (g = p => SameUser(u, v))
    <3> DEFINE b == user.balance - n
               x == sim.user.points + g
               y == user.points + p
    <3>1. b \in Int /\ x \in Int /\ y \in Int /\ b = sim.user.balance - n /\ (g = p => x = y)
      BY <2>5
    <3>2. u = UserAt(sim.user, b, x) /\ v = UserAt(user, b, y)
      BY <3>1 DEF UserAt
    <3> HIDE DEF b, x, y, u, v
    <3>3. UserAt(user, b, y) \in User /\ UserAt(user, b, y).membership = user.membership
          /\ (x = y => SameUser(UserAt(sim.user, b, x), UserAt(user, b, y)))
      BY <1>2, <3>1, UsersMoved
    <3> QED  BY <3>1, <3>2, <3>3
  <2> QED  BY <2>2, <2>3, <2>5, <2>6
<1> HIDE DEF r, o, g, p
<1>6. ASSUME ok
      PROVE  /\ C = sim.coupons \/ (c # 0 /\ c \in DOMAIN coupons
                                     /\ C = [sim.coupons EXCEPT ![c] = Spent(sim.coupons[c], i)])
             /\ c = 0 => C = sim.coupons
             /\ c # 0 => c \in DOMAIN coupons /\ C = [sim.coupons EXCEPT ![c] = Spent(sim.coupons[c], i)]
             /\ c # 0 => /\ Spent(sim.coupons[c], i) \in SimCoupon /\ Used(coupons[c], i) \in Coupon
                         /\ SameCoupon(Spent(sim.coupons[c], i), Used(coupons[c], i))
                         /\ CouponTerm(Spent(sim.coupons[c], i), Used(coupons[c], i))
  <2>1. i \in DOMAIN orders /\ i \in Nat /\ r.coupon = c /\ o.status = "PENDING_PAYMENT"
    BY <1>2, <1>3, <1>6
  <2>2. c # 0 => c \in DOMAIN coupons
    BY <2>1, PairedHolds DEF o
  <2> HIDE DEF c
  <2>3. ASSUME c # 0
        PROVE  /\ Spent(sim.coupons[c], i) \in SimCoupon /\ Used(coupons[c], i) \in Coupon
               /\ SameCoupon(Spent(sim.coupons[c], i), Used(coupons[c], i))
               /\ CouponTerm(Spent(sim.coupons[c], i), Used(coupons[c], i))
    <3>1. /\ coupons[c] \in Coupon /\ sim.coupons[c] \in SimCoupon
          /\ SameCoupon(sim.coupons[c], coupons[c]) /\ CouponTerm(sim.coupons[c], coupons[c])
      BY <2>2, <2>3, PairedCoupon
    <3> QED  BY <2>1, <3>1, SpentRows
  <2> QED  BY <2>1, <2>2, <2>3
<1>7. ASSUME ok
      PROVE  /\ t.user = u /\ t.orders = O /\ t.coupons = C
             /\ t.memberships = sim.memberships /\ t.entitlements = sim.entitlements
             /\ t.orders[i].paid = n
  <2>0. i \in DOMAIN sim.orders
    BY <1>7
  <2>1. t = SimWith(sim, u, O, C)
    BY DEF PaidState, r
  <2>2. u \in SimUser /\ row \in SimOrder /\ row.paid = n
    BY <1>5, <1>7
  <2>3. O \in Seq(SimOrder) /\ O[i] = row
    <3> HIDE DEF row, i
    <3> QED  BY <1>2, <2>0, <2>2, UpdateRow
  <2>4. C \in Seq(SimCoupon)
    <3> HIDE DEF C, c
    <3>1. CASE c = 0
      BY <1>2, <1>6, <1>7, <3>1
    <3>2. CASE c # 0
      <4> DEFINE S == Spent(sim.coupons[c], i)
      <4>1. S \in SimCoupon /\ c \in DOMAIN sim.coupons /\ C = [sim.coupons EXCEPT ![c] = S]
        BY <1>2, <1>6, <1>7, <3>2
      <4> HIDE DEF S
      <4> QED  BY <1>2, <4>1, UpdateRow
    <3> QED  BY <3>1, <3>2
  <2> HIDE DEF u, O, C, t, row
  <2> QED  BY <1>2, <2>1, <2>2, <2>3, <2>4, SimWithFields
<1>8. ASSUME NEW k, ok, Post(a, k)  PROVE Effects(a, t)
  <2>1. n = o.original - o.discount /\ i \in DOMAIN orders
    BY <1>2, <1>3, <1>8
  <2>2. /\ user' = v /\ orders' = [orders EXCEPT ![i] = new]
        /\ coupons' = IF c = 0 THEN coupons ELSE [coupons EXCEPT ![c] = Used(coupons[c], i)]
        /\ UNCHANGED <<memberships, entitlements>>
    <3>1. PayOrder(i, k)
      BY <1>8, PostAs
    <3> HIDE DEF n, i
    <3> QED  BY <2>1, <3>1 DEF PayOrder, Used, p, o
  <2>3. /\ row \in SimOrder /\ new \in Order /\ v \in User /\ v.membership = user.membership
        /\ g = p => SameOrder(row, new) /\ SameUser(u, v)
    BY <1>5, <1>8
  <2> DEFINE V == v
             N == new
  <2>4. /\ t.user = u /\ t.orders = O /\ t.coupons = C
        /\ t.memberships = sim.memberships /\ t.entitlements = sim.entitlements
    BY <1>7, <1>8
  <2>5. coupons' \in Seq(Coupon) /\ SameCoupons(C, coupons') /\ CouponTerms(C, coupons')
    <3>1. CASE c = 0
      BY <1>2, <1>6, <1>8, <2>2, <3>1
    <3>2. CASE c # 0
      <4> DEFINE x == Spent(sim.coupons[c], i)
                 y == Used(coupons[c], i)
      <4>1. /\ c \in DOMAIN coupons /\ C = [sim.coupons EXCEPT ![c] = x]
            /\ x \in SimCoupon /\ y \in Coupon /\ SameCoupon(x, y) /\ CouponTerm(x, y)
            /\ coupons' = [coupons EXCEPT ![c] = y]
        BY <1>6, <1>8, <2>2, <3>2
      <4> HIDE DEF x, y, C, c
      <4> QED  BY <1>2, <4>1, UpdateRow, CouponsWritten
    <3> QED  BY <3>1, <3>2
  <2> HIDE DEF t, u, v, row, new, O, C, c, i
  <2>6. orders' \in Seq(Order) /\ (g = p => SameOrders([sim.orders EXCEPT ![i] = row], orders'))
    BY <1>2, <2>1, <2>2, <2>3, UpdateRow, OrdersWritten
  <2>7. Typed(user', coupons', orders', memberships', entitlements')
    BY <1>2, <2>2, <2>3, <2>5, <2>6 DEF Paired, Typed
  <2>8. Terms(t, user', coupons', memberships', entitlements')
    BY <1>2, <2>2, <2>3, <2>4, <2>5 DEF Paired, Terms
  <2>9. g = p => Same(t, user', coupons', orders', memberships', entitlements')
    BY <1>2, <2>2, <2>3, <2>4, <2>5, <2>6 DEF Paired, Same, O
  <2>10. ~StatesExcuse(a) => g = p
    <3>1. n \in Nat
      BY <1>3, <2>1 DEF i
    <3> HIDE DEF n
    <3> QED  BY <1>2, <3>1, EarnedAlike DEF StatesExcuse, g, p
  <2> QED  BY <2>7, <2>8, <2>9, <2>10 DEF Effects
<1>9. /\ ok => h.status = "APPLIED" /\ h.state = t
      /\ ~ok => h.status = "REJECTED" /\ h.state = sim
  <2> HIDE DEF ok, t, h
  <2> QED  BY <1>1, <1>4, AppliedStatus
<1>10. ok /\ ~Posted(a) => t.orders[i].paid = 0
  <2>1. ok => n \in Nat /\ t.orders[i].paid = n
    BY <1>2, <1>3, <1>7
  <2> HIDE DEF ok, n, t
  <2> QED  BY <1>4, <2>1
<1> HIDE DEF ok, t, h, n
<1>11. Replies(a, h)
  BY <1>4, <1>9, <1>10 DEF Replies, SimulatorExcuse
<1>12. Compared(a, h)
  BY <1>4, <1>8, <1>9, <1>11 DEF Compared
<1> QED
  BY <1>12 DEF h

-----------------------------------------------------------------------------
(* Refunds compared *)

\* The two sides take back the same points where both take any back.
LEMMA RevokedAlike ==
  ASSUME NEW r \in SimOrder, NEW o \in Order, SameOrder(r, o), SimOrderOK(r), NEW n \in Nat,
         n > 0, r.refunded + n <= r.paid
  PROVE  LET total == r.refunded + n IN
         /\ o.paid > 0 /\ total \in Nat /\ total = o.refunded + n /\ total <= o.paid
         /\ target_revoke(o, total) = Ref!target_revoke(r, total)
         /\ revoke_delta(o, total) \in Nat
         /\ BackNow(r, total) = IF SimRevokes THEN revoke_delta(o, total) ELSE 0
         /\ BackNow(r, total) \in Nat
         /\ SimRevokes => BackInAll(r, total) = o.ledgerRevoke + revoke_delta(o, total)
         /\ ~SimRevokes => BackInAll(r, total) = o.ledgerRevoke
<1> DEFINE total == r.refunded + n
           d == revoke_delta(o, total)
<1>1. /\ r.paid = o.paid /\ r.refunded = o.refunded /\ r.points = o.points
      /\ r.revoked = o.ledgerRevoke
  BY DEF SameOrder
<1>2. /\ o.paid \in Nat /\ o.refunded \in Nat /\ o.points \in Nat /\ o.ledgerRevoke \in Nat
  BY OrderFields
<1>3. /\ o.paid > 0 /\ total \in Nat /\ total = o.refunded + n /\ total <= o.paid
      /\ o.refunded <= total
  BY <1>1, <1>2
<1>4. \A x \in Nat : x <= o.paid => target_revoke(o, x) = Ref!target_revoke(r, x)
  BY <1>1, <1>2 DEF target_revoke, Ref!target_revoke
<1>5. target_revoke(o, total) \in Nat /\ d \in Nat
  BY <1>3, RevokeType
<1> HIDE DEF total
<1>6. SimRevokes => o.ledgerRevoke = target_revoke(o, o.refunded)
  <2>1. CASE o.refunded = 0
    <3>1. o.ledgerRevoke = 0 /\ target_revoke(o, 0) = 0
      BY <1>1, <1>3, <2>1, TargetMonotone DEF SimOrderOK
    <3> QED  BY <2>1, <3>1
  <2>2. CASE o.refunded > 0
    BY <1>1, <1>2, <1>3, <1>4, <2>2 DEF SimOrderOK, SimRevokes
  <2> QED  BY <1>2, <2>1, <2>2
<1>7. SimRevokes => o.ledgerRevoke + d = target_revoke(o, total)
  BY <1>2, <1>3, <1>6, RevokeReachesTarget
<1>8. target_revoke(o, total) = Ref!target_revoke(r, total)
  BY <1>3, <1>4
<1>9. Ref!AtLeastZero(Ref!target_revoke(r, total) - r.revoked) = d
  BY <1>1, <1>2, <1>5, <1>8 DEF Ref!AtLeastZero, revoke_delta
<1>10. o.points = 0 => d = 0
  <2>1. ASSUME o.points = 0  PROVE target_revoke(o, total) = 0
    <3>1. o.points * total = 0
      BY <1>3, <2>1
    <3>2. (o.points * total) \div o.paid = 0
      BY <1>2, <1>3, <3>1
    <3> QED  BY <2>1, <3>2 DEF target_revoke
  <2> QED  BY <1>2, <2>1 DEF revoke_delta
<1>11. BackNow(r, total) = IF SimRevokes THEN d ELSE 0
  BY <1>1, <1>9, <1>10 DEF BackNow
<1> HIDE DEF d
<1>12. BackNow(r, total) \in Nat
  BY <1>5, <1>11
<1>13. /\ SimRevokes => BackInAll(r, total) = o.ledgerRevoke + d
       /\ ~SimRevokes => BackInAll(r, total) = o.ledgerRevoke
  BY <1>1, <1>7, <1>8 DEF BackInAll
<1> QED
  BY <1>3, <1>5, <1>8, <1>11, <1>12, <1>13 DEF total, d

\* The row that the sandbox writes.
RefundedOrder(o, total, extra, delta) ==
  [o EXCEPT !.refunded = total,
            !.status = IF total >= o.paid THEN "REFUNDED" ELSE "PARTIALLY_REFUNDED",
            !.ledgerGrant = o.ledgerGrant + extra, !.ledgerRevoke = o.ledgerRevoke + delta]

LEMMA RefundedRows ==
  ASSUME NEW r \in SimOrder, NEW o \in Order, SameOrder(r, o), NEW total \in Nat,
         total <= o.paid, NEW extra \in Nat, NEW delta \in Nat, NEW back \in Nat
  PROVE  /\ RefundedOrder(o, total, extra, delta) \in Order
         /\ Refunded(r, total, back) \in SimOrder
         /\ back = o.ledgerRevoke + delta =>
              SameOrder(Refunded(r, total, back), RefundedOrder(o, total, extra, delta))
<1> DEFINE g == o.ledgerGrant + extra
           d == o.ledgerRevoke + delta
           st == IF total >= o.paid THEN "REFUNDED" ELSE "PARTIALLY_REFUNDED"
           y == [o EXCEPT !.refunded = total, !.status = st, !.ledgerGrant = g, !.ledgerRevoke = d]
           x == Refunded(r, total, back)
<1>1. g \in Nat /\ d \in Nat /\ st \in {"REFUNDED", "PARTIALLY_REFUNDED"}
  BY OrderFields
<1>2. y = RefundedOrder(o, total, extra, delta)
  BY DEF RefundedOrder
<1>3. r.paid = o.paid /\ o.paid \in Nat
  BY OrderFields DEF SameOrder
<1>4. /\ x \in SimOrder /\ x.refunded = total /\ x.revoked = back /\ x.paid = r.paid
      /\ x.points = r.points /\ x.original = r.original /\ x.discount = r.discount
      /\ x.coupon = r.coupon /\ x.status = st
  <2>1. /\ x \in SimOrder /\ x.refunded = total /\ x.revoked = back /\ x.paid = r.paid
        /\ x.points = r.points /\ x.original = r.original /\ x.discount = r.discount
        /\ x.coupon = r.coupon
        /\ total = r.paid => x.status = "REFUNDED"
        /\ total # r.paid => x.status = "PARTIALLY_REFUNDED"
    BY SimRefundedRow
  <2> HIDE DEF x
  <2> QED  BY <1>3, <2>1
<1> HIDE DEF g, d, st
<1>5. /\ y \in Order /\ y.refunded = total /\ y.ledgerRevoke = d /\ y.paid = o.paid
      /\ y.points = o.points /\ y.original = o.original /\ y.discount = o.discount
      /\ y.coupon = o.coupon /\ y.status = st
  BY <1>1 DEF Order, OrderStatus
<1> HIDE DEF x, y
<1>6. back = d => SameOrder(x, y)
  BY <1>1, <1>4, <1>5 DEF SameOrder
<1> QED
  BY <1>2, <1>4, <1>5, <1>6 DEF x, d

\* The coupon's row, restored or not.
GivenBack(c) == [c EXCEPT !.status = "AVAILABLE", !.used = 0]

LEMMA ReturnedRows ==
  ASSUME NEW r \in SimCoupon, NEW c \in Coupon, SameCoupon(r, c), CouponTerm(r, c),
         c.status # "RESERVED"
  PROVE  /\ Returned(r) \in SimCoupon /\ GivenBack(c) \in Coupon
         /\ SameCoupon(Returned(r), GivenBack(c))
         /\ CouponTerm(Returned(r), GivenBack(c)) /\ CouponTerm(r, GivenBack(c))
         /\ CouponTerm(Returned(r), c)
<1>1. /\ Returned(r) \in SimCoupon /\ Returned(r).status = "AVAILABLE"
      /\ Returned(r).usage = r.usage /\ Returned(r).face = r.face
      /\ Returned(r).threshold = r.threshold
  BY SimCouponReturned
<1>2. /\ GivenBack(c) \in Coupon /\ GivenBack(c).status = "AVAILABLE"
      /\ GivenBack(c).usage = c.usage /\ GivenBack(c).face = c.face
      /\ GivenBack(c).threshold = c.threshold
  BY DEF GivenBack, Coupon, CouponStatus
<1> QED
  BY <1>1, <1>2 DEF SameCoupon, CouponTerm

\* The rows of the order to refund.
LEMMA RefundRows ==
  ASSUME NEW a, Agreeing(a), NEW i \in DOMAIN orders
  PROVE  LET r == sim.orders[i]
             o == orders[i]
         IN /\ r \in SimOrder /\ o \in Order /\ SameOrder(r, o) /\ SimOrderOK(r)
            /\ i \in DOMAIN sim.orders /\ i \in Nat
            /\ r.paid = o.paid /\ r.refunded = o.refunded /\ r.coupon = o.coupon
            /\ r.paid \in Nat /\ r.refunded \in Nat /\ r.refunds \in Nat
            /\ r.status \in {"PAID", "PARTIALLY_REFUNDED"} <=>
                 o.status \in {"PAID", "PARTIALLY_REFUNDED"}
<1> DEFINE r == sim.orders[i]
           o == orders[i]
<1>1. /\ r \in SimOrder /\ o \in Order /\ SameOrder(r, o) /\ SimOrderOK(r)
      /\ i \in DOMAIN sim.orders /\ i \in Nat
      /\ r.status = "CREATED" <=> o.status = "PENDING_PAYMENT"
      /\ r.status # "CREATED" => r.status = o.status
  BY PairedOrder, SimFacts DEF Agreeing
<1> HIDE DEF r, o
<1>2. r.paid = o.paid /\ r.refunded = o.refunded /\ r.coupon = o.coupon
  BY <1>1 DEF SameOrder
<1>3. r.paid \in Nat /\ r.refunded \in Nat /\ r.refunds \in Nat
  BY <1>1, SimOrderFields
<1>4. r.status \in {"PAID", "PARTIALLY_REFUNDED"} <=> o.status \in {"PAID", "PARTIALLY_REFUNDED"}
  BY <1>1
<1> QED
  BY <1>1, <1>2, <1>3, <1>4 DEF r, o

LEMMA RefundAnswers ==
  ASSUME NEW a, Agreeing(a), a.type = "refund_order", NEW i \in DOMAIN orders, NEW n \in Nat
  PROVE  /\ Accepted(sim, sim.orders[i], n) /\ ~CanRefundOrder(i, n) =>
              rule_spec.points # None /\ ~rule_spec.points.revoke
         /\ CanRefundOrder(i, n) /\ ~Accepted(sim, sim.orders[i], n)
              /\ ~Crashes(sim, sim.orders[i], n) =>
              \/ Axis("REFUND_AGAINST_ORIGINAL") \/ Axis("POINTS_GRANTED_AGAIN_ON_REFUND")
              \/ rule_spec.refund # None
                   /\ (~rule_spec.refund.partial
                       \/ sim.orders[i].refunds = rule_spec.refund.maximum)
<1> DEFINE r == sim.orders[i]
           o == orders[i]
           total == r.refunded + n
<1>1. /\ r \in SimOrder /\ o \in Order /\ SameOrder(r, o) /\ SimOrderOK(r)
      /\ r.paid = o.paid /\ r.refunded = o.refunded
      /\ r.paid \in Nat /\ r.refunded \in Nat /\ r.refunds \in Nat
      /\ r.status \in {"PAID", "PARTIALLY_REFUNDED"} <=> o.status \in {"PAID", "PARTIALLY_REFUNDED"}
  BY RefundRows
<1>2. /\ sim.user.points = user.points /\ user.points \in Nat
      /\ rule_spec \in Ref!RuleSpec /\ rule_spec.scenario = scenario
  BY SimFacts DEF Agreeing, Paired, Same, SameUser, SimUser
<1>3. RefundPoints <=> rule_spec.points # None
  BY <1>2, ScenarioRules DEF RefundPoints
<1>4. CanRefundOrder(i, n) <=>
        /\ o.status \in {"PAID", "PARTIALLY_REFUNDED"} /\ n > 0 /\ n <= refundable(i)
        /\ Revocable(i, n)
  BY DEF CanRefundOrder
<1>5. refundable(i) = IF Promotion /\ Axis("REFUND_AGAINST_ORIGINAL")
                      THEN o.paid ELSE o.paid - o.refunded
  BY DEF refundable
<1>6. Revocable(i, n) <=> (RefundPoints /\ ~Axis("POINTS_GRANTED_AGAIN_ON_REFUND") =>
        revoke_delta(o, o.refunded + n) = 0 \/ user.points >= revoke_delta(o, o.refunded + n))
  BY DEF Revocable
<1>7. ASSUME Ref!Refundable(r, n)
      PROVE  /\ total = o.refunded + n /\ revoke_delta(o, total) \in Nat
             /\ BackNow(r, total) = IF SimRevokes THEN revoke_delta(o, total) ELSE 0
  <2>1. n > 0 /\ r.refunded + n <= r.paid
    BY <1>7 DEF Ref!Refundable
  <2> HIDE DEF r, o
  <2> QED  BY <1>1, <2>1, RevokedAlike
<1>8. Ref!Refundable(r, n) <=> /\ r.status \in {"PAID", "PARTIALLY_REFUNDED"} /\ n > 0
                               /\ total <= r.paid
  BY DEF Ref!Refundable
<1>9. Accepted(sim, r, n) => /\ Ref!Refundable(r, n) /\ sim.user.points >= BackNow(r, total)
  BY DEF Accepted
<1>10. ~Accepted(sim, r, n) /\ ~Crashes(sim, r, n) =>
         ~Ref!Refundable(r, n) \/ ~Ref!Permitted(r, n) \/ ~(sim.user.points >= BackNow(r, total))
  BY DEF Accepted, Crashes
<1>11. ~Ref!Permitted(r, n) =>
         /\ rule_spec.refund # None
         /\ ~rule_spec.refund.partial \/ r.refunds = rule_spec.refund.maximum
  <2>1. rule_spec.refund # None =>
          r.refunds <= rule_spec.refund.maximum /\ rule_spec.refund.maximum \in Nat
    BY <1>1, <1>2, RuleFields DEF SimOrderOK
  <2> HIDE DEF r
  <2> QED  BY <1>1, <2>1 DEF Ref!Permitted
<1> HIDE DEF r, o, total
<1>12. ASSUME Accepted(sim, r, n), ~CanRefundOrder(i, n)
       PROVE  rule_spec.points # None /\ ~rule_spec.points.revoke
  <2>1. n <= refundable(i) /\ o.status \in {"PAID", "PARTIALLY_REFUNDED"} /\ n > 0
    BY <1>1, <1>5, <1>8, <1>9, <1>12 DEF total
  <2>2. ~Revocable(i, n)
    BY <1>4, <1>12, <2>1
  <2>3. RefundPoints /\ ~(user.points >= revoke_delta(o, total))
    BY <1>6, <1>7, <1>9, <1>12, <2>2
  <2>4. ~SimRevokes
    BY <1>2, <1>7, <1>9, <1>12, <2>3
  <2> QED  BY <1>3, <2>3, <2>4 DEF SimRevokes
<1>13. ASSUME CanRefundOrder(i, n), ~Accepted(sim, r, n), ~Crashes(sim, r, n)
       PROVE  \/ Axis("REFUND_AGAINST_ORIGINAL") \/ Axis("POINTS_GRANTED_AGAIN_ON_REFUND")
              \/ rule_spec.refund # None
                   /\ (~rule_spec.refund.partial \/ r.refunds = rule_spec.refund.maximum)
  <2>1. CASE ~Ref!Refundable(r, n)
    BY <1>1, <1>4, <1>5, <1>8, <1>13, <2>1 DEF total
  <2>2. CASE ~Ref!Permitted(r, n)
    BY <1>11, <2>2
  <2>3. CASE Ref!Refundable(r, n) /\ ~(sim.user.points >= BackNow(r, total))
    <3>1. SimRevokes /\ ~(user.points >= revoke_delta(o, total)) /\ revoke_delta(o, total) # 0
      BY <1>2, <1>7, <2>3
    <3>2. RefundPoints
      BY <1>3, <3>1 DEF SimRevokes
    <3> QED  BY <1>4, <1>6, <1>7, <1>13, <2>3, <3>1, <3>2
  <2> QED  BY <1>10, <1>13, <2>1, <2>2, <2>3
<1> QED
  BY <1>12, <1>13 DEF r

LEMMA RefundReplies ==
  ASSUME NEW a, Agreeing(a), a.type = "refund_order"
  PROVE  Replies(a, Ref!do_refund_order(sim, a))
<1> DEFINE i == a.target
           n == a.amount
           h == Ref!do_refund_order(sim, a)
           inside == i \in DOMAIN sim.orders
           acc == inside /\ Accepted(sim, sim.orders[i], n)
           cra == inside /\ Crashes(sim, sim.orders[i], n)
<1>1. /\ acc => h = Ref!Applied(RefundedState(sim, i, n))
      /\ ~acc => h.state = sim /\ h.status = IF cra THEN "CRASHED" ELSE "REJECTED"
  BY SimRefundEffect, SimFacts DEF Agreeing
<1>2. n \in Nat /\ DOMAIN sim.orders = DOMAIN orders
  BY ProposalFields, PairedOrder DEF Agreeing
<1>3. Posted(a) <=> CanRefundOrder(i, n)
  BY PostedAs DEF Agreeing
<1>4. CanRefundOrder(i, n) => inside
  BY <1>2 DEF CanRefundOrder
<1>5. acc => h.status = "APPLIED" /\ h.state = RefundedState(sim, i, n)
  <2> HIDE DEF h, acc, i, n
  <2> QED  BY <1>1 DEF Ref!Applied, Ref!Result
<1>6. acc /\ ~Posted(a) => rule_spec.points # None /\ ~rule_spec.points.revoke
  BY <1>2, <1>3, RefundAnswers
<1>7. ~acc /\ ~cra /\ Posted(a) => SandboxExcuse(a, sim)
  <2>1. ~acc /\ ~cra /\ Posted(a) =>
          \/ Axis("REFUND_AGAINST_ORIGINAL") \/ Axis("POINTS_GRANTED_AGAIN_ON_REFUND")
          \/ rule_spec.refund # None
               /\ (~rule_spec.refund.partial
                   \/ sim.orders[i].refunds = rule_spec.refund.maximum)
    BY <1>2, <1>3, <1>4, RefundAnswers
  <2> HIDE DEF acc, cra
  <2> QED  BY <2>1 DEF SandboxExcuse
<1>8. cra => CrashExcuse(a, sim)
  BY DEF Crashes, SimRevokes, CrashExcuse
<1> HIDE DEF acc, cra, h
<1>9. Replies(a, h)
  BY <1>1, <1>5, <1>6, <1>7, <1>8 DEF Replies, SimulatorExcuse
<1> QED
  BY <1>9 DEF h

\* The coupons after a refund, simulated and in the sandbox.
SimCouponsBack(i, full) ==
  LET c == sim.orders[i].coupon IN
  IF Ref!Restores(sim.orders[i], full) THEN [sim.coupons EXCEPT ![c] = Returned(sim.coupons[c])]
  ELSE sim.coupons
CouponsBack(i, full) ==
  LET c == orders[i].coupon IN
  IF Restores(i, full) THEN [coupons EXCEPT ![c] = GivenBack(coupons[c])] ELSE coupons

LEMMA RefundCoupons ==
  ASSUME NEW a, Agreeing(a), NEW i \in DOMAIN orders,
         orders[i].status \in {"PAID", "PARTIALLY_REFUNDED"}, NEW full \in BOOLEAN
  PROVE  /\ SimCouponsBack(i, full) \in Seq(SimCoupon) /\ CouponsBack(i, full) \in Seq(Coupon)
         /\ CouponTerms(SimCouponsBack(i, full), CouponsBack(i, full))
         /\ ~(rule_spec.promotion # None
                /\ rule_spec.promotion.restore # Axis("COUPON_RESTORED_ON_REFUND")) =>
              SameCoupons(SimCouponsBack(i, full), CouponsBack(i, full))
<1> DEFINE c == orders[i].coupon
           R == sim.coupons
           C == coupons
           p == Ref!Restores(sim.orders[i], full)
           q == Restores(i, full)
           x == IF p THEN Returned(R[c]) ELSE R[c]
           y == IF q THEN GivenBack(C[c]) ELSE C[c]
<1>1. /\ R \in Seq(SimCoupon) /\ C \in Seq(Coupon) /\ SameCoupons(R, C) /\ CouponTerms(R, C)
      /\ sim.orders[i].coupon = c /\ DOMAIN R = DOMAIN C
  BY SimFacts, PairedCoupon, RefundRows DEF Agreeing, Paired, Typed, Same, Terms
<1>2. /\ SimCouponsBack(i, full) = IF p THEN [R EXCEPT ![c] = Returned(R[c])] ELSE R
      /\ CouponsBack(i, full) = IF q THEN [C EXCEPT ![c] = GivenBack(C[c])] ELSE C
  BY <1>1 DEF SimCouponsBack, CouponsBack
<1>3. /\ p \in BOOLEAN /\ q \in BOOLEAN /\ (p \/ q => c # 0)
      /\ ~(rule_spec.promotion # None
              /\ rule_spec.promotion.restore # Axis("COUPON_RESTORED_ON_REFUND")) => (p <=> q)
  <2>1. /\ rule_spec \in Ref!RuleSpec /\ rule_spec.scenario = scenario
        /\ Promotion <=> rule_spec.promotion # None
    BY SimFacts, ScenarioRules DEF Agreeing, Promotion
  <2>2. rule_spec.promotion # None => rule_spec.promotion.restore \in BOOLEAN
    BY <2>1, RuleFields
  <2>3. /\ p = (full /\ c # 0 /\ rule_spec.promotion # None /\ rule_spec.promotion.restore)
        /\ q = (Promotion /\ full /\ c # 0 /\ Axis("COUPON_RESTORED_ON_REFUND"))
    BY <1>1 DEF Ref!Restores, Restores
  <2>4. Axis("COUPON_RESTORED_ON_REFUND") \in BOOLEAN
    BY DEF Axis
  <2> HIDE DEF p, q, c
  <2> QED  BY <2>1, <2>2, <2>3, <2>4
<1> HIDE DEF p, q
<1>4. CASE c = 0
  BY <1>1, <1>2, <1>3, <1>4
<1>5. CASE c # 0
  <2>1. c \in DOMAIN C /\ C[c].status # "RESERVED"
    <3>1. SimHolds(sim, i) /\ SameOrder(sim.orders[i], orders[i])
      BY RefundRows, SimFacts DEF Agreeing
    <3>2. sim.orders[i].status = orders[i].status
      BY <3>1 DEF SameOrder
    <3>3. c \in DOMAIN R /\ R[c].status = "USED"
      BY <1>1, <1>5, <3>1, <3>2 DEF SimHolds
    <3> QED  BY <1>1, <3>3, PairedCoupon DEF SameCoupon
  <2>2. /\ C[c] \in Coupon /\ R[c] \in SimCoupon
        /\ SameCoupon(R[c], C[c]) /\ CouponTerm(R[c], C[c])
    BY <2>1, PairedCoupon
  <2> HIDE DEF c, C, R
  <2>3. /\ Returned(R[c]) \in SimCoupon /\ GivenBack(C[c]) \in Coupon
        /\ SameCoupon(Returned(R[c]), GivenBack(C[c]))
        /\ CouponTerm(Returned(R[c]), GivenBack(C[c])) /\ CouponTerm(R[c], GivenBack(C[c]))
        /\ CouponTerm(Returned(R[c]), C[c])
    BY <2>1, <2>2, ReturnedRows
  <2>4. x \in SimCoupon /\ y \in Coupon /\ CouponTerm(x, y) /\ ((p <=> q) => SameCoupon(x, y))
    BY <1>3, <2>2, <2>3
  <2>5. [R EXCEPT ![c] = R[c]] = R /\ [C EXCEPT ![c] = C[c]] = C
    BY <1>1, <2>1
  <2>6. SimCouponsBack(i, full) = [R EXCEPT ![c] = x] /\ CouponsBack(i, full) = [C EXCEPT ![c] = y]
    <3>1. /\ p => x = Returned(R[c])
          /\ ~p => x = R[c]
          /\ q => y = GivenBack(C[c])
          /\ ~q => y = C[c]
      OBVIOUS
    <3> HIDE DEF x, y
    <3> QED  BY <1>2, <2>5, <3>1
  <2> HIDE DEF x, y
  <2>7. [R EXCEPT ![c] = x] \in Seq(SimCoupon) /\ [C EXCEPT ![c] = y] \in Seq(Coupon)
    BY <1>1, <2>1, <2>4, UpdateRow
  <2>8. /\ CouponTerms([R EXCEPT ![c] = x], [C EXCEPT ![c] = y])
        /\ SameCoupon(x, y) => SameCoupons([R EXCEPT ![c] = x], [C EXCEPT ![c] = y])
    BY <1>1, <2>1, <2>4, CouponsWritten
  <2> QED  BY <1>3, <2>4, <2>6, <2>7, <2>8
<1> QED
  BY <1>4, <1>5

LEMMA RefundEffects ==
  ASSUME NEW a, Agreeing(a), a.type = "refund_order", NEW i \in DOMAIN orders, NEW n \in Nat,
         NEW k, RefundOrder(i, n, k), Accepted(sim, sim.orders[i], n)
  PROVE  Effects(a, RefundedState(sim, i, n))
<1> DEFINE r == sim.orders[i]
           o == orders[i]
           total == r.refunded + n
           full == total = r.paid
           again == RefundPoints /\ Axis("POINTS_GRANTED_AGAIN_ON_REFUND")
           extra == IF again THEN points_for(n) ELSE 0
           delta == IF RefundPoints /\ ~again THEN revoke_delta(o, total) ELSE 0
           now == BackNow(r, total)
           back == BackInAll(r, total)
           t == RefundedState(sim, i, n)
           alike == extra = 0 /\ delta = now /\ back = o.ledgerRevoke + delta
<1>1. /\ r \in SimOrder /\ o \in Order /\ SameOrder(r, o) /\ SimOrderOK(r)
      /\ i \in DOMAIN sim.orders /\ r.coupon = o.coupon
      /\ r.paid = o.paid /\ r.refunded = o.refunded
      /\ r.paid \in Nat /\ r.refunded \in Nat /\ o.ledgerRevoke \in Nat
      /\ o.status \in {"PAID", "PARTIALLY_REFUNDED"} /\ n > 0 /\ r.refunded + n <= r.paid
  <2>1. Ref!Refundable(r, n)
    BY DEF Accepted
  <2> QED  BY <2>1, RefundRows, OrderFields DEF Ref!Refundable
<1>2. /\ Paired(sim) /\ sim \in SimState /\ sim.user \in SimUser /\ user \in User
      /\ sim.orders \in Seq(SimOrder) /\ orders \in Seq(Order) /\ SameUser(sim.user, user)
      /\ SameOrders(sim.orders, orders)
      /\ rule_spec \in Ref!RuleSpec /\ rule_spec.scenario = scenario
  BY SimFacts DEF Agreeing, Paired, Typed, Same
<1>3. /\ o.paid > 0 /\ total \in Nat /\ total = o.refunded + n /\ total <= o.paid
      /\ revoke_delta(o, total) \in Nat
      /\ now = IF SimRevokes THEN revoke_delta(o, total) ELSE 0
      /\ now \in Nat
      /\ SimRevokes => back = o.ledgerRevoke + revoke_delta(o, total)
      /\ ~SimRevokes => back = o.ledgerRevoke
  <2> HIDE DEF r, o
  <2> QED  BY <1>1, RevokedAlike
<1>4. extra \in Nat /\ delta \in Nat /\ back \in Nat /\ full \in BOOLEAN
  <2>1. points_for(n) \in Nat
    BY PointsForType
  <2> HIDE DEF r, o, total
  <2> QED  BY <1>1, <1>3, <2>1
<1>5. /\ user' = UserAt(user, user.balance + n, user.points + extra - delta)
      /\ orders' = [orders EXCEPT ![i] = RefundedOrder(o, total, extra, delta)]
      /\ coupons' = CouponsBack(i, full)
      /\ UNCHANGED <<memberships, entitlements>>
  <2>1. (total >= o.paid) = full
    <3> HIDE DEF r, o, total
    <3> QED  BY <1>1, <1>3
  <2>2. /\ user' = UserAt(user, user.balance + n, user.points + extra - delta)
        /\ orders' = [orders EXCEPT ![i] = RefundedOrder(o, total, extra, delta)]
        /\ coupons' = CouponsBack(i, total >= o.paid)
        /\ UNCHANGED <<memberships, entitlements>>
    BY <1>1 DEF RefundOrder, UserAt, RefundedOrder, CouponsBack, GivenBack
  <2> QED  BY <2>1, <2>2
<1>6. /\ t.user = UserAt(sim.user, sim.user.balance + n, sim.user.points - now)
      /\ t.orders = [sim.orders EXCEPT ![i] = Refunded(r, total, back)]
      /\ t.coupons = SimCouponsBack(i, full)
      /\ t.memberships = sim.memberships /\ t.entitlements = sim.entitlements
  <2> DEFINE u == UserAt(sim.user, sim.user.balance + n, sim.user.points - now)
             O == [sim.orders EXCEPT ![i] = Refunded(r, total, back)]
             C == SimCouponsBack(i, full)
  <2>1. t = SimWith(sim, u, O, C)
    BY DEF RefundedState, RefundedUser, UserAt, SimCouponsBack
  <2> HIDE DEF u, O, C, t
  <2>2. SimWith(sim, u, O, C).user = u /\ SimWith(sim, u, O, C).orders = O
        /\ SimWith(sim, u, O, C).coupons = C
        /\ SimWith(sim, u, O, C).memberships = sim.memberships
        /\ SimWith(sim, u, O, C).entitlements = sim.entitlements
    BY <1>2 DEF SimWith, SimState
  <2> QED  BY <2>1, <2>2 DEF u, O, C
<1>7. ~StatesExcuse(a) =>
        /\ alike
        /\ ~(rule_spec.promotion # None
               /\ rule_spec.promotion.restore # Axis("COUPON_RESTORED_ON_REFUND"))
  <2>1. ASSUME ~StatesExcuse(a)
        PROVE  /\ ~Axis("POINTS_GRANTED_AGAIN_ON_REFUND")
               /\ ~(rule_spec.points # None /\ ~rule_spec.points.revoke)
               /\ ~(rule_spec.promotion # None
                      /\ rule_spec.promotion.restore # Axis("COUPON_RESTORED_ON_REFUND"))
    BY <2>1 DEF StatesExcuse
  <2>2. RefundPoints <=> rule_spec.points # None
    BY <1>2, ScenarioRules DEF RefundPoints
  <2>3. ASSUME ~StatesExcuse(a)  PROVE RefundPoints <=> SimRevokes
    BY <2>1, <2>2, <2>3 DEF SimRevokes
  <2> HIDE DEF r, o, total, now, back
  <2> QED  BY <1>1, <1>3, <2>1, <2>3
<1>8. /\ CouponsBack(i, full) \in Seq(Coupon)
      /\ CouponTerms(SimCouponsBack(i, full), CouponsBack(i, full))
      /\ ~StatesExcuse(a) => SameCoupons(SimCouponsBack(i, full), CouponsBack(i, full))
  <2> HIDE DEF full, alike
  <2> QED  BY <1>1, <1>4, <1>7, RefundCoupons
<1>9. /\ RefundedOrder(o, total, extra, delta) \in Order /\ Refunded(r, total, back) \in SimOrder
      /\ alike => SameOrder(Refunded(r, total, back), RefundedOrder(o, total, extra, delta))
  <2> HIDE DEF r, o, total, extra, delta, back
  <2> QED  BY <1>1, <1>3, <1>4, RefundedRows
<1>10. /\ user' \in User /\ user'.membership = user.membership
       /\ alike => SameUser(t.user, user')
  <2> DEFINE b == user.balance + n
             x == sim.user.points - now
             y == user.points + extra - delta
  <2>1. /\ sim.user.balance = user.balance /\ sim.user.points = user.points
        /\ user.balance \in Int /\ user.points \in Int
    BY <1>2, UserFields DEF SameUser
  <2>2. b \in Int /\ x \in Int /\ y \in Int /\ b = sim.user.balance + n /\ (alike => x = y)
    <3> HIDE DEF extra, delta, now, back
    <3> QED  BY <1>3, <1>4, <2>1
  <2>3. t.user = UserAt(sim.user, b, x) /\ user' = UserAt(user, b, y)
    BY <1>5, <1>6, <2>1
  <2> HIDE DEF b, x, y, alike, t
  <2>4. UserAt(user, b, y) \in User /\ UserAt(user, b, y).membership = user.membership
        /\ (x = y => SameUser(UserAt(sim.user, b, x), UserAt(user, b, y)))
    BY <1>2, <2>2, UsersMoved
  <2> QED  BY <2>2, <2>3, <2>4
<1> HIDE DEF t, alike, r, o, total, full, extra, delta, back, now
<1>11. orders' \in Seq(Order) /\ (alike => SameOrders(t.orders, orders'))
  <2> DEFINE x == Refunded(r, total, back)
             y == RefundedOrder(o, total, extra, delta)
  <2>1. /\ orders' = [orders EXCEPT ![i] = y] /\ t.orders = [sim.orders EXCEPT ![i] = x]
        /\ x \in SimOrder /\ y \in Order /\ (alike => SameOrder(x, y))
    BY <1>5, <1>6, <1>9
  <2> HIDE DEF x, y
  <2>2. [orders EXCEPT ![i] = y] \in Seq(Order)
    BY <1>2, <2>1, UpdateRow
  <2>3. alike => SameOrders([sim.orders EXCEPT ![i] = x], [orders EXCEPT ![i] = y])
    BY <1>2, <2>1, OrdersWritten
  <2> QED  BY <2>1, <2>2, <2>3
<1>12. Typed(user', coupons', orders', memberships', entitlements')
  BY <1>2, <1>5, <1>8, <1>10, <1>11 DEF Paired, Typed
<1>13. Terms(t, user', coupons', memberships', entitlements')
  BY <1>2, <1>5, <1>6, <1>8, <1>10 DEF Paired, Terms
<1>14. ~StatesExcuse(a) => Same(t, user', coupons', orders', memberships', entitlements')
  BY <1>2, <1>5, <1>6, <1>7, <1>8, <1>10, <1>11 DEF Paired, Same
<1>15. Effects(a, t)
  BY <1>12, <1>13, <1>14 DEF Effects
<1> QED
  BY <1>15 DEF t

LEMMA RefundOrderCompared ==
  ASSUME NEW a, Agreeing(a), a.type = "refund_order"
  PROVE  Compared(a, Ref!do_refund_order(sim, a))
<1> DEFINE i == a.target
           n == a.amount
           h == Ref!do_refund_order(sim, a)
<1>1. ASSUME NEW k, Posted(a), Post(a, k), h.status = "APPLIED"  PROVE Effects(a, h.state)
  <2>1. n \in Nat /\ DOMAIN sim.orders = DOMAIN orders /\ sim \in SimState /\ a \in Proposal
    BY ProposalFields, PairedOrder, SimFacts DEF Agreeing
  <2>2. i \in DOMAIN sim.orders /\ Accepted(sim, sim.orders[i], n)
    BY <1>1, <2>1, SimRefundEffect
  <2>3. h.state = RefundedState(sim, i, n)
    BY <2>1, <2>2, SimRefundEffect DEF Ref!Applied, Ref!Result
  <2>4. RefundOrder(i, n, k)
    BY <1>1, PostAs
  <2> HIDE DEF i, n, h
  <2> QED  BY <2>1, <2>2, <2>3, <2>4, RefundEffects
<1>2. Replies(a, h)
  BY RefundReplies
<1> QED
  BY <1>1, <1>2 DEF Compared

-----------------------------------------------------------------------------
(* Memberships compared *)

\* What validate_action_proposal makes certain of the two proposals with fixed arguments.
LEMMA OfferedMembership ==
  ASSUME NEW a, Agreeing(a), validate_action_proposal(a)
  PROVE  /\ a.type = "activate_membership" =>
              a.amount = Ref!money(rule_spec.membership.price) /\ a.quantity = rule_spec.membership.quantity
         /\ a.type = "cancel_membership" => a.target \in DOMAIN sim.memberships /\ a.refund_requested
<1> DEFINE n == Ref!money(rule_spec.membership.price)
<1> SUFFICES ASSUME a.type \in {"activate_membership", "cancel_membership"}
             PROVE  /\ a.type = "activate_membership" =>
                         /\ a.amount = n
                         /\ a.quantity = rule_spec.membership.quantity
                    /\ a.type = "cancel_membership" =>
                         a.target \in DOMAIN sim.memberships /\ a.refund_requested
  OBVIOUS
<1>1. a \in Ref!legal_actions(sim)
  BY DEF validate_action_proposal, SameNames, flexible
<1>2. sim.scenario = "MEMBERSHIP_ENTITLEMENT"
  BY SupportedIn DEF Agreeing, SimInv
<1>3. sim.user.exists
  <2>1. [Ref!SimAction("create_user", 1) EXCEPT !.amount = OpeningBalance].type = "create_user"
    BY DEF Ref!SimAction
  <2> QED  BY <1>1, <2>1 DEF Ref!legal_actions
<1>4. a \in Ref!MembershipOffers(sim)
  BY <1>1, <1>2, <1>3 DEF Ref!legal_actions
<1>5. \/ a = [Ref!SimAction("activate_membership", 1) EXCEPT
                !.amount = n,
                !.quantity = rule_spec.membership.quantity]
      \/ \E e \in DOMAIN sim.entitlements :
           \/ a = [Ref!SimAction("consume_entitlement", e) EXCEPT !.quantity = 1]
           \/ a = [Ref!SimAction("consume_entitlement", e) EXCEPT !.quantity =
                     Ref!AtLeastZero(Ref!available(sim.entitlements[e])) + 1]
      \/ \E m \in DOMAIN sim.memberships :
           a = [Ref!SimAction("cancel_membership", m) EXCEPT !.refund_requested = TRUE]
  BY <1>4 DEF Ref!MembershipOffers
<1>6. CASE a = [Ref!SimAction("activate_membership", 1) EXCEPT
                  !.amount = n,
                  !.quantity = rule_spec.membership.quantity]
  BY <1>6 DEF Ref!SimAction
<1>7. CASE \E e \in DOMAIN sim.entitlements :
             \/ a = [Ref!SimAction("consume_entitlement", e) EXCEPT !.quantity = 1]
             \/ a = [Ref!SimAction("consume_entitlement", e) EXCEPT !.quantity =
                       Ref!AtLeastZero(Ref!available(sim.entitlements[e])) + 1]
  <2>1. a.type = "consume_entitlement"
    BY <1>7 DEF Ref!SimAction
  <2> QED  BY <2>1
<1>8. CASE \E m \in DOMAIN sim.memberships :
             a = [Ref!SimAction("cancel_membership", m) EXCEPT !.refund_requested = TRUE]
  BY <1>8 DEF Ref!SimAction
<1> QED
  BY <1>5, <1>6, <1>7, <1>8

\* The membership tables of the two sides.
LEMMA PairedMembership ==
  ASSUME NEW a, Agreeing(a)
  PROVE  /\ DOMAIN sim.memberships = DOMAIN memberships
         /\ DOMAIN sim.entitlements = DOMAIN entitlements
         /\ DOMAIN memberships = DOMAIN entitlements
         /\ sim.memberships = <<>> <=> memberships = <<>>
         /\ Len(sim.memberships) \in {0, 1} /\ (sim.memberships # <<>> => Len(sim.memberships) = 1)
         /\ \A m \in DOMAIN memberships :
              /\ m = 1 /\ sim.memberships[m] \in SimMembership /\ memberships[m] \in Membership
              /\ sim.memberships[m].status = memberships[m].status
              /\ sim.memberships[m].paid = memberships[m].paid /\ memberships[m].paid > 0
         /\ \A e \in DOMAIN entitlements :
              /\ e = 1 /\ sim.entitlements[e] \in SimEntitlement /\ entitlements[e] \in Entitlement
              /\ sim.entitlements[e].granted = entitlements[e].granted
              /\ sim.entitlements[e].consumed = entitlements[e].consumed
              /\ sim.entitlements[e].revoked = entitlements[e].revoked
              /\ Ref!available(sim.entitlements[e]) = available(entitlements[e])
              /\ Ref!available(sim.entitlements[e]) >= 0
              /\ entitlements[e].membership = e
              /\ entitlements[e].status \in {"REVOKED", "CONSUMED"} => available(entitlements[e]) <= 0
<1>1. /\ sim.memberships \in Seq(SimMembership) /\ sim.entitlements \in Seq(SimEntitlement)
      /\ memberships \in Seq(Membership) /\ entitlements \in Seq(Entitlement)
      /\ SameMemberships(sim.memberships, memberships)
      /\ SameEntitlements(sim.entitlements, entitlements)
      /\ MembershipTerms(sim.memberships, memberships)
      /\ EntitlementTerms(sim.entitlements, entitlements)
      /\ Len(memberships) = Len(entitlements)
      /\ SimMembershipOK(sim)
  BY SimFacts DEF Agreeing, Paired, Same, Terms, Typed
<1>2. /\ Len(sim.memberships) = Len(memberships) /\ Len(sim.memberships) = Len(sim.entitlements)
      /\ Len(sim.memberships) <= 1
  BY <1>1 DEF SameMemberships, SimMembershipOK
<1>3. /\ DOMAIN sim.memberships = DOMAIN memberships
      /\ DOMAIN sim.entitlements = DOMAIN entitlements
      /\ DOMAIN memberships = DOMAIN entitlements
      /\ sim.memberships = <<>> <=> memberships = <<>>
      /\ Len(sim.memberships) \in {0, 1} /\ (sim.memberships # <<>> => Len(sim.memberships) = 1)
      /\ \A m \in DOMAIN memberships : m = 1
  <2>1. /\ DOMAIN sim.memberships = 1 .. Len(sim.memberships) /\ Len(sim.memberships) \in Nat
        /\ DOMAIN memberships = 1 .. Len(memberships)
        /\ DOMAIN sim.entitlements = 1 .. Len(sim.entitlements)
        /\ DOMAIN entitlements = 1 .. Len(entitlements)
    BY <1>1
  <2>2. sim.memberships = <<>> <=> Len(sim.memberships) = 0
    BY <1>1
  <2>3. memberships = <<>> <=> Len(memberships) = 0
    BY <1>1
  <2>4. ASSUME NEW n \in Nat, n <= 1  PROVE n \in {0, 1} /\ \A m \in 1 .. n : m = 1
    BY <2>4
  <2>5. /\ Len(sim.memberships) \in {0, 1} /\ \A m \in 1 .. Len(sim.memberships) : m = 1
    BY <1>2, <2>1, <2>4
  <2> QED  BY <1>1, <1>2, <2>1, <2>2, <2>3, <2>5
<1>4. ASSUME NEW m \in DOMAIN memberships
      PROVE  /\ sim.memberships[m] \in SimMembership /\ memberships[m] \in Membership
             /\ sim.memberships[m].status = memberships[m].status
             /\ sim.memberships[m].paid = memberships[m].paid /\ memberships[m].paid > 0
  BY <1>1, <1>3 DEF SameMemberships, MembershipTerms
<1>5. ASSUME NEW e \in DOMAIN entitlements
      PROVE  /\ sim.entitlements[e] \in SimEntitlement /\ entitlements[e] \in Entitlement
             /\ sim.entitlements[e].granted = entitlements[e].granted
             /\ sim.entitlements[e].consumed = entitlements[e].consumed
             /\ sim.entitlements[e].revoked = entitlements[e].revoked
             /\ Ref!available(sim.entitlements[e]) >= 0
             /\ entitlements[e].membership = e
             /\ entitlements[e].status \in {"REVOKED", "CONSUMED"} => available(entitlements[e]) <= 0
  BY <1>1, <1>3 DEF SameEntitlements, EntitlementTerms, SimMembershipOK
<1>6. ASSUME NEW e \in DOMAIN entitlements
      PROVE  Ref!available(sim.entitlements[e]) = available(entitlements[e])
  BY <1>5 DEF Ref!available, available
<1> QED
  BY <1>3, <1>4, <1>5, <1>6

\* Both users join, or both leave.
LEMMA UsersJoin ==
  ASSUME NEW u \in SimUser, NEW v \in User, SameUser(u, v), NEW b \in Int, NEW c \in Int,
         NEW m \in {"ACTIVE", "INACTIVE"}
  PROVE  /\ [v EXCEPT !.balance = c, !.membership = m] \in User
         /\ b = c => SameUser([u EXCEPT !.balance = b, !.membership = m],
                             [v EXCEPT !.balance = c, !.membership = m])
  BY DEF SimUser, User, SameUser

LEMMA ActivateMembershipCompared ==
  ASSUME NEW a, Agreeing(a), validate_action_proposal(a), a.type = "activate_membership"
  PROVE  Compared(a, Ref!do_activate_membership(sim, a))
<1> DEFINE u == [sim.user EXCEPT !.balance = sim.user.balance - a.amount, !.membership = "ACTIVE"]
           m == [paid |-> a.amount, status |-> "ACTIVE", refunded |-> 0]
           e == [membership |-> 1, granted |-> a.quantity, consumed |-> 0, revoked |-> 0]
           M == <<m>>
           E == <<e>>
           m1 == [paid |-> a.amount, status |-> "ACTIVE"]
           e1 == [membership |-> 1, granted |-> a.quantity, consumed |-> 0, revoked |-> 0,
                  status |-> "GRANTED"]
           t == SimMember(sim, u, M, E)
           ok == /\ sim.user.exists /\ rule_spec.membership # None /\ sim.memberships = <<>>
                 /\ a.amount * Ref!Fraction = rule_spec.membership.price
                 /\ a.quantity = rule_spec.membership.quantity
                 /\ sim.user.balance >= a.amount
           h == Ref!do_activate_membership(sim, a)
<1>1. /\ Paired(sim) /\ sim \in SimState /\ sim.user \in SimUser /\ user \in User
      /\ a.amount \in Nat /\ a.quantity \in Nat \ {0} /\ rule_spec.membership # None
      /\ rule_spec.membership.price \in Nat \ {0}
      /\ a.amount = Ref!money(rule_spec.membership.price)
      /\ a.quantity = rule_spec.membership.quantity
      /\ SameUser(sim.user, user) /\ memberships \in Seq(Membership)
      /\ entitlements \in Seq(Entitlement) /\ Len(memberships) = Len(entitlements)
      /\ (memberships = <<>> => user.membership = "INACTIVE")
  <2>1. rule_spec.membership # None
    BY SupportedIn, ScenarioRules, SimFacts DEF Agreeing
  <2>2. /\ a.amount = Ref!money(rule_spec.membership.price)
        /\ a.quantity = rule_spec.membership.quantity
    BY OfferedMembership
  <2>3. /\ rule_spec.membership.price \in Nat \ {0}
        /\ a.amount \in Nat /\ a.quantity \in Nat \ {0}
    BY <2>1, <2>2, RuleFields, SimFacts, ProposalFields DEF Agreeing
  <2> QED  BY <2>1, <2>2, <2>3, SimFacts DEF Agreeing, Paired, Same, Terms, Typed
<1>2. h = Ref!AppliedIf(ok, sim, t)
  <2>1. [sim EXCEPT !.user.balance = @ - a.amount, !.user.membership = "ACTIVE",
                    !.memberships = <<m>>, !.entitlements = <<e>>] = t
    <3> HIDE DEF m, e
    <3> QED  BY <1>1 DEF SimMember, SimState, SimUser
  <2> QED  BY <2>1 DEF Ref!do_activate_membership
<1>3. ok \in BOOLEAN
  BY <1>1 DEF SimUser
<1>4. /\ ok => Posted(a)
      /\ Posted(a) /\ ~ok => \/ Len(sim.memberships) = 1
                              \/ rule_spec.membership.price % Ref!Fraction # 0
  <2>1. Posted(a) <=> /\ user.exists /\ a.quantity > 0 /\ a.amount > 0
                      /\ user.membership = "INACTIVE" /\ user.balance >= a.amount
    BY PostedAs DEF Agreeing, CanActivateMembership
  <2>2. sim.user.exists = user.exists /\ sim.user.balance = user.balance
    BY <1>1 DEF SameUser
  <2>3. /\ sim.memberships = <<>> <=> memberships = <<>>
        /\ sim.memberships # <<>> => Len(sim.memberships) = 1
    BY PairedMembership
  <2>4. /\ rule_spec.membership.price % Ref!Fraction = 0 =>
             a.amount * Ref!Fraction = rule_spec.membership.price
        /\ a.amount * Ref!Fraction = rule_spec.membership.price => a.amount > 0
    BY <1>1, MoneyExact DEF Ref!Fraction
  <2> QED  BY <1>1, <2>1, <2>2, <2>3, <2>4
<1>5. ASSUME NEW k, ok, Post(a, k)  PROVE Effects(a, t)
  <2>1. memberships = <<>> /\ entitlements = <<>>
    <3>1. memberships = <<>>
      BY <1>5, PairedMembership
    <3> QED  BY <1>1, <3>1
  <2>2. /\ user' = [user EXCEPT !.balance = user.balance - a.amount, !.membership = "ACTIVE"]
        /\ memberships' = Append(memberships, m1) /\ entitlements' = Append(entitlements, e1)
        /\ UNCHANGED <<coupons, orders>>
    <3>1. ActivateMembership(a.amount, a.quantity, k)
      BY <1>5, PostAs
    <3>2. Len(memberships) + 1 = 1
      BY <2>1
    <3> QED  BY <3>1, <3>2 DEF ActivateMembership
  <2>3. user' \in User /\ SameUser(u, user') /\ u \in SimUser
    <3>1. sim.user.balance - a.amount \in Nat
      BY <1>1, <1>5, SimUserFields
    <3>2. u \in SimUser
      BY <1>1, <3>1, SimUserJoins
    <3>3. user.balance - a.amount \in Int /\ user.balance - a.amount = sim.user.balance - a.amount
      BY <1>1, UserFields DEF SameUser
    <3> QED  BY <1>1, <2>2, <3>2, <3>3, UsersJoin
  <2>4. m1 \in Membership /\ e1 \in Entitlement /\ m \in SimMembership /\ e \in SimEntitlement
    BY <1>1 DEF Membership, Entitlement, SimMembership, SimEntitlement, MembershipStatus,
                EntitlementStatus
  <2>5. /\ m.status = m1.status /\ m.paid = m1.paid /\ m1.paid > 0
        /\ e.granted = e1.granted /\ e.consumed = e1.consumed /\ e.revoked = e1.revoked
        /\ e1.membership = 1 /\ e1.status \notin {"REVOKED", "CONSUMED"}
    BY <1>1, <1>5 DEF Ref!Fraction
  <2> HIDE DEF m, e, m1, e1, u
  <2>6. /\ memberships' = <<m1>> /\ entitlements' = <<e1>>
        /\ M \in Seq(SimMembership) /\ E \in Seq(SimEntitlement)
        /\ <<m1>> \in Seq(Membership) /\ <<e1>> \in Seq(Entitlement)
    BY <2>1, <2>2, <2>4
  <2>7. /\ t.user = u /\ t.memberships = M /\ t.entitlements = E
        /\ t.orders = sim.orders /\ t.coupons = sim.coupons
    <3> HIDE DEF M, E
    <3> QED  BY <1>1, <2>3, <2>6, SimMemberFields
  <2>8. /\ SameMemberships(M, <<m1>>) /\ MembershipTerms(M, <<m1>>)
        /\ SameEntitlements(E, <<e1>>) /\ EntitlementTerms(E, <<e1>>)
        /\ Len(<<m1>>) = Len(<<e1>>) /\ <<m1>> # <<>>
    <3>1. /\ Len(M) = 1 /\ M[1] = m /\ Len(<<m1>>) = 1 /\ <<m1>>[1] = m1
          /\ \A j \in DOMAIN <<m1>> : j = 1
      OBVIOUS
    <3>2. /\ Len(E) = 1 /\ E[1] = e /\ Len(<<e1>>) = 1 /\ <<e1>>[1] = e1
          /\ \A j \in DOMAIN <<e1>> : j = 1
      OBVIOUS
    <3> HIDE DEF M, E
    <3>3. SameMemberships(M, <<m1>>) /\ MembershipTerms(M, <<m1>>)
      BY <2>5, <3>1 DEF SameMemberships, MembershipTerms
    <3>4. SameEntitlements(E, <<e1>>) /\ EntitlementTerms(E, <<e1>>)
      BY <2>5, <3>2 DEF SameEntitlements, EntitlementTerms
    <3> QED  BY <3>1, <3>2, <3>3, <3>4
  <2> HIDE DEF M, E, t
  <2>9. Typed(user', coupons', orders', memberships', entitlements')
    BY <1>1, <2>2, <2>3, <2>6 DEF Paired, Typed
  <2>10. Same(t, user', coupons', orders', memberships', entitlements')
    BY <1>1, <2>2, <2>3, <2>6, <2>7, <2>8 DEF Paired, Same
  <2>11. Terms(t, user', coupons', memberships', entitlements')
    BY <1>1, <2>2, <2>6, <2>7, <2>8 DEF Paired, Terms
  <2> QED  BY <2>9, <2>10, <2>11 DEF Effects
<1> HIDE DEF ok, t, h
<1>6. /\ ok => h.status = "APPLIED" /\ h.state = t
      /\ ~ok => h.status = "REJECTED" /\ h.state = sim
  BY <1>2, <1>3, AppliedStatus
<1>7. Replies(a, h)
  BY <1>3, <1>4, <1>6 DEF Replies, SandboxExcuse
<1>8. Compared(a, h)
  BY <1>3, <1>5, <1>6, <1>7 DEF Compared
<1> QED
  BY <1>8 DEF h

SameEntitlement(r, e) == r.consumed = e.consumed /\ r.revoked = e.revoked
EntitlementTerm(i, r, e) ==
  /\ r.granted = e.granted /\ e.membership = i
  /\ e.status \in {"REVOKED", "CONSUMED"} => available(e) <= 0

LEMMA EntitlementsWritten ==
  ASSUME NEW R \in Seq(SimEntitlement), NEW E \in Seq(Entitlement), DOMAIN R = DOMAIN E,
         SameEntitlements(R, E), EntitlementTerms(R, E), NEW i \in DOMAIN E,
         NEW r \in SimEntitlement, NEW e \in Entitlement, EntitlementTerm(i, r, e)
  PROVE  /\ [E EXCEPT ![i] = e] \in Seq(Entitlement) /\ Len([E EXCEPT ![i] = e]) = Len(E)
         /\ EntitlementTerms([R EXCEPT ![i] = r], [E EXCEPT ![i] = e])
         /\ SameEntitlement(r, e) => SameEntitlements([R EXCEPT ![i] = r], [E EXCEPT ![i] = e])
<1> DEFINE R1 == [R EXCEPT ![i] = r]
           E1 == [E EXCEPT ![i] = e]
<1>1. /\ DOMAIN E1 = DOMAIN E /\ R1[i] = r /\ E1[i] = e /\ E1 \in Seq(Entitlement)
      /\ Len(E1) = Len(E) /\ \A j \in DOMAIN E : j # i => R1[j] = R[j] /\ E1[j] = E[j]
  BY UpdateRow
<1> HIDE DEF R1, E1
<1>2. EntitlementTerms(R1, E1)
  BY <1>1 DEF EntitlementTerms, EntitlementTerm
<1>3. SameEntitlement(r, e) => SameEntitlements(R1, E1)
  BY <1>1 DEF SameEntitlements, SameEntitlement
<1> QED
  BY <1>1, <1>2, <1>3 DEF R1, E1

LEMMA EntitlementFields ==
  ASSUME NEW e \in Entitlement
  PROVE  /\ e.granted \in Nat /\ e.consumed \in Nat /\ e.revoked \in Nat /\ e.membership \in Nat
         /\ available(e) = e.granted - e.consumed - e.revoked /\ available(e) \in Int
  BY DEF Entitlement, available

\* The rows that a consumption writes.
Drawn(e, q) == [e EXCEPT !.consumed = e.consumed + q]
Consuming(e, q) ==
  [e EXCEPT !.consumed = e.consumed + q,
            !.status = IF e.consumed + q >= e.granted THEN "CONSUMED" ELSE "PARTIALLY_CONSUMED"]

LEMMA ConsumedRows ==
  ASSUME NEW i, NEW r \in SimEntitlement, NEW e \in Entitlement, SameEntitlement(r, e),
         EntitlementTerm(i, r, e), NEW q \in Nat
  PROVE  /\ Drawn(r, q) \in SimEntitlement /\ Consuming(e, q) \in Entitlement
         /\ SameEntitlement(Drawn(r, q), Consuming(e, q))
         /\ EntitlementTerm(i, Drawn(r, q), Consuming(e, q))
<1> DEFINE n == e.consumed + q
           st == IF n >= e.granted THEN "CONSUMED" ELSE "PARTIALLY_CONSUMED"
           y == [e EXCEPT !.consumed = n, !.status = st]
           x == Drawn(r, q)
<1>1. n \in Nat /\ st \in EntitlementStatus /\ y = Consuming(e, q)
  BY EntitlementFields DEF EntitlementStatus, Consuming
<1>2. /\ x \in SimEntitlement /\ x.granted = r.granted /\ x.consumed = r.consumed + q
      /\ x.revoked = r.revoked
  BY SimConsumedRow DEF Drawn
<1>3. r.consumed + q = n
  BY DEF SameEntitlement
<1>4. y.status = "CONSUMED" => n >= e.granted
  BY DEF Entitlement
<1> HIDE DEF n, st
<1>5. /\ y \in Entitlement /\ y.consumed = n /\ y.status = st /\ y.granted = e.granted
      /\ y.revoked = e.revoked /\ y.membership = e.membership
  BY <1>1 DEF Entitlement
<1>6. y.status # "REVOKED"
  BY <1>5 DEF st
<1> HIDE DEF x, y
<1>7. y.status \in {"REVOKED", "CONSUMED"} => available(y) <= 0
  <2>1. available(y) = e.granted - n - e.revoked /\ e.granted \in Nat /\ e.revoked \in Nat
    BY <1>5, EntitlementFields
  <2> QED  BY <1>1, <1>4, <1>6, <2>1
<1> QED
  BY <1>1, <1>2, <1>3, <1>5, <1>7 DEF SameEntitlement, EntitlementTerm, x

LEMMA ConsumeEntitlementCompared ==
  ASSUME NEW a, Agreeing(a), a.type = "consume_entitlement"
  PROVE  Compared(a, Ref!do_consume_entitlement(sim, a))
<1> DEFINE i == a.target
           q == a.quantity
           r == sim.entitlements[i]
           e == entitlements[i]
           E == [sim.entitlements EXCEPT ![i] = Drawn(r, q)]
           t == SimMember(sim, sim.user, sim.memberships, E)
           ok == i \in DOMAIN sim.entitlements /\ q > 0 /\ Ref!available(r) >= q
           h == Ref!do_consume_entitlement(sim, a)
<1>1. /\ Paired(sim) /\ sim \in SimState /\ sim.user \in SimUser /\ q \in Nat
      /\ sim.memberships \in Seq(SimMembership) /\ sim.entitlements \in Seq(SimEntitlement)
      /\ entitlements \in Seq(Entitlement) /\ DOMAIN sim.entitlements = DOMAIN entitlements
      /\ SameEntitlements(sim.entitlements, entitlements)
      /\ EntitlementTerms(sim.entitlements, entitlements)
  BY SimFacts, ProposalFields, PairedMembership DEF Agreeing, Paired, Same, Terms, Typed
<1>2. i \in DOMAIN entitlements =>
        /\ r \in SimEntitlement /\ e \in Entitlement
        /\ SameEntitlement(r, e) /\ EntitlementTerm(i, r, e)
        /\ Ref!available(r) = available(e) /\ available(e) \in Int
  BY PairedMembership, EntitlementFields DEF SameEntitlement, EntitlementTerm
<1>3. h = Ref!AppliedIf(ok, sim, t)
  <2>1. CASE i \notin DOMAIN sim.entitlements
    BY <2>1 DEF Ref!do_consume_entitlement, Ref!AppliedIf
  <2>2. CASE i \in DOMAIN sim.entitlements
    <3>1. [sim EXCEPT !.entitlements[i].consumed = @ + q] = t
      BY <1>1, <1>2, <2>2 DEF SimMember, SimState, SimEntitlement, Drawn
    <3> HIDE DEF t
    <3> QED  BY <2>2, <3>1 DEF Ref!do_consume_entitlement
  <2> QED  BY <2>1, <2>2
<1>4. /\ ok => Posted(a)
      /\ Posted(a) /\ ~ok => Axis("ENTITLEMENT_OVERCONSUMPTION")
  <2>1. Posted(a) <=> /\ q > 0 /\ i \in DOMAIN entitlements
                      /\ e.status \notin {"REVOKED", "CONSUMED"}
                      /\ Axis("ENTITLEMENT_OVERCONSUMPTION") \/ q <= available(e)
    BY PostedAs DEF Agreeing, CanConsumeEntitlement
  <2>2. i \in DOMAIN entitlements =>
          (e.status \in {"REVOKED", "CONSUMED"} => available(e) <= 0)
    BY <1>2 DEF EntitlementTerm
  <2> HIDE DEF e, r, q, i
  <2> QED  BY <1>1, <1>2, <2>1, <2>2
<1>5. ASSUME NEW k, ok, Post(a, k)  PROVE Effects(a, t)
  <2>1. i \in DOMAIN entitlements
    BY <1>1, <1>5
  <2>2. /\ entitlements' = [entitlements EXCEPT ![i] = Consuming(e, q)]
        /\ UNCHANGED <<user, coupons, orders, memberships>>
    BY <1>5, PostAs DEF ConsumeEntitlement, Consuming
  <2>3. /\ Drawn(r, q) \in SimEntitlement /\ Consuming(e, q) \in Entitlement
        /\ SameEntitlement(Drawn(r, q), Consuming(e, q))
        /\ EntitlementTerm(i, Drawn(r, q), Consuming(e, q))
    <3> HIDE DEF e, r, q, i
    <3> QED  BY <1>1, <1>2, <2>1, ConsumedRows
  <2>4. /\ entitlements' \in Seq(Entitlement) /\ Len(entitlements') = Len(entitlements)
        /\ SameEntitlements(E, entitlements') /\ EntitlementTerms(E, entitlements')
        /\ E \in Seq(SimEntitlement)
    <3> DEFINE x == Drawn(r, q)
               y == Consuming(e, q)
    <3>0. /\ x \in SimEntitlement /\ y \in Entitlement /\ SameEntitlement(x, y)
          /\ EntitlementTerm(i, x, y)
      BY <2>3
    <3> HIDE DEF x, y, i
    <3>1. /\ [entitlements EXCEPT ![i] = y] \in Seq(Entitlement)
          /\ Len([entitlements EXCEPT ![i] = y]) = Len(entitlements)
          /\ SameEntitlements([sim.entitlements EXCEPT ![i] = x], [entitlements EXCEPT ![i] = y])
          /\ EntitlementTerms([sim.entitlements EXCEPT ![i] = x], [entitlements EXCEPT ![i] = y])
      BY <1>1, <2>1, <3>0, EntitlementsWritten
    <3>2. [sim.entitlements EXCEPT ![i] = x] \in Seq(SimEntitlement)
      BY <1>1, <2>1, <3>0, UpdateRow
    <3> QED  BY <2>2, <3>1, <3>2 DEF x, y
  <2>5. /\ t.user = sim.user /\ t.memberships = sim.memberships /\ t.entitlements = E
        /\ t.orders = sim.orders /\ t.coupons = sim.coupons
    <3> HIDE DEF E
    <3> QED  BY <1>1, <2>4, SimMemberFields
  <2> HIDE DEF E, t
  <2>6. Typed(user', coupons', orders', memberships', entitlements')
    BY <1>1, <2>2, <2>4 DEF Paired, Typed
  <2>7. Same(t, user', coupons', orders', memberships', entitlements')
    BY <1>1, <2>2, <2>4, <2>5 DEF Paired, Same
  <2>8. Terms(t, user', coupons', memberships', entitlements')
    BY <1>1, <2>2, <2>4, <2>5 DEF Paired, Terms
  <2> QED  BY <2>6, <2>7, <2>8 DEF Effects
<1>6. ok \in BOOLEAN
  OBVIOUS
<1> HIDE DEF ok, t, h
<1>7. /\ ok => h.status = "APPLIED" /\ h.state = t
      /\ ~ok => h.status = "REJECTED" /\ h.state = sim
  BY <1>3, <1>6, AppliedStatus
<1>8. Replies(a, h)
  BY <1>4, <1>6, <1>7 DEF Replies, SandboxExcuse
<1>9. Compared(a, h)
  BY <1>5, <1>6, <1>7, <1>8 DEF Compared
<1> QED
  BY <1>9 DEF h

\* The rows that a cancellation writes in the sandbox.
Dropped(e) == [e EXCEPT !.revoked = e.revoked + available(e), !.status = "REVOKED"]
PaidBack(m) == [m EXCEPT !.status = "REFUNDED"]

LEMMA DroppedRows ==
  ASSUME NEW i, NEW r \in SimEntitlement, NEW e \in Entitlement, SameEntitlement(r, e),
         EntitlementTerm(i, r, e), Ref!available(r) = available(e), available(e) >= 0
  PROVE  /\ Emptied(r) \in SimEntitlement /\ Dropped(e) \in Entitlement
         /\ EntitlementTerm(i, Emptied(r), Dropped(e)) /\ SameEntitlement(Emptied(r), Dropped(e))
         /\ EntitlementTerm(i, Emptied(r), e)
         /\ available(e) = 0 => SameEntitlement(Emptied(r), e)
<1> DEFINE n == e.revoked + available(e)
           x == Emptied(r)
           y == [e EXCEPT !.revoked = n, !.status = "REVOKED"]
<1>1. /\ e.granted \in Nat /\ e.consumed \in Nat /\ e.revoked \in Nat
      /\ available(e) = e.granted - e.consumed - e.revoked /\ available(e) \in Int
  BY EntitlementFields
<1>2. n \in Nat /\ e.granted - e.consumed - n = 0 /\ (available(e) = 0 => n = e.revoked)
  BY <1>1
<1>3. /\ x \in SimEntitlement /\ x.granted = r.granted /\ x.consumed = r.consumed
      /\ x.revoked = n
  BY SimEmptiedRow DEF SameEntitlement
<1>4. y = Dropped(e)
  BY DEF Dropped
<1> HIDE DEF n, x
<1>5. /\ y \in Entitlement /\ y.consumed = e.consumed /\ y.granted = e.granted
      /\ y.revoked = n /\ y.membership = e.membership
  BY <1>2 DEF Entitlement, EntitlementStatus
<1> HIDE DEF y
<1>6. available(y) = 0
  BY <1>2, <1>5, EntitlementFields
<1>7. EntitlementTerm(i, x, y) /\ SameEntitlement(x, y)
  BY <1>3, <1>5, <1>6 DEF EntitlementTerm, SameEntitlement
<1>8. EntitlementTerm(i, x, e) /\ (available(e) = 0 => SameEntitlement(x, e))
  BY <1>2, <1>3 DEF EntitlementTerm, SameEntitlement
<1> QED
  BY <1>3, <1>4, <1>5, <1>7, <1>8 DEF x

LEMMA MembershipsWritten ==
  ASSUME NEW R \in Seq(SimMembership), NEW M \in Seq(Membership), SameMemberships(R, M),
         MembershipTerms(R, M), NEW i \in DOMAIN M, NEW r \in SimMembership, NEW m \in Membership,
         r.paid = m.paid, m.paid > 0
  PROVE  /\ [M EXCEPT ![i] = m] \in Seq(Membership) /\ Len([M EXCEPT ![i] = m]) = Len(M)
         /\ [M EXCEPT ![i] = m] # <<>>
         /\ MembershipTerms([R EXCEPT ![i] = r], [M EXCEPT ![i] = m])
         /\ r.status = m.status => SameMemberships([R EXCEPT ![i] = r], [M EXCEPT ![i] = m])
<1> DEFINE R1 == [R EXCEPT ![i] = r]
           M1 == [M EXCEPT ![i] = m]
<1>1. DOMAIN R = DOMAIN M
  BY DEF SameMemberships
<1>2. /\ DOMAIN M1 = DOMAIN M /\ R1[i] = r /\ M1[i] = m /\ M1 \in Seq(Membership)
      /\ Len(M1) = Len(M) /\ Len(R1) = Len(R)
      /\ \A j \in DOMAIN M : j # i => R1[j] = R[j] /\ M1[j] = M[j]
  BY <1>1, UpdateRow
<1>3. M1 # <<>>
  BY <1>2
<1> HIDE DEF R1, M1
<1>4. MembershipTerms(R1, M1)
  BY <1>2 DEF MembershipTerms
<1>5. r.status = m.status => SameMemberships(R1, M1)
  BY <1>2 DEF SameMemberships
<1> QED
  BY <1>2, <1>3, <1>4, <1>5 DEF R1, M1

LEMMA CancelEffects ==
  ASSUME NEW a, Agreeing(a), a.type = "cancel_membership", 1 \in DOMAIN memberships, NEW k,
         CancelMembership(1, TRUE, 1, k), rule_spec.membership # None
  PROVE  Effects(a, SimCancelled(sim, Ref!MembershipRefund(sim.memberships[1],
                                                           sim.entitlements[1], TRUE)))
<1> DEFINE m == sim.memberships[1]
           r == sim.entitlements[1]
           f == memberships[1]
           e == entitlements[1]
           back == Ref!MembershipRefund(m, r, TRUE)
           u == [sim.user EXCEPT !.balance = sim.user.balance + back, !.membership = "INACTIVE"]
           M == [sim.memberships EXCEPT ![1] = Ended(m, back)]
           E == [sim.entitlements EXCEPT ![1] = Emptied(r)]
           revoke == available(e) > 0 /\ ~Axis("ENTITLEMENT_LEFT_AFTER_REFUND")
           y == IF revoke THEN Dropped(e) ELSE e
           t == SimCancelled(sim, back)
<1>1. /\ Paired(sim) /\ sim \in SimState /\ sim.user \in SimUser /\ user \in User
      /\ SameUser(sim.user, user) /\ rule_spec \in Ref!RuleSpec
      /\ sim.memberships \in Seq(SimMembership) /\ sim.entitlements \in Seq(SimEntitlement)
      /\ memberships \in Seq(Membership) /\ entitlements \in Seq(Entitlement)
      /\ SameMemberships(sim.memberships, memberships)
      /\ MembershipTerms(sim.memberships, memberships)
      /\ SameEntitlements(sim.entitlements, entitlements)
      /\ EntitlementTerms(sim.entitlements, entitlements)
      /\ Len(memberships) = Len(entitlements) /\ SimMembershipOK(sim)
  BY SimFacts DEF Agreeing, Paired, Same, Terms, Typed
<1>2. /\ DOMAIN sim.memberships = DOMAIN memberships
      /\ DOMAIN sim.entitlements = DOMAIN entitlements
      /\ 1 \in DOMAIN entitlements /\ m \in SimMembership /\ f \in Membership
      /\ m.paid = f.paid /\ f.paid > 0 /\ r \in SimEntitlement /\ e \in Entitlement
      /\ SameEntitlement(r, e) /\ EntitlementTerm(1, r, e)
      /\ Ref!available(r) = available(e) /\ available(e) >= 0 /\ r.granted > 0
  BY <1>1, PairedMembership DEF SimMembershipOK, SameEntitlement, EntitlementTerm
<1>3. back \in Nat /\ (rule_spec.membership.policy = "UNUSED_ONLY" => back = f.paid)
  <2>1. back \in Nat
    <3> HIDE DEF m, r
    <3> QED  BY <1>1, <1>2, MembershipRefundBound
  <2>2. rule_spec.membership.policy = "UNUSED_ONLY" => back = m.paid
    BY DEF Ref!MembershipRefund
  <2> HIDE DEF back, m
  <2> QED  BY <1>2, <2>1, <2>2
<1>4. /\ user' = [user EXCEPT !.balance = user.balance + f.paid, !.membership = "INACTIVE"]
      /\ memberships' = [memberships EXCEPT ![1] = PaidBack(f)]
      /\ entitlements' = IF revoke THEN [entitlements EXCEPT ![1] = Dropped(e)] ELSE entitlements
      /\ UNCHANGED <<coupons, orders>>
  BY DEF CancelMembership, refund_amount, Revokes, PaidBack, Dropped
<1>5. entitlements' = [entitlements EXCEPT ![1] = y]
  <2>1. [entitlements EXCEPT ![1] = entitlements[1]] = entitlements
    BY <1>1, <1>2
  <2> HIDE DEF revoke
  <2>2. CASE revoke
    BY <1>4, <2>2
  <2>3. CASE ~revoke
    BY <1>4, <2>1, <2>3
  <2> QED  BY <2>2, <2>3
<1>6. /\ Emptied(r) \in SimEntitlement /\ y \in Entitlement /\ EntitlementTerm(1, Emptied(r), y)
      /\ ~Axis("ENTITLEMENT_LEFT_AFTER_REFUND") => SameEntitlement(Emptied(r), y)
  <2> HIDE DEF r, e
  <2>1. /\ Emptied(r) \in SimEntitlement /\ Dropped(e) \in Entitlement
        /\ EntitlementTerm(1, Emptied(r), Dropped(e)) /\ SameEntitlement(Emptied(r), Dropped(e))
        /\ EntitlementTerm(1, Emptied(r), e)
        /\ available(e) = 0 => SameEntitlement(Emptied(r), e)
    BY <1>2, DroppedRows
  <2>2. available(e) \in Int
    BY <1>2, EntitlementFields
  <2>3. CASE revoke
    BY <2>1, <2>3
  <2>4. CASE ~revoke
    BY <1>2, <2>1, <2>2, <2>4
  <2> QED  BY <2>3, <2>4
<1>7. /\ Ended(m, back) \in SimMembership /\ Ended(m, back).paid = m.paid
      /\ back # 0 => Ended(m, back).status = "REFUNDED"
      /\ PaidBack(f) \in Membership /\ PaidBack(f).paid = f.paid /\ PaidBack(f).status = "REFUNDED"
  <2> HIDE DEF m, back, f
  <2>1. PaidBack(f) \in Membership /\ PaidBack(f).paid = f.paid /\ PaidBack(f).status = "REFUNDED"
    BY <1>2 DEF Membership, MembershipStatus, PaidBack
  <2> QED  BY <1>2, <1>3, <2>1, SimEndedRow
<1>8. /\ user' \in User /\ u \in SimUser
      /\ back = f.paid => SameUser(u, user')
      /\ user'.membership = "INACTIVE"
  <2>1. /\ sim.user.balance = user.balance /\ sim.user.balance \in Nat /\ f.paid \in Nat
    BY <1>1, <1>2, SimUserFields DEF SameUser, Membership
  <2> DEFINE b == sim.user.balance + back
             c == user.balance + f.paid
  <2>2. b \in Nat /\ c \in Int /\ (back = f.paid => b = c)
    <3> HIDE DEF back, f
    <3> QED  BY <1>3, <2>1
  <2> HIDE DEF b, c, back, f
  <2>3. /\ [user EXCEPT !.balance = c, !.membership = "INACTIVE"] \in User
        /\ b = c => SameUser([sim.user EXCEPT !.balance = b, !.membership = "INACTIVE"],
                             [user EXCEPT !.balance = c, !.membership = "INACTIVE"])
    BY <1>1, <2>2, UsersJoin
  <2>4. [sim.user EXCEPT !.balance = b, !.membership = "INACTIVE"] \in SimUser
    BY <1>1, <2>2, SimUserJoins
  <2>5. [user EXCEPT !.balance = c, !.membership = "INACTIVE"].membership = "INACTIVE"
    BY <1>1 DEF User
  <2> QED  BY <1>4, <2>2, <2>3, <2>4, <2>5 DEF b, c
<1>9. /\ memberships' \in Seq(Membership) /\ Len(memberships') = Len(memberships)
      /\ memberships' # <<>> /\ MembershipTerms(M, memberships') /\ M \in Seq(SimMembership)
      /\ back # 0 => SameMemberships(M, memberships')
  <2> DEFINE p == Ended(m, back)
             q == PaidBack(f)
  <2>1. /\ p \in SimMembership /\ q \in Membership /\ p.paid = q.paid /\ q.paid > 0
        /\ back # 0 => p.status = q.status
    <3> HIDE DEF m, back, f
    <3> QED  BY <1>2, <1>7
  <2>2. memberships' = [memberships EXCEPT ![1] = q] /\ M = [sim.memberships EXCEPT ![1] = p]
    BY <1>4
  <2> HIDE DEF p, q, M, back
  <2>3. [sim.memberships EXCEPT ![1] = p] \in Seq(SimMembership)
    BY <1>1, <1>2, <2>1, UpdateRow
  <2> DEFINE R == sim.memberships
  <2>4. /\ R \in Seq(SimMembership) /\ memberships \in Seq(Membership)
        /\ SameMemberships(R, memberships) /\ MembershipTerms(R, memberships)
    BY <1>1
  <2> HIDE DEF R
  <2>5. /\ [memberships EXCEPT ![1] = q] \in Seq(Membership)
        /\ Len([memberships EXCEPT ![1] = q]) = Len(memberships)
        /\ [memberships EXCEPT ![1] = q] # <<>>
        /\ MembershipTerms([R EXCEPT ![1] = p], [memberships EXCEPT ![1] = q])
        /\ p.status = q.status => SameMemberships([R EXCEPT ![1] = p], [memberships EXCEPT ![1] = q])
    BY <2>1, <2>4, MembershipsWritten
  <2> QED  BY <2>1, <2>2, <2>3, <2>5 DEF R
<1>10. /\ entitlements' \in Seq(Entitlement) /\ Len(entitlements') = Len(entitlements)
       /\ EntitlementTerms(E, entitlements') /\ E \in Seq(SimEntitlement)
       /\ ~Axis("ENTITLEMENT_LEFT_AFTER_REFUND") => SameEntitlements(E, entitlements')
  <2> DEFINE x == Emptied(r)
  <2>1. /\ x \in SimEntitlement /\ y \in Entitlement /\ EntitlementTerm(1, x, y)
        /\ ~Axis("ENTITLEMENT_LEFT_AFTER_REFUND") => SameEntitlement(x, y)
    BY <1>6
  <2>2. E = [sim.entitlements EXCEPT ![1] = x]
    OBVIOUS
  <2> HIDE DEF x, y, E
  <2>3. [sim.entitlements EXCEPT ![1] = x] \in Seq(SimEntitlement)
    BY <1>1, <1>2, <2>1, UpdateRow
  <2>4. /\ [entitlements EXCEPT ![1] = y] \in Seq(Entitlement)
        /\ Len([entitlements EXCEPT ![1] = y]) = Len(entitlements)
        /\ EntitlementTerms([sim.entitlements EXCEPT ![1] = x], [entitlements EXCEPT ![1] = y])
        /\ SameEntitlement(x, y) =>
             SameEntitlements([sim.entitlements EXCEPT ![1] = x], [entitlements EXCEPT ![1] = y])
    <3>1. /\ sim.entitlements \in Seq(SimEntitlement) /\ entitlements \in Seq(Entitlement)
          /\ SameEntitlements(sim.entitlements, entitlements)
          /\ EntitlementTerms(sim.entitlements, entitlements)
          /\ DOMAIN sim.entitlements = DOMAIN entitlements /\ 1 \in DOMAIN entitlements
      BY <1>1, <1>2
    <3>2. x \in SimEntitlement /\ y \in Entitlement /\ EntitlementTerm(1, x, y)
      BY <2>1
    <3> QED  BY <3>1, <3>2, EntitlementsWritten
  <2> QED  BY <1>5, <2>1, <2>2, <2>3, <2>4
<1>11. /\ t.user = u /\ t.memberships = M /\ t.entitlements = E
       /\ t.orders = sim.orders /\ t.coupons = sim.coupons
  <2>1. t = SimMember(sim, u, M, E)
    BY DEF SimCancelled
  <2> HIDE DEF u, M, E, t
  <2> QED  BY <1>1, <1>8, <1>9, <1>10, <2>1, SimMemberFields
<1>12. ~StatesExcuse(a) =>
         ~Axis("ENTITLEMENT_LEFT_AFTER_REFUND") /\ back = f.paid /\ back # 0
  <2>1. ~StatesExcuse(a) =>
          /\ ~Axis("ENTITLEMENT_LEFT_AFTER_REFUND")
          /\ rule_spec.membership.policy = "UNUSED_ONLY"
    BY DEF StatesExcuse
  <2> HIDE DEF back, f
  <2> QED  BY <1>2, <1>3, <2>1
<1> HIDE DEF u, M, E, t, back, f
<1>13. Typed(user', coupons', orders', memberships', entitlements')
  BY <1>1, <1>4, <1>8, <1>9, <1>10 DEF Paired, Typed
<1>14. Terms(t, user', coupons', memberships', entitlements')
  BY <1>1, <1>4, <1>8, <1>9, <1>10, <1>11 DEF Paired, Terms
<1>15. ~StatesExcuse(a) => Same(t, user', coupons', orders', memberships', entitlements')
  BY <1>1, <1>4, <1>8, <1>9, <1>10, <1>11, <1>12 DEF Paired, Same
<1>16. Effects(a, t)
  BY <1>13, <1>14, <1>15 DEF Effects
<1> QED
  BY <1>16 DEF t, back

LEMMA CancelMembershipCompared ==
  ASSUME NEW a, Agreeing(a), validate_action_proposal(a), a.type = "cancel_membership"
  PROVE  Compared(a, Ref!do_cancel_membership(sim, a))
<1> DEFINE m == sim.memberships[1]
           r == sim.entitlements[1]
           ok == /\ m.status = "ACTIVE"
                 /\ ~(/\ a.refund_requested /\ r.consumed > 0
                      /\ rule_spec.membership.policy = "UNUSED_ONLY")
           t == SimCancelled(sim, Ref!MembershipRefund(m, r, TRUE))
           h == Ref!do_cancel_membership(sim, a)
<1>1. /\ rule_spec.membership # None /\ a \in Proposal /\ a.refund_requested = TRUE
      /\ a.target \in DOMAIN sim.memberships
  BY SupportedIn, ScenarioRules, SimFacts, OfferedMembership, ProposalFields DEF Agreeing
<1>2. /\ a.target = 1 /\ 1 \in DOMAIN memberships /\ 1 \in DOMAIN entitlements
      /\ m.status = memberships[1].status /\ r.consumed = entitlements[1].consumed
      /\ r.consumed \in Nat /\ entitlements[1].membership = 1
      /\ \A e \in DOMAIN entitlements : e = 1
      /\ sim.memberships # <<>>
  <2>1. a.target = 1 /\ 1 \in DOMAIN memberships /\ 1 \in DOMAIN entitlements
    BY <1>1, PairedMembership
  <2>2. /\ m.status = memberships[1].status /\ r.consumed = entitlements[1].consumed
        /\ r \in SimEntitlement /\ entitlements[1].membership = 1
        /\ \A e \in DOMAIN entitlements : e = 1
    BY <2>1, PairedMembership
  <2>3. sim.memberships # <<>>
    BY <1>1
  <2> QED  BY <2>1, <2>2, <2>3, SimEntitlementFields
<1>3. h = Ref!AppliedIf(ok, sim, t)
  BY <1>1, <1>2, SimCancelEffect DEF Agreeing
<1>4. Posted(a) <=> /\ memberships[1].status = "ACTIVE"
                    /\ entitlements[1].consumed = 0 \/ Axis("FULL_REFUND_AFTER_CONSUMPTION")
  <2>1. Posted(a) <=> \E e \in DOMAIN entitlements : CanCancelMembership(1, TRUE, e)
    BY <1>1, <1>2, PostedAs DEF Agreeing
  <2>2. CanCancelMembership(1, TRUE, 1) <=>
          /\ memberships[1].status = "ACTIVE"
          /\ entitlements[1].consumed = 0 \/ Axis("FULL_REFUND_AFTER_CONSUMPTION")
    BY <1>2 DEF CanCancelMembership
  <2> QED  BY <1>2, <2>1, <2>2
<1>5. ASSUME NEW k, Post(a, k)  PROVE Effects(a, t)
  <2>1. CancelMembership(1, TRUE, 1, k)
    BY <1>1, <1>2, <1>5, PostAs
  <2> QED  BY <1>1, <1>2, <2>1, CancelEffects
<1>6. ok \in BOOLEAN
  OBVIOUS
<1>7. /\ ok /\ ~Posted(a) => rule_spec.membership.policy # "UNUSED_ONLY"
      /\ ~ok /\ Posted(a) => Axis("FULL_REFUND_AFTER_CONSUMPTION")
  <2> HIDE DEF m, r
  <2> QED  BY <1>1, <1>2, <1>4
<1> HIDE DEF ok, t, h
<1>8. /\ ok => h.status = "APPLIED" /\ h.state = t
      /\ ~ok => h.status = "REJECTED" /\ h.state = sim
  BY <1>3, <1>6, AppliedStatus
<1>9. Replies(a, h)
  BY <1>6, <1>7, <1>8 DEF Replies, SandboxExcuse, SimulatorExcuse
<1>10. Compared(a, h)
  BY <1>5, <1>6, <1>8, <1>9 DEF Compared
<1> QED
  BY <1>10 DEF h

-----------------------------------------------------------------------------
(* The path *)

LEMMA HandlerCompared ==
  ASSUME NEW a, Agreeing(a), validate_action_proposal(a)
  PROVE  Compared(a, Ref!handler(sim, a))
<1>1. a.type \in SimActions
  BY DEF Agreeing, Proposal
<1>2. CASE a.type = "create_user"
  BY <1>2, CreateUserCompared DEF Ref!handler
<1>3. CASE a.type = "issue_coupon"
  BY <1>3, IssueCouponCompared DEF Ref!handler
<1>4. CASE a.type = "create_order"
  BY <1>4, CreateOrderCompared DEF Ref!handler
<1>5. CASE a.type = "apply_coupon"
  BY <1>5, ApplyCouponCompared DEF Ref!handler
<1>6. CASE a.type = "pay_order"
  BY <1>6, PayOrderCompared DEF Ref!handler
<1>7. CASE a.type = "refund_order"
  BY <1>7, RefundOrderCompared DEF Ref!handler
<1>8. CASE a.type = "redeem_points"
  BY <1>8, RedeemPointsCompared DEF Ref!handler
<1>9. CASE a.type = "activate_membership"
  BY <1>9, ActivateMembershipCompared DEF Ref!handler
<1>10. CASE a.type = "consume_entitlement"
  BY <1>10, ConsumeEntitlementCompared DEF Ref!handler
<1>11. CASE a.type = "cancel_membership"
  BY <1>11, CancelMembershipCompared DEF Ref!handler
<1> QED
  BY <1>1, <1>2, <1>3, <1>4, <1>5, <1>6, <1>7, <1>8, <1>9, <1>10, <1>11 DEF SimActions

\* The handlers leave the keys alone; transition() alone records them.
LEMMA HandlerSeen ==
  ASSUME NEW s \in SimState, NEW a
  PROVE  Ref!handler(s, a).state.seen = s.seen
<1>1. Ref!do_create_user(s, a).state.seen = s.seen
  BY DEF SimState, Ref!do_create_user, Ref!AppliedIf, Ref!Applied, Ref!Reject, Ref!Result
<1>2. Ref!do_issue_coupon(s, a).state.seen = s.seen
  BY DEF SimState, Ref!do_issue_coupon, Ref!AppliedIf, Ref!Applied, Ref!Reject, Ref!Result
<1>3. Ref!do_create_order(s, a).state.seen = s.seen
  BY DEF SimState, Ref!do_create_order, Ref!AppliedIf, Ref!Applied, Ref!Reject, Ref!Result
<1>4. Ref!do_apply_coupon(s, a).state.seen = s.seen
  BY DEF SimState, Ref!do_apply_coupon, Ref!AppliedIf, Ref!Applied, Ref!Reject, Ref!Result
<1>5. Ref!do_pay_order(s, a).state.seen = s.seen
  BY DEF SimState, Ref!do_pay_order, Ref!AppliedIf, Ref!Applied, Ref!Reject, Ref!Result
<1>6. Ref!do_refund_order(s, a).state.seen = s.seen
  BY DEF SimState, Ref!do_refund_order, Ref!Applied, Ref!Reject, Ref!Result
<1>7. Ref!do_redeem_points(s, a).state.seen = s.seen
  BY DEF SimState, Ref!do_redeem_points, Ref!AppliedIf, Ref!Applied, Ref!Reject, Ref!Result
<1>8. Ref!do_activate_membership(s, a).state.seen = s.seen
  BY DEF SimState, Ref!do_activate_membership, Ref!AppliedIf, Ref!Applied, Ref!Reject, Ref!Result
<1>9. Ref!do_consume_entitlement(s, a).state.seen = s.seen
  BY DEF SimState, Ref!do_consume_entitlement, Ref!AppliedIf, Ref!Applied, Ref!Reject, Ref!Result
<1>10. Ref!do_cancel_membership(s, a).state.seen = s.seen
  BY DEF SimState, Ref!do_cancel_membership, Ref!AppliedIf, Ref!Applied, Ref!Reject, Ref!Result
<1> QED
  BY <1>1, <1>2, <1>3, <1>4, <1>5, <1>6, <1>7, <1>8, <1>9, <1>10 DEF Ref!handler, Ref!Result

\* Everything of a simulated state but the keys it has seen.
SameWorld(s, t) ==
  /\ s.user = t.user /\ s.orders = t.orders /\ s.coupons = t.coupons
  /\ s.memberships = t.memberships /\ s.entitlements = t.entitlements

\* A supported action under a new key runs its handler; the key is recorded.
LEMMA NewKey ==
  ASSUME NEW a, Agreeing(a), NEW key \in Nat \ {0}, <<a.type, key>> \notin sim.seen
  PROVE  LET h == Ref!handler(sim, a)
             r == Ref!transition(sim, a, key)
         IN /\ r.status = h.status /\ SameWorld(r.state, h.state)
            /\ r.state.seen \subseteq sim.seen \cup {<<a.type, key>>}
            /\ h.status # "APPLIED" => r.state = h.state
<1> DEFINE h == Ref!handler(sim, a)
           r == Ref!transition(sim, a, key)
           X == h.state.seen \cup {<<a.type, key>>}
           kept == [h.state EXCEPT !.seen = X]
<1>1. a.type \in {"create_user"} \cup Ref!scenario_actions[sim.scenario]
  <2>1. sim.scenario = scenario /\ a.type \in SimActions
    BY DEF Agreeing, SimInv, Proposal
  <2>2. Ref!scenario_actions = scenario_actions
    BY DEF Ref!scenario_actions, scenario_actions
  <2>3. a.type # "inspect_state"
    BY <2>1 DEF SimActions
  <2> QED  BY <2>1, <2>2, <2>3 DEF Agreeing, Supported
<1>2. r = IF h.status = "APPLIED" THEN Ref!Applied(kept) ELSE h
  BY <1>1 DEF Ref!transition
<1>3. h.state \in SimState /\ h.state.seen = sim.seen
  BY SimHandler, HandlerSeen, SimFacts DEF Agreeing
<1>4. SameWorld(kept, h.state) /\ kept.seen = X
  <2> HIDE DEF h, X
  <2> QED  BY <1>3 DEF SameWorld, SimState
<1> HIDE DEF kept, h, r
<1>5. CASE h.status = "APPLIED"
  <2>1. r.status = "APPLIED" /\ r.state = kept
    BY <1>2, <1>5 DEF Ref!Applied, Ref!Result
  <2> QED  BY <1>3, <1>4, <1>5, <2>1 DEF h, r
<1>6. CASE h.status # "APPLIED"
  <2>1. r = h
    BY <1>2, <1>6
  <2>2. SameWorld(h.state, h.state)
    BY DEF SameWorld
  <2> QED  BY <1>3, <1>6, <2>1, <2>2 DEF h, r
<1> QED
  BY <1>5, <1>6

\* What the comparison reads is the world, not the keys.
LEMMA WorldRead ==
  ASSUME NEW s, NEW t, SameWorld(s, t), NEW a, NEW U, NEW C, NEW O, NEW M, NEW E
  PROVE  /\ SimulatorExcuse(a, s) <=> SimulatorExcuse(a, t)
         /\ SandboxExcuse(a, s) <=> SandboxExcuse(a, t)
         /\ CrashExcuse(a, s) <=> CrashExcuse(a, t)
         /\ Same(s, U, C, O, M, E) <=> Same(t, U, C, O, M, E)
         /\ Terms(s, U, C, M, E) <=> Terms(t, U, C, M, E)
<1>1. /\ s.user = t.user /\ s.orders = t.orders /\ s.coupons = t.coupons
      /\ s.memberships = t.memberships /\ s.entitlements = t.entitlements
  BY DEF SameWorld
<1>2. SimulatorExcuse(a, s) <=> SimulatorExcuse(a, t)
  BY <1>1 DEF SimulatorExcuse
<1>3. SandboxExcuse(a, s) <=> SandboxExcuse(a, t)
  BY <1>1 DEF SandboxExcuse
<1>4. CrashExcuse(a, s) <=> CrashExcuse(a, t)
  BY <1>1 DEF CrashExcuse
<1>5. Same(s, U, C, O, M, E) <=> Same(t, U, C, O, M, E)
  BY <1>1 DEF Same
<1>6. Terms(s, U, C, M, E) <=> Terms(t, U, C, M, E)
  BY <1>1 DEF Terms
<1> QED
  BY <1>2, <1>3, <1>4, <1>5, <1>6

\* The keys seen are those of earlier steps, and as long as the sides agree they are paired.
ReplayInv ==
  /\ SimInv(sim) /\ steps \in Nat /\ rule_spec.scenario = scenario
  /\ \A x \in sim.seen : x[2] <= steps
  /\ verdict = "AGREE" => Paired(sim)

ReplayExplained ==
  /\ verdict = "SIMULATOR_ONLY" => SimulatorExcuse(last, sim)
  /\ verdict = "SANDBOX_ONLY" => SandboxExcuse(last, sim)
  /\ verdict = "STATES" => StatesExcuse(last)
  /\ verdict = "CRASHED" => CrashExcuse(last, sim)

LEMMA ExplainedAs == ReplayExplained <=> PredictionsAccepted /\ DivergenceExplained
<1>1. PredictionsAccepted <=> (verdict = "SIMULATOR_ONLY" => SimulatorExcuse(last, sim))
  BY DEF PredictionsAccepted, SimulatorExcuse
<1>2. DivergenceExplained <=>
        /\ verdict = "SANDBOX_ONLY" => SandboxExcuse(last, sim)
        /\ verdict = "STATES" => StatesExcuse(last)
        /\ verdict = "CRASHED" => CrashExcuse(last, sim)
  BY DEF DivergenceExplained, SandboxExcuse, StatesExcuse, CrashExcuse
<1> QED
  BY <1>1, <1>2 DEF ReplayExplained

LEMMA ReplayStart ==
  ASSUME ReplayInit
  PROVE  ReplayInv /\ ReplayExplained
<1>1. /\ rule_spec \in Ref!RuleSpec /\ rule_spec.scenario = scenario
      /\ sim = Ref!initial_state(rule_spec) /\ steps = 0 /\ verdict = "AGREE"
      /\ EmptyTables
  BY RulesAssumption DEF ReplayInit, Init
<1>2. SimInv(sim)
  BY <1>1, SimInit
<1>3. /\ sim.user = [exists |-> FALSE, balance |-> 0, points |-> 0, membership |-> "NONE"]
      /\ sim.coupons = <<>> /\ sim.orders = <<>> /\ sim.memberships = <<>>
      /\ sim.entitlements = <<>> /\ sim.seen = {}
  BY <1>1 DEF Ref!initial_state
<1>4. /\ user = [exists |-> FALSE, balance |-> 0, points |-> 0, membership |-> "INACTIVE"]
      /\ coupons = <<>> /\ orders = <<>> /\ memberships = <<>> /\ entitlements = <<>>
  BY <1>1 DEF EmptyTables, NoUser
<1>5. SameUser(sim.user, user) /\ user \in User /\ user.membership = "INACTIVE"
  BY <1>3, <1>4 DEF SameUser, User
<1>6. Same(sim, user, coupons, orders, memberships, entitlements)
  BY <1>3, <1>4, <1>5 DEF Same, SameOrders, SameCoupons, SameMemberships, SameEntitlements
<1>7. Terms(sim, user, coupons, memberships, entitlements)
  BY <1>3, <1>4, <1>5 DEF Terms, CouponTerms, MembershipTerms, EntitlementTerms
<1>8. Typed(user, coupons, orders, memberships, entitlements)
  BY <1>4, <1>5 DEF Typed
<1> QED
  BY <1>1, <1>2, <1>3, <1>6, <1>7, <1>8 DEF ReplayInv, ReplayExplained, Paired

\* Nothing but the keys of the simulated world enters SimInv from outside.
LEMMA SimInvPrimed ==
  ASSUME rule_spec' = rule_spec, SimInv(sim')
  PROVE  SimInv(sim)'
  BY DEF SimInv, SimOrderOK, SimHolds, SimCouponOK, SimMembershipOK, Consumed

\* The verdict of a step, case by case.
LEMMA StepVerdict ==
  ASSUME NEW a, Step(a)
  PROVE  LET r == Ref!transition(sim, a, steps + 1) IN
         /\ r.status = "CRASHED" => verdict' = "CRASHED"
         /\ r.status = "APPLIED" /\ ~Posted(a) => verdict' = "SIMULATOR_ONLY"
         /\ r.status \notin {"APPLIED", "CRASHED"} /\ Posted(a) => verdict' = "SANDBOX_ONLY"
         /\ r.status = "APPLIED" /\ Posted(a) => verdict' = IF SameState' THEN "AGREE" ELSE "STATES"
         /\ r.status \notin {"APPLIED", "CRASHED"} /\ ~Posted(a) => verdict' = "AGREE"
         /\ verdict' # "AGREE" => last' = a
         /\ Posted(a) => Post(a, steps + 1)
         /\ ~Posted(a) => UNCHANGED tables
         /\ sim' = r.state /\ steps' = steps + 1 /\ verdict = "AGREE"
         /\ validate_action_proposal(a) /\ UNCHANGED <<scenario, axes, rule_spec>>
<1> DEFINE r == Ref!transition(sim, a, steps + 1)
<1>1. /\ verdict' = CASE r.status = "CRASHED" -> "CRASHED"
                      [] r.status = "APPLIED" /\ ~Posted(a) -> "SIMULATOR_ONLY"
                      [] r.status # "APPLIED" /\ r.status # "CRASHED" /\ Posted(a) -> "SANDBOX_ONLY"
                      [] r.status = "APPLIED" /\ Posted(a) -> IF SameState' THEN "AGREE" ELSE "STATES"
                      [] OTHER -> "AGREE"
      /\ last' = IF verdict' = "AGREE" THEN last ELSE a
      /\ \/ Posted(a) /\ Post(a, steps + 1)
         \/ ~Posted(a) /\ UNCHANGED tables
      /\ sim' = r.state /\ steps' = steps + 1 /\ verdict = "AGREE"
      /\ validate_action_proposal(a) /\ UNCHANGED <<scenario, axes, rule_spec>>
  BY DEF Step, run
<1> HIDE DEF r
<1>2. /\ r.status = "CRASHED" => verdict' = "CRASHED"
      /\ r.status = "APPLIED" /\ ~Posted(a) => verdict' = "SIMULATOR_ONLY"
      /\ r.status \notin {"APPLIED", "CRASHED"} /\ Posted(a) => verdict' = "SANDBOX_ONLY"
      /\ r.status = "APPLIED" /\ Posted(a) => verdict' = IF SameState' THEN "AGREE" ELSE "STATES"
      /\ r.status \notin {"APPLIED", "CRASHED"} /\ ~Posted(a) => verdict' = "AGREE"
  BY <1>1
<1> QED
  BY <1>1, <1>2 DEF r

\* The excuses and the comparison in the next state, of what the step left alone.
LEMMA ExplainedPrimed ==
  ASSUME UNCHANGED <<scenario, axes, rule_spec>>,
         /\ verdict' = "SIMULATOR_ONLY" => SimulatorExcuse(last', sim')
         /\ verdict' = "SANDBOX_ONLY" => SandboxExcuse(last', sim')
         /\ verdict' = "STATES" => StatesExcuse(last')
         /\ verdict' = "CRASHED" => CrashExcuse(last', sim')
  PROVE  ReplayExplained'
<1>1. SimulatorExcuse(last, sim)' <=> SimulatorExcuse(last', sim')
  BY DEF SimulatorExcuse
<1>2. SandboxExcuse(last, sim)' <=> SandboxExcuse(last', sim')
  BY DEF SandboxExcuse, Axis
<1>3. StatesExcuse(last)' <=> StatesExcuse(last')
  BY DEF StatesExcuse, Axis
<1>4. CrashExcuse(last, sim)' <=> CrashExcuse(last', sim')
  BY DEF CrashExcuse
<1> QED
  BY <1>1, <1>2, <1>3, <1>4 DEF ReplayExplained

LEMMA PairedPrimed ==
  ASSUME Same(sim', user', coupons', orders', memberships', entitlements'),
         Terms(sim', user', coupons', memberships', entitlements'),
         Typed(user', coupons', orders', memberships', entitlements')
  PROVE  Paired(sim)'
  BY DEF Paired, Same, Terms, Typed, SameUser, SameOrders, SameCoupons, SameMemberships,
         SameEntitlements, SameOrder, CouponTerms, MembershipTerms, EntitlementTerms, available

LEMMA SameStatePrimed ==
  SameState' <=> Same(sim', user', coupons', orders', memberships', entitlements')
  BY DEF SameState, Same, SameUser, SameOrders, SameCoupons, SameMemberships,
         SameEntitlements, SameOrder

\* A proposal the scenario has no handler for changes neither side.
LEMMA UnsupportedStep ==
  ASSUME ReplayInv, NEW a \in Proposal, Step(a), ~Supported(a.type)
  PROVE  ReplayInv' /\ ReplayExplained'
<1> DEFINE r == Ref!transition(sim, a, steps + 1)
<1>1. r.status = "UNSUPPORTED" /\ r.state = sim
  <2>1. sim.scenario = scenario
    BY DEF ReplayInv, SimInv
  <2>2. Ref!scenario_actions = scenario_actions
    BY DEF Ref!scenario_actions, scenario_actions
  <2>3. a.type \notin {"create_user"} \cup Ref!scenario_actions[sim.scenario]
    BY <2>1, <2>2 DEF Supported
  <2> QED  BY <2>3 DEF Ref!transition, Ref!Result
<1>2. ~Posted(a)
  BY DEF Posted
<1>3. /\ verdict' = "AGREE" /\ UNCHANGED tables /\ sim' = sim /\ steps' = steps + 1
      /\ verdict = "AGREE" /\ UNCHANGED <<scenario, axes, rule_spec>>
  <2> HIDE DEF r
  <2> QED  BY <1>1, <1>2, StepVerdict DEF r
<1>4. SimInv(sim)'
  BY <1>3, SimInvPrimed DEF ReplayInv
<1>5. Paired(sim)'
  BY <1>3, PairedPrimed DEF ReplayInv, Paired, tables
<1>6. ReplayExplained'
  BY <1>3, ExplainedPrimed
<1>7. \A x \in sim'.seen : x[2] <= steps'
  <2>1. \A x \in sim.seen : x[2] \in Nat
    BY DEF ReplayInv, SimInv, SimState
  <2> QED  BY <1>3, <2>1 DEF ReplayInv
<1> QED
  BY <1>3, <1>4, <1>5, <1>6, <1>7 DEF ReplayInv

LEMMA SupportedStep ==
  ASSUME ReplayInv, NEW a \in Proposal, Step(a), Supported(a.type)
  PROVE  ReplayInv' /\ ReplayExplained'
<1> DEFINE key == steps + 1
           r == Ref!transition(sim, a, key)
           h == Ref!handler(sim, a)
<1>1. /\ verdict = "AGREE" /\ validate_action_proposal(a) /\ sim' = r.state /\ steps' = key
      /\ UNCHANGED <<scenario, axes, rule_spec>>
  BY StepVerdict
<1>2. Agreeing(a)
  BY <1>1 DEF ReplayInv, Agreeing
<1>3. key \in Nat \ {0} /\ <<a.type, key>> \notin sim.seen
        /\ \A x \in sim.seen : x[2] <= key
  <2>1. steps \in Nat /\ \A x \in sim.seen : x[2] \in Nat /\ x[2] <= steps
    BY DEF ReplayInv, SimInv, SimState
  <2>2. <<a.type, key>>[2] = key
    OBVIOUS
  <2> QED  BY <2>1, <2>2
<1>4. Replies(a, h) /\ \A k : Posted(a) /\ Post(a, k) /\ h.status = "APPLIED" => Effects(a, h.state)
  BY <1>1, <1>2, HandlerCompared DEF Compared
<1>5. /\ r.status = h.status /\ SameWorld(sim', h.state)
      /\ sim'.seen \subseteq sim.seen \cup {<<a.type, key>>}
      /\ h.status # "APPLIED" => sim' = h.state
  <2> HIDE DEF key
  <2> QED  BY <1>1, <1>2, <1>3, NewKey
<1>6. /\ h.status = "CRASHED" => verdict' = "CRASHED"
      /\ h.status = "APPLIED" /\ ~Posted(a) => verdict' = "SIMULATOR_ONLY"
      /\ h.status \notin {"APPLIED", "CRASHED"} /\ Posted(a) => verdict' = "SANDBOX_ONLY"
      /\ h.status = "APPLIED" /\ Posted(a) => verdict' = IF SameState' THEN "AGREE" ELSE "STATES"
      /\ h.status \notin {"APPLIED", "CRASHED"} /\ ~Posted(a) => verdict' = "AGREE"
      /\ verdict' # "AGREE" => last' = a
      /\ Posted(a) => Post(a, key)
      /\ ~Posted(a) => UNCHANGED tables
  <2>1. /\ r.status = "CRASHED" => verdict' = "CRASHED"
        /\ r.status = "APPLIED" /\ ~Posted(a) => verdict' = "SIMULATOR_ONLY"
        /\ r.status \notin {"APPLIED", "CRASHED"} /\ Posted(a) => verdict' = "SANDBOX_ONLY"
        /\ r.status = "APPLIED" /\ Posted(a) => verdict' = IF SameState' THEN "AGREE" ELSE "STATES"
        /\ r.status \notin {"APPLIED", "CRASHED"} /\ ~Posted(a) => verdict' = "AGREE"
        /\ verdict' # "AGREE" => last' = a
        /\ Posted(a) => Post(a, key)
        /\ ~Posted(a) => UNCHANGED tables
    BY StepVerdict
  <2> HIDE DEF r, h
  <2> QED  BY <1>5, <2>1
<1>7. SimInv(sim)'
  <2>1. SimInv(sim')
    <3> HIDE DEF key
    <3> QED  BY <1>1, <1>3, SimTransition DEF ReplayInv
  <2> QED  BY <1>1, <2>1, SimInvPrimed
<1>8. \A x \in sim'.seen : x[2] <= steps'
  <2>1. <<a.type, key>>[2] = key /\ key <= key
    BY <1>3
  <2> HIDE DEF key
  <2> QED  BY <1>1, <1>3, <1>5, <2>1
<1> HIDE DEF h, r, key
<1>9. /\ SimulatorExcuse(a, sim') <=> SimulatorExcuse(a, h.state)
      /\ SandboxExcuse(a, sim') <=> SandboxExcuse(a, h.state)
      /\ CrashExcuse(a, sim') <=> CrashExcuse(a, h.state)
      /\ Same(sim', user', coupons', orders', memberships', entitlements') <=>
           Same(h.state, user', coupons', orders', memberships', entitlements')
      /\ Terms(sim', user', coupons', memberships', entitlements') <=>
           Terms(h.state, user', coupons', memberships', entitlements')
  BY <1>5, WorldRead
<1>10. /\ h.status \in {"APPLIED", "REJECTED", "CRASHED"}
       /\ h.status # "APPLIED" => h.state = sim
       /\ h.status = "APPLIED" /\ ~Posted(a) => SimulatorExcuse(a, sim')
       /\ h.status = "REJECTED" /\ Posted(a) => SandboxExcuse(a, sim')
       /\ h.status = "CRASHED" => CrashExcuse(a, sim')
  BY <1>4, <1>9 DEF Replies
<1>11. ASSUME h.status = "APPLIED", Posted(a)
       PROVE  /\ Typed(user', coupons', orders', memberships', entitlements')
              /\ SameState' => Terms(sim', user', coupons', memberships', entitlements')
              /\ SameState' \/ StatesExcuse(a)
  BY <1>4, <1>6, <1>9, <1>11, SameStatePrimed DEF Effects
<1>12. ReplayExplained'
  <2>1. verdict' = "SIMULATOR_ONLY" => SimulatorExcuse(last', sim')
    BY <1>6, <1>10
  <2>2. verdict' = "SANDBOX_ONLY" => SandboxExcuse(last', sim')
    BY <1>6, <1>10
  <2>3. verdict' = "STATES" => StatesExcuse(last')
    BY <1>6, <1>10, <1>11
  <2>4. verdict' = "CRASHED" => CrashExcuse(last', sim')
    BY <1>6, <1>10
  <2> QED  BY <1>1, <2>1, <2>2, <2>3, <2>4, ExplainedPrimed
<1>13. ASSUME verdict' = "AGREE"  PROVE Paired(sim)'
  <2>1. CASE h.status = "APPLIED" /\ Posted(a)
    <3>1. SameState'
      BY <1>6, <1>13, <2>1
    <3> QED  BY <1>11, <2>1, <3>1, SameStatePrimed, PairedPrimed
  <2>2. CASE ~(h.status = "APPLIED" /\ Posted(a))
    <3>1. h.status # "APPLIED" /\ ~Posted(a)
      BY <1>6, <1>10, <1>13, <2>2
    <3>2. sim' = sim /\ UNCHANGED tables
      BY <1>5, <1>6, <1>10, <3>1
    <3> QED  BY <1>2, <3>2, PairedPrimed DEF Agreeing, Paired, tables
  <2> QED  BY <2>1, <2>2
<1> QED
  BY <1>1, <1>3, <1>7, <1>8, <1>12, <1>13 DEF ReplayInv

LEMMA ReplayInvariant == ReplaySpec => [](ReplayInv /\ ReplayExplained)
<1> DEFINE I == ReplayInv /\ ReplayExplained
<1>1. ReplayInit => I
  BY ReplayStart
<1>2. I /\ [ReplayNext]_replayVars => I'
  <2> SUFFICES ASSUME I, [ReplayNext]_replayVars  PROVE I'
    OBVIOUS
  <2>1. CASE UNCHANGED replayVars
    <3>1. /\ sim' = sim /\ steps' = steps /\ verdict' = verdict /\ last' = last
          /\ UNCHANGED <<scenario, axes, rule_spec>>
          /\ UNCHANGED <<user, coupons, orders, memberships, entitlements>>
      BY <2>1 DEF replayVars, domainVars
    <3>2. SimInv(sim)'
      BY <3>1, SimInvPrimed DEF ReplayInv
    <3>3. Paired(sim) => Paired(sim)'
      BY <3>1, PairedPrimed DEF Paired
    <3>4. ReplayExplained'
      BY <3>1, ExplainedPrimed DEF ReplayExplained
    <3> QED  BY <3>1, <3>2, <3>3, <3>4 DEF ReplayInv
  <2>2. ASSUME NEW a \in Proposals, Step(a)  PROVE I'
    <3>1. a \in Proposal
      BY ProposalsType DEF ReplayInv
    <3> QED  BY <2>2, <3>1, UnsupportedStep, SupportedStep
  <2> QED  BY <2>1, <2>2 DEF ReplayNext
<1> QED
  BY <1>1, <1>2, PTL DEF ReplaySpec

\* What the simulator applies and the sandbox refuses is what PredictionsAccepted lists, on
\* every path of Proposals, for every rule specification and profile: validate_action_proposal,
\* ReferenceSimulator.transition and the sandbox's handlers taken together.
THEOREM PredictionsAreAccepted == ReplaySpec => []PredictionsAccepted
<1>1. ReplayInv /\ ReplayExplained => PredictionsAccepted
  BY ExplainedAs
<1> QED
  BY <1>1, ReplayInvariant, PTL

\* Wherever the two sides part otherwise, DivergenceExplained's cause is there: a defect axis of
\* the run, a rule the sandbox has no notion of, a second membership, a promotion in another
\* currency than CNY (_do_issue_coupon), a membership price that is no whole number of cents
\* (_do_activate_membership), or an order refunded without points to take back.
THEOREM DivergencesAreExplained == ReplaySpec => []DivergenceExplained
<1>1. ReplayInv /\ ReplayExplained => DivergenceExplained
  BY ExplainedAs
<1> QED
  BY <1>1, ReplayInvariant, PTL

-----------------------------------------------------------------------------
(* Minimisation *)

\* What the answers in a table say of a trace: it violates, it was replayed and does not.
Yes(table, c) == c \in DOMAIN table /\ table[c] = "VIOLATED"
No(table, c) == c \in DOMAIN table /\ table[c] # "VIOLATED"

\* A replay is remembered, changes no earlier answer and, when repeated, tells the same.
LEMMA Replayed ==
  ASSUME NEW c, NEW yes \in BOOLEAN, Confirms(c, yes)
  PROVE  /\ yes => Yes(known', c)
         /\ ~yes => No(known', c)
         /\ yes => ~No(known, c)
         /\ \A d : Yes(known, d) => Yes(known', d)
         /\ \A d : No(known, d) => No(known', d)
         /\ trials' = trials + 1
<1>1. PICK status \in Answers(c) :
        /\ yes = (classify_replay(status) = "CONFIRMED_VIOLATION")
        /\ known' = [d \in DOMAIN known \cup {c} |-> IF d = c THEN status ELSE known[d]]
  BY DEF Confirms
<1>2. yes <=> status = "VIOLATED"
  <2>1. CASE status = "VIOLATED"
    BY <1>1, <2>1, Zenon DEF classify_replay
  <2>2. CASE status # "VIOLATED"
    <3>1. classify_replay(status) # "CONFIRMED_VIOLATION"
      BY <2>2, Zenon DEF classify_replay
    <3> QED  BY <1>1, <2>2, <3>1
  <2> QED  BY <2>1, <2>2
<1>3. /\ DOMAIN known' = {c} \cup DOMAIN known
      /\ known'[c] = status
      /\ \A d \in DOMAIN known : d # c => known'[d] = known[d]
  BY <1>1
<1>4. c \in DOMAIN known => status = known[c]
  BY <1>1 DEF Answers
<1> QED
  BY <1>2, <1>3, <1>4 DEF Confirms, Yes, No

-----------------------------------------------------------------------------
(* Deleting a chunk. *)

Increasing(s) == \A i \in DOMAIN s : \A j \in 1 .. i - 1 : s[j] < s[i]

\* What is left is in order and shorter.
LEMMA Deleted ==
  ASSUME NEW s \in Seq(Nat), NEW i \in 0 .. Len(s) - 1, NEW n \in Nat \ {0}
  PROVE  /\ Without(s, i, n) \in Seq(Nat)
         /\ Len(Without(s, i, n)) < Len(s)
         /\ Increasing(s) => Increasing(Without(s, i, n))
<1> DEFINE a == SubSeq(s, 1, i)
           b == SubSeq(s, i + n + 1, Len(s))
<1>1. a \in Seq(Nat) /\ Len(a) = i /\ \A j \in 1 .. i : a[j] = s[j]
  <2>1. \A j \in 1 .. i : s[j] \in Nat
    OBVIOUS
  <2>2. a \in Seq(Nat) /\ Len(a) = (IF 1 <= i THEN i - 1 + 1 ELSE 0)
        /\ \A j \in 1 .. i - 1 + 1 : a[j] = s[1 + j - 1]
    BY <2>1, SubSeqProperties
  <2> QED  BY <2>2
<1>2. /\ b \in Seq(Nat)
      /\ Len(b) = (IF i + n + 1 <= Len(s) THEN Len(s) - i - n ELSE 0)
      /\ \A j \in 1 .. Len(b) : b[j] = s[i + n + j]
  <2>1. \A j \in i + n + 1 .. Len(s) : s[j] \in Nat
    OBVIOUS
  <2>2. /\ b \in Seq(Nat)
        /\ Len(b) = (IF i + n + 1 <= Len(s) THEN Len(s) - (i + n + 1) + 1 ELSE 0)
        /\ \A j \in 1 .. Len(s) - (i + n + 1) + 1 : b[j] = s[i + n + 1 + j - 1]
    BY <2>1, SubSeqProperties
  <2> QED  BY <2>2
<1>3. /\ a \o b \in Seq(Nat) /\ Len(a \o b) = i + Len(b)
      /\ \A j \in 1 .. i + Len(b) : (a \o b)[j] = IF j <= i THEN s[j] ELSE s[j + n]
  <2> HIDE DEF a, b
  <2>1. /\ a \o b \in Seq(Nat) /\ Len(a \o b) = Len(a) + Len(b)
        /\ \A j \in 1 .. Len(a) + Len(b) :
             (a \o b)[j] = IF j <= Len(a) THEN a[j] ELSE b[j - Len(a)]
    BY <1>1, <1>2, ConcatProperties
  <2>2. ASSUME NEW j \in 1 .. i + Len(b), ~(j <= i)  PROVE b[j - i] = s[j + n]
    <3>1. j - i \in 1 .. Len(b)
      BY <2>2, <1>2
    <3>2. b[j - i] = s[i + n + (j - i)]
      BY <3>1, <1>2
    <3>3. i + n + (j - i) = j + n
      OBVIOUS
    <3> QED  BY <3>2, <3>3
  <2>3. Len(a) = i /\ Len(a \o b) = i + Len(b)
    BY <1>1, <2>1
  <2>4. ASSUME NEW j \in 1 .. i + Len(b)
        PROVE  (a \o b)[j] = IF j <= i THEN s[j] ELSE s[j + n]
    <3>1. (a \o b)[j] = IF j <= i THEN a[j] ELSE b[j - i]
      BY <2>1, <2>3
    <3>2. j <= i => a[j] = s[j]
      BY <1>1
    <3> QED  BY <2>2, <3>1, <3>2
  <2> QED  BY <2>1, <2>3, <2>4
<1>n. Without(s, i, n) = a \o b
  BY DEF Without
<1> HIDE DEF a, b
<1>4. Len(a \o b) < Len(s)
  BY <1>2, <1>3
<1>5. ASSUME Increasing(s)  PROVE Increasing(a \o b)
  <2> SUFFICES ASSUME NEW k \in DOMAIN (a \o b), NEW j \in 1 .. k - 1
               PROVE  (a \o b)[j] < (a \o b)[k]
    BY DEF Increasing
  <2> DEFINE p(x) == IF x <= i THEN x ELSE x + n
  <2>1. k \in 1 .. i + Len(b) /\ j \in 1 .. i + Len(b)
    BY <1>3, <1>2
  <2>2. (a \o b)[j] = s[p(j)] /\ (a \o b)[k] = s[p(k)]
    BY <2>1, <1>3
  <2>3. p(k) \in DOMAIN s /\ p(j) \in 1 .. p(k) - 1
    <3>1. DOMAIN s = 1 .. Len(s) /\ Len(s) \in Nat /\ k \in Nat /\ j \in Nat /\ j < k
      BY <2>1
    <3>2. k > i => k + n <= Len(s)
      <4>1. CASE i + n + 1 <= Len(s)
        <5>1. Len(b) = Len(s) - i - n
          BY <1>2, <4>1
        <5>2. k <= i + (Len(s) - i - n)
          BY <2>1, <5>1
        <5> QED  BY <5>2, <3>1
      <4>2. CASE ~(i + n + 1 <= Len(s))
        <5>1. Len(b) = 0
          BY <1>2, <4>2
        <5> QED  BY <2>1, <5>1
      <4> QED  BY <4>1, <4>2
    <3>3. p(k) \in 1 .. Len(s)
      BY <3>1, <3>2, <2>1
    <3>4. p(j) \in 1 .. p(k) - 1
      BY <3>1, <2>1
    <3> QED  BY <3>1, <3>3, <3>4
  <2> HIDE DEF p
  <2> QED  BY <1>5, <2>2, <2>3 DEF Increasing
<1> QED
  BY <1>n, <1>3, <1>4, <1>5

-----------------------------------------------------------------------------
(* The arithmetic of rounds. *)

\* Chunks cover the trace, and are single actions when there are as many chunks as actions.
LEMMA ChunkSize ==
  ASSUME NEW L \in Nat, NEW g \in Nat, g >= 2
  PROVE  LET c == Most(1, (L + g - 1) \div g) IN
         /\ c \in Nat \ {0}
         /\ L <= g * c
         /\ L <= g => c = 1
<1> DEFINE x == L + g - 1
           q == x \div g
<1>1. x \in Nat /\ g \in Nat \ {0}
  OBVIOUS
<1> HIDE DEF x
<1>2. q \in Nat /\ x = g * q + (x % g) /\ x % g \in 0 .. g - 1
  BY <1>1
<1> HIDE DEF q
<1>3. L <= g * q
  BY <1>1, <1>2 DEF x
<1>4. L <= g => q < 2
  <2> SUFFICES ASSUME L <= g, q >= 2  PROVE FALSE
    BY <1>2
  <2>1. g * q >= g * 2
    BY <1>2
  <2> QED  BY <2>1, <1>2 DEF x
<1>5. g * 1 >= g * q \/ q >= 1
  BY <1>2
<1>6. q < 1 => q = 0 /\ g * q = 0
  BY <1>2
<1>7. Most(1, q) = (IF q <= 1 THEN 1 ELSE q)
  BY <1>2 DEF Most
<1>8. Most(1, q) \in Nat \ {0} /\ L <= g * Most(1, q) /\ (L <= g => Most(1, q) = 1)
  BY <1>2, <1>3, <1>4, <1>6, <1>7
<1> QED
  BY <1>8 DEF q, x

\* Twice the replays that are left at most, from the start of a round of g chunks of a trace of
\* length L: its own rounds, one per length down to the shortest, and the two passes over
\* single actions.
Left(L, g) ==
  IF L < 2 THEN 4 * L
  ELSE L * (L + 1) + 6 + (IF g < L THEN 2 * (2 * (L - 1) - g) ELSE 0)

\* Twice MaxTrials, without the division.
Budget == Len(actions) * (Len(actions) + 5) + 2

LEMMA Squares ==
  ASSUME NEW L \in Nat
  PROVE  /\ L * L \in Nat /\ L * (L + 1) = L * L + L /\ L * (L + 5) = L * L + 5 * L
         /\ L * L + 6 >= 5 * L
         /\ \A l \in Nat : l < L => l * l + l + 2 * L <= L * L + L
<1>1. L * L \in Nat /\ L * (L + 1) = L * L + L /\ L * (L + 5) = L * L + 5 * L
  OBVIOUS
<1>2. L * L + 6 >= 5 * L
  <2>1. CASE L >= 3
    <3>1. (L - 3) * (L - 2) >= 0
      BY <2>1
    <3>2. (L - 3) * (L - 2) = L * L - 5 * L + 6
      OBVIOUS
    <3> QED  BY <3>1, <3>2, <1>1
  <2>2. CASE L \in {0, 1, 2}
    BY <2>2
  <2> QED  BY <2>1, <2>2
<1>3. ASSUME NEW l \in Nat, l < L  PROVE l * l + l + 2 * L <= L * L + L
  <2>1. PICK d \in Nat : L = l + d + 1
    <3>1. L - l - 1 \in Nat /\ L = l + (L - l - 1) + 1
      BY <1>3
    <3> QED  BY <3>1
  <2>2. L * L + L = l * l + l + 2 * L + 2 * l * d + d * d + d
    BY <2>1
  <2>3. 2 * l * d \in Nat /\ d * d \in Nat /\ l * l \in Nat
    OBVIOUS
  <2> QED  BY <2>2, <2>3, <1>1
<1> QED
  BY <1>1, <1>2, <1>3

-----------------------------------------------------------------------------
(* Moves between rounds. *)

\* After a deletion the shorter trace pays for the k + 1 replays of the round.
LEMMA AfterDeletion ==
  ASSUME NEW L \in Nat, L >= 2, NEW g \in Nat, g >= 2, NEW l \in Nat, l < L,
         NEW k \in Nat, k < L
  PROVE  Left(l, Most(2, g - 1)) + 2 * (k + 1) <= Left(L, g)
<1> DEFINE h == Most(2, g - 1)
           extra(m, f) == IF f < m THEN 2 * (2 * (m - 1) - f) ELSE 0
<1>1. h \in Nat /\ h >= g - 1 /\ h >= 2
  BY DEF Most
<1> HIDE DEF h
<1>2. extra(L, g) \in Nat /\ extra(l, h) \in Nat
  BY <1>1
<1>3. extra(l, h) <= extra(L, g)
  <2>1. CASE ~(h < l)
    BY <2>1, <1>2
  <2>2. CASE h < l
    <3>1. g < L
      BY <2>2, <1>1
    <3> QED  BY <2>2, <3>1, <1>1
  <2> QED  BY <2>1, <2>2
<1>4. l * l + l + 2 * L <= L * L + L /\ L * (L + 1) = L * L + L /\ l * (l + 1) = l * l + l
      /\ l * l \in Nat /\ L * L \in Nat
  BY Squares
<1>5. Left(L, g) = L * L + L + 6 + extra(L, g)
  BY <1>4 DEF Left
<1>6. Left(l, h) <= l * l + l + 6 + extra(l, h)
  <2>1. CASE l >= 2
    BY <2>1, <1>4, <1>2 DEF Left
  <2>2. CASE l \in {0, 1}
    BY <2>2, <1>2 DEF Left
  <2> QED  BY <2>1, <2>2
<1>7. Left(l, h) \in Nat
  <2>1. CASE l >= 2
    BY <2>1, <1>4, <1>2 DEF Left
  <2>2. CASE l \in {0, 1}
    BY <2>2 DEF Left
  <2> QED  BY <2>1, <2>2
<1> HIDE DEF extra
<1>8. Left(l, h) + 2 * (k + 1) <= Left(L, g)
  BY <1>2, <1>3, <1>4, <1>5, <1>6, <1>7
<1> QED
  BY <1>8 DEF h

\* Finer chunks pay for the round that did not find a deletion.
LEMMA AfterRefinement ==
  ASSUME NEW L \in Nat, L >= 2, NEW g \in Nat, g >= 2, g < L
  PROVE  Left(L, Least(L, g * 2)) + 2 * g <= Left(L, g)
<1>1. L * L \in Nat /\ L * (L + 1) = L * L + L
  BY Squares
<1>2. Left(L, g) = L * L + L + 6 + 2 * (2 * (L - 1) - g)
  BY <1>1 DEF Left
<1>3. CASE g * 2 < L
  BY <1>1, <1>2, <1>3 DEF Left, Least
<1>4. CASE ~(g * 2 < L)
  <2>1. Least(L, g * 2) = L
    BY <1>4 DEF Least
  <2>2. Left(L, L) = L * L + L + 6
    BY <1>1 DEF Left
  <2> QED  BY <1>1, <1>2, <1>4, <2>1, <2>2
<1> QED
  BY <1>3, <1>4

-----------------------------------------------------------------------------
(* The inductive invariant. *)

\* In a round, k chunks were tried in vain since it began, so 2 * k of the budget is on top of
\* what the round was entered with.  Single actions among them were refuted.
InRound ==
  \E k \in Nat :
    /\ start = k * chunk_size
    /\ k = 0 \/ (k - 1) * chunk_size < Len(current)
    /\ Len(current) < 2 => k = 0
    /\ 2 * trials + Left(Len(current), granularity) <= Budget + 2 * k
    /\ chunk_size = 1 =>
         \A i \in 0 .. Len(current) - 1 : i < start => No(known, Without(current, i, 1))

\* The chunks have left no single action that can go, unless there is only one.
Stuck ==
  \A i \in 0 .. Len(current) - 1 :
    Len(current) >= 2 \/ i < index => No(known, Without(current, i, 1))

AllRefuted == \A i \in 0 .. Len(current) - 1 : No(known, Without(current, i, 1))

MinType ==
  /\ phase \in {"original", "chunks", "singles", "verify", "done", "rejected", "raised"}
  /\ Len(actions) \in Nat
  /\ current \in Seq(Nat) /\ Increasing(current)
  /\ granularity \in Nat /\ granularity >= 2
  /\ start \in Nat /\ index \in Nat /\ trials \in Nat

MinInv ==
  /\ MinType
  /\ one_minimal = TRUE
  /\ 2 * trials <= Budget
  /\ phase = "original" =>
       Len(current) = Len(actions) /\ trials = 0 /\ granularity = 2 /\ start = 0
  /\ phase \in {"chunks", "singles", "verify", "done"} => Yes(known, current)
  /\ phase = "chunks" => InRound
  /\ phase = "singles" =>
       /\ Stuck /\ index <= Len(current)
       /\ 2 * trials + 2 * (Len(current) - index) + 2 * Len(current) <= Budget
  /\ phase = "verify" =>
       /\ AllRefuted /\ index <= Len(current)
       /\ 2 * trials + 2 * (Len(current) - index) <= Budget
  /\ phase = "done" => AllRefuted

LEMMA MinStart == MinInit => MinInv
<1> SUFFICES ASSUME MinInit  PROVE MinInv
  OBVIOUS
<1>1. PICK m \in 0 .. MaxLength : actions = [i \in 1 .. m |-> i]
  BY DEF MinInit
<1>2. m \in Nat
  BY BoundsAssumption
<1>3. actions \in Seq(Nat) /\ Len(actions) = m
  BY <1>1, <1>2
<1>4. Increasing(actions)
  BY <1>1, <1>2 DEF Increasing
<1>5. 0 <= Budget
  BY <1>2, <1>3, Squares DEF Budget
<1> QED
  BY <1>3, <1>4, <1>5 DEF MinInit, MinInv, MinType

\* The chunks of the current round.
LEMMA Chunk ==
  ASSUME MinType
  PROVE  /\ chunk_size \in Nat \ {0} /\ Len(current) \in Nat
         /\ Len(current) <= granularity * chunk_size
         /\ Len(current) <= granularity => chunk_size = 1
  BY ChunkSize DEF MinType, chunk_size

\* What a round needs to know of k * c.
LEMMA Multiples ==
  ASSUME NEW k \in Nat, NEW c \in Nat \ {0}, NEW L \in Nat, NEW g \in Nat
  PROVE  /\ k * c \in Nat /\ (k + 1) * c = k * c + c /\ (k + 1 - 1) * c = k * c
         /\ k * c < L => k < L
         /\ (k = 0 \/ (k - 1) * c < L) /\ L >= 1 => k <= L
         /\ (k = 0 \/ (k - 1) * c < L) /\ L <= g * c => k <= g
<1>1. \A j \in Nat : j * c >= j
  OBVIOUS
<1>2. k * c \in Nat /\ (k + 1) * c = k * c + c /\ (k + 1 - 1) * c = k * c
  OBVIOUS
<1>3. k * c < L => k < L
  BY <1>1, <1>2
<1>4. (k = 0 \/ (k - 1) * c < L) /\ L >= 1 => k <= L
  <2>1. CASE k = 0
    BY <2>1
  <2>2. CASE k # 0
    <3>1. k - 1 \in Nat /\ (k - 1) * c >= k - 1 /\ (k - 1) * c \in Nat
      BY <2>2, <1>1
    <3> QED  BY <3>1, <2>2
  <2> QED  BY <2>1, <2>2
<1>5. ASSUME k # 0, (k - 1) * c < L, L <= g * c  PROVE k <= g
  <2> SUFFICES ASSUME g <= k - 1  PROVE FALSE
    OBVIOUS
  <2>1. g * c <= (k - 1) * c
    BY <1>5
  <2>2. g * c \in Nat /\ (k - 1) * c \in Int
    BY <1>5
  <2> QED  BY <1>5, <2>1, <2>2
<1> QED
  BY <1>2, <1>3, <1>4, <1>5

\* The original trace's rounds fit the budget.
LEMMA FirstRound ==
  ASSUME NEW L \in Nat
  PROVE  2 + Left(L, 2) <= L * (L + 5) + 2
<1>1. CASE L \in {0, 1, 2}
  BY <1>1 DEF Left
<1>2. CASE L > 2
  <2>1. Left(L, 2) = L * L + L + 6 + 2 * (2 * (L - 1) - 2)
    BY <1>2, Squares DEF Left
  <2> QED  BY <2>1, <1>2, Squares
<1> QED
  BY <1>1, <1>2

LEMMA LeftNat ==
  ASSUME NEW L \in Nat, NEW g \in Nat
  PROVE  Left(L, g) \in Nat /\ (L >= 2 => Left(L, g) >= L * L + L + 6) /\ (L < 2 => Left(L, g) = 4 * L)
<1>1. L * L \in Nat /\ L * (L + 1) = L * L + L
  BY Squares
<1>2. CASE L < 2
  BY <1>2 DEF Left
<1>3. CASE L >= 2
  BY <1>1, <1>3 DEF Left
<1> QED
  BY <1>2, <1>3

\* A round that has just begun.
LEMMA NewRound ==
  ASSUME MinType', start' = 0,
         2 * trials' + Left(Len(current'), granularity') <= Budget'
  PROVE  InRound'
<1> DEFINE c == chunk_size'
<1>1. c \in Nat
  <2>1. c = Most(1, (Len(current') + granularity' - 1) \div granularity')
    BY DEF chunk_size
  <2>2. Len(current') \in Nat /\ granularity' \in Nat /\ granularity' >= 2
    BY DEF MinType
  <2> QED  BY <2>1, <2>2, ChunkSize
<1> HIDE DEF c
<1>2. 0 = 0 * c
  BY <1>1
<1>3. Budget' \in Nat /\ Budget' + 2 * 0 = Budget'
  BY Squares DEF MinType, Budget
<1>4. \A i \in 0 .. Len(current') - 1 : ~(i < start')
  BY DEF MinType
<1>5. \E k \in Nat :
        /\ start' = k * c
        /\ k = 0 \/ (k - 1) * c < Len(current')
        /\ Len(current') < 2 => k = 0
        /\ 2 * trials' + Left(Len(current'), granularity') <= Budget' + 2 * k
        /\ c = 1 => \A i \in 0 .. Len(current') - 1 : i < start' => No(known', Without(current', i, 1))
  BY <1>2, <1>3, <1>4
<1> QED
  BY <1>5 DEF InRound, c

\* Any point of a round is within the budget.
LEMMA RoundSpent ==
  ASSUME MinType, InRound
  PROVE  2 * trials <= Budget
<1>1. PICK k \in Nat :
        /\ k = 0 \/ (k - 1) * chunk_size < Len(current)
        /\ Len(current) < 2 => k = 0
        /\ 2 * trials + Left(Len(current), granularity) <= Budget + 2 * k
  BY DEF InRound
<1>2. Budget \in Nat /\ trials \in Nat
  BY Squares DEF MinType, Budget
<1> DEFINE L == Len(current)
<1>3. L \in Nat /\ granularity \in Nat
  BY DEF MinType
<1>4. L >= 2 => k <= L
  BY <1>1, <1>3, Chunk, Multiples
<1> HIDE DEF L
<1>5. Left(L, granularity) \in Nat /\ (L >= 2 => Left(L, granularity) >= L * L + L + 6) /\ L * L \in Nat
  BY <1>3, LeftNat, Squares
<1>6. 2 * k <= Left(L, granularity)
  <2>1. CASE L < 2
    BY <1>1, <1>3, <1>5, <2>1 DEF L
  <2>2. CASE L >= 2
    <3>1. L * L >= 2 * L
      BY <1>3, <2>2
    <3> QED  BY <1>3, <1>4, <1>5, <2>2, <3>1
  <2> QED  BY <1>3, <2>1, <2>2
<1> QED
  BY <1>1, <1>2, <1>5, <1>6 DEF L

LEMMA CheckOriginalStep ==
  ASSUME MinInv, CheckOriginal
  PROVE  MinInv'
<1>1. /\ Len(current) = Len(actions) /\ trials = 0 /\ granularity = 2 /\ start = 0 /\ MinType
      /\ Len(actions) \in Nat
  BY DEF MinInv, MinType, CheckOriginal
<1>2. PICK yes \in BOOLEAN :
        Confirms(current, yes) /\ phase' = IF yes THEN "chunks" ELSE "rejected"
  BY DEF CheckOriginal
<1>3. trials' = 1 /\ (yes => Yes(known', current))
  BY <1>1, <1>2, Replayed
<1>4. UNCHANGED <<actions, current, granularity, start, index, one_minimal>>
  BY DEF CheckOriginal
<1>5. MinType'
  BY <1>1, <1>2, <1>3, <1>4 DEF MinType
<1>6. 2 + Left(Len(current), 2) <= Budget /\ Left(Len(current), 2) \in Nat /\ Budget' = Budget
  BY <1>1, <1>4, FirstRound, LeftNat DEF Budget
<1>7. InRound' /\ 2 * trials' <= Budget'
  <2>1. 2 * trials' + Left(Len(current'), granularity') <= Budget'
    BY <1>1, <1>3, <1>4, <1>6
  <2>2. Budget \in Nat
    BY <1>1, Squares DEF Budget
  <2> QED  BY <1>1, <1>3, <1>4, <1>5, <1>6, <2>1, <2>2, NewRound
<1> QED
  BY <1>2, <1>3, <1>4, <1>5, <1>7 DEF MinInv

LEMMA DeleteChunkStep ==
  ASSUME MinInv, DeleteChunk
  PROVE  MinInv'
<1> DEFINE L == Len(current)
           c == chunk_size
           candidate == Without(current, start, c)
<1>1. MinType /\ InRound /\ phase = "chunks" /\ L >= 2 /\ start < L /\ one_minimal = TRUE
  BY DEF MinInv, DeleteChunk
<1>2. /\ L \in Nat /\ c \in Nat \ {0} /\ start \in 0 .. L - 1 /\ trials \in Nat
      /\ granularity \in Nat /\ granularity >= 2 /\ current \in Seq(Nat) /\ Increasing(current)
  BY <1>1, Chunk DEF MinType
<1>3. /\ candidate \in Seq(Nat) /\ Len(candidate) < L /\ Increasing(candidate)
      /\ Len(candidate) \in Nat
  BY <1>2, Deleted
<1>4. PICK k \in Nat :
        /\ start = k * c
        /\ 2 * trials + Left(L, granularity) <= Budget + 2 * k
        /\ c = 1 => \A i \in 0 .. L - 1 : i < start => No(known, Without(current, i, 1))
  BY <1>1 DEF InRound
<1>5. k < L /\ k * c \in Nat /\ (k + 1) * c = k * c + c /\ (k + 1 - 1) * c = k * c
  BY <1>1, <1>2, <1>4, Multiples
<1>6. /\ UNCHANGED <<actions, phase, index, one_minimal>>
      /\ Budget' = Budget /\ Budget \in Nat /\ Left(L, granularity) \in Nat
  <2>1. UNCHANGED <<actions, phase, index, one_minimal>>
    BY DEF DeleteChunk
  <2>2. Budget' = Budget /\ Budget \in Nat
    BY <1>1, <2>1, Squares DEF Budget, MinType
  <2>3. Left(L, granularity) \in Nat
    BY <1>2, LeftNat
  <2> QED  BY <2>1, <2>2, <2>3
<1>7. CASE /\ Confirms(candidate, TRUE)
           /\ current' = candidate /\ granularity' = Most(2, granularity - 1) /\ start' = 0
  <2>1. trials' = trials + 1 /\ Yes(known', candidate)
    BY <1>7, Replayed
  <2>2. granularity' \in Nat /\ granularity' >= 2
    BY <1>2, <1>7 DEF Most
  <2>3. MinType'
    BY <1>1, <1>2, <1>3, <1>6, <1>7, <2>1, <2>2 DEF MinType
  <2>4. 2 * trials' + Left(Len(current'), granularity') <= Budget'
    <3> DEFINE l == Len(candidate)
               h == Most(2, granularity - 1)
    <3> HIDE DEF L, c, candidate
    <3>1. Left(l, h) + 2 * (k + 1) <= Left(L, granularity)
      BY <1>1, <1>2, <1>3, <1>5, AfterDeletion
    <3>2. Left(l, h) \in Nat
      BY <1>3, <2>2, <1>7, LeftNat
    <3>3. Len(current') = l /\ granularity' = h
      BY <1>7
    <3> HIDE DEF l, h
    <3> QED  BY <1>2, <1>4, <1>6, <2>1, <3>1, <3>2, <3>3
  <2>5. InRound'
    BY <1>7, <2>3, <2>4, NewRound
  <2>6. 2 * trials' <= Budget'
    <3>1. Left(Len(current'), granularity') \in Nat
      BY <1>3, <1>7, <2>2, LeftNat
    <3> QED  BY <1>2, <1>6, <2>1, <2>4, <3>1
  <2> QED  BY <1>1, <1>6, <1>7, <2>1, <2>3, <2>5, <2>6 DEF MinInv
<1>8. CASE /\ Confirms(candidate, FALSE)
           /\ start' = start + c
           /\ UNCHANGED <<current, granularity>>
  <2>1. /\ trials' = trials + 1 /\ No(known', candidate)
        /\ \A d : No(known, d) => No(known', d)
        /\ Yes(known, current) => Yes(known', current)
    BY <1>8, Replayed
  <2>2. MinType'
    BY <1>1, <1>2, <1>6, <1>8, <2>1 DEF MinType
  <2>3. c = 1 => \A i \in 0 .. L - 1 : i < start' => No(known', Without(current, i, 1))
    <3> SUFFICES ASSUME c = 1, NEW i \in 0 .. L - 1, i < start'
                 PROVE  No(known', Without(current, i, 1))
      OBVIOUS
    <3>1. CASE i < start
      BY <1>4, <2>1, <3>1
    <3>2. CASE ~(i < start)
      <4>1. i = start
        BY <1>2, <1>8, <3>2
      <4>2. candidate = Without(current, i, 1)
        BY <4>1
      <4> QED  BY <2>1, <4>2
    <3> QED  BY <3>1, <3>2
  <2>4. chunk_size' = c
    BY <1>8 DEF chunk_size
  <2>5. InRound'
    <3> DEFINE j == k + 1
    <3>1. j \in Nat /\ start' = j * c /\ (j - 1) * c < L
      BY <1>1, <1>2, <1>4, <1>5, <1>8
    <3>2. 2 * trials' + Left(L, granularity) <= Budget + 2 * j
      BY <1>2, <1>4, <1>6, <2>1
    <3>3. Len(current') = L /\ granularity' = granularity /\ current' = current
      BY <1>8
    <3> HIDE DEF j, c, L
    <3>4. \E m \in Nat :
            /\ start' = m * c
            /\ m = 0 \/ (m - 1) * c < Len(current')
            /\ Len(current') < 2 => m = 0
            /\ 2 * trials' + Left(Len(current'), granularity') <= Budget' + 2 * m
            /\ c = 1 => \A i \in 0 .. Len(current') - 1 :
                          i < start' => No(known', Without(current', i, 1))
      BY <1>1, <1>2, <1>6, <2>3, <3>1, <3>2, <3>3
    <3> QED  BY <2>4, <3>4 DEF InRound
  <2>6. 2 * trials' <= Budget'
    <3> HIDE DEF c, candidate
    <3>1. Left(L, granularity) >= L * L + L + 6 /\ L * L \in Nat
      BY <1>1, <1>2, LeftNat, Squares
    <3>2. L * L >= 2 * L
      BY <1>1, <1>2
    <3>3. 2 * k + 2 <= 2 * L /\ 2 * trials + Left(L, granularity) <= Budget + 2 * k
      BY <1>2, <1>4, <1>5
    <3> DEFINE q == L * L
               r == Left(L, granularity)
    <3>4. r \in Nat /\ q \in Nat /\ r >= q + L + 6 /\ q >= 2 * L
          /\ 2 * trials + r <= Budget + 2 * k
      BY <1>6, <3>1, <3>2, <3>3
    <3> HIDE DEF L, q, r
    <3>5. 2 * (trials + 1) <= Budget
      BY <1>2, <1>6, <3>3, <3>4
    <3> QED  BY <1>6, <2>1, <3>5
  <2> QED  BY <1>1, <1>6, <1>8, <2>1, <2>2, <2>5, <2>6 DEF MinInv
<1> QED
  BY <1>7, <1>8 DEF DeleteChunk

LEMMA RefineStep ==
  ASSUME MinInv, Refine
  PROVE  MinInv'
<1> DEFINE L == Len(current)
           c == chunk_size
           g == granularity
<1>1. MinType /\ InRound /\ phase = "chunks" /\ L >= 2 /\ g < L
  BY DEF MinInv, Refine
<1>2. L \in Nat /\ c \in Nat \ {0} /\ L <= g * c /\ g \in Nat /\ g >= 2 /\ trials \in Nat
  BY <1>1, Chunk DEF MinType
<1>3. PICK k \in Nat :
        /\ k = 0 \/ (k - 1) * c < L
        /\ 2 * trials + Left(L, g) <= Budget + 2 * k
  BY <1>1 DEF InRound
<1>4. k <= g
  BY <1>2, <1>3, Multiples
<1>5. /\ UNCHANGED <<actions, known, phase, current, index, trials, one_minimal>>
      /\ granularity' = Least(L, g * 2) /\ start' = 0
      /\ Budget' = Budget /\ Budget \in Nat
  BY <1>1, Squares DEF Refine, Budget, MinType
<1>6. MinType'
  <2>1. Least(L, g * 2) \in Nat /\ Least(L, g * 2) >= 2
    BY <1>1, <1>2 DEF Least
  <2> QED  BY <1>1, <1>5, <2>1 DEF MinType
<1>7. 2 * trials' + Left(Len(current'), granularity') <= Budget'
  <2> DEFINE h == Least(L, g * 2)
  <2>1. Left(L, h) + 2 * g <= Left(L, g)
    BY <1>1, <1>2, AfterRefinement
  <2>2. h \in Nat
    BY <1>5, <1>6 DEF MinType
  <2>3. Left(L, h) \in Nat /\ Left(L, g) \in Nat
    BY <1>2, <2>2, LeftNat
  <2>4. Len(current') = L /\ granularity' = h
    BY <1>5
  <2> HIDE DEF h, L, g
  <2> QED  BY <1>2, <1>3, <1>4, <1>5, <2>1, <2>3, <2>4
<1>8. InRound'
  BY <1>5, <1>6, <1>7, NewRound
<1> QED
  BY <1>1, <1>5, <1>6, <1>8 DEF MinInv

LEMMA ChunksDoneStep ==
  ASSUME MinInv, ChunksDone
  PROVE  MinInv'
<1> DEFINE L == Len(current)
           c == chunk_size
           g == granularity
<1>1. /\ MinType /\ InRound /\ phase = "chunks"
      /\ L < 2 \/ (start >= L /\ g >= L)
  BY DEF MinInv, ChunksDone
<1>2. /\ L \in Nat /\ c \in Nat \ {0} /\ g \in Nat /\ g >= 2 /\ trials \in Nat /\ start \in Nat
      /\ L <= g => c = 1
  BY <1>1, Chunk DEF MinType
<1>3. PICK k \in Nat :
        /\ start = k * c
        /\ k = 0 \/ (k - 1) * c < L
        /\ L < 2 => k = 0
        /\ 2 * trials + Left(L, g) <= Budget + 2 * k
        /\ c = 1 => \A i \in 0 .. L - 1 : i < start => No(known, Without(current, i, 1))
  BY <1>1 DEF InRound
<1>4. /\ UNCHANGED <<actions, known, current, granularity, start, trials, one_minimal>>
      /\ phase' = "singles" /\ index' = 0
  BY DEF ChunksDone
<1>5. Budget' = Budget /\ Budget \in Nat
  BY <1>1, <1>4, Squares DEF Budget, MinType
<1>6. MinType'
  BY <1>1, <1>4 DEF MinType
<1>7. Stuck'
  <2>1. \A i \in 0 .. L - 1 : L >= 2 => No(known, Without(current, i, 1))
    BY <1>1, <1>2, <1>3
  <2>2. \A i \in 0 .. L - 1 : ~(i < 0)
    BY <1>2
  <2> QED  BY <1>4, <2>1, <2>2 DEF Stuck
<1>8. 2 * trials + 4 * L <= Budget
  <2>1. CASE L < 2
    BY <1>2, <1>3, <1>5, <2>1, LeftNat
  <2>2. CASE L >= 2
    <3>1. k <= L
      BY <1>2, <1>3, <2>2, Multiples
    <3> DEFINE q == L * L
               r == Left(L, g)
    <3>2. r >= q + L + 6 /\ r \in Nat /\ q \in Nat /\ q + 6 >= 5 * L
      BY <1>2, <2>2, LeftNat, Squares
    <3>3. 2 * trials + r <= Budget + 2 * k
      BY <1>3
    <3> HIDE DEF L, q, r
    <3> QED  BY <1>2, <1>5, <3>1, <3>2, <3>3
  <2> QED  BY <1>2, <2>1, <2>2
<1>9. 2 * trials' + 2 * (Len(current') - index') + 2 * Len(current') <= Budget'
  BY <1>2, <1>4, <1>5, <1>8
<1> QED
  BY <1>1, <1>2, <1>4, <1>5, <1>6, <1>7, <1>9 DEF MinInv

LEMMA DeleteOneStep ==
  ASSUME MinInv, DeleteOne
  PROVE  MinInv'
<1> DEFINE L == Len(current)
           candidate == Without(current, index, 1)
<1>1. /\ MinType /\ phase = "singles" /\ Stuck /\ index < L /\ Yes(known, current)
      /\ 2 * trials + 2 * (L - index) + 2 * L <= Budget
  BY DEF MinInv, DeleteOne
<1>2. /\ L \in Nat /\ index \in 0 .. L - 1 /\ trials \in Nat
      /\ current \in Seq(Nat) /\ Increasing(current)
  BY <1>1 DEF MinType
<1>3. candidate \in Seq(Nat) /\ Len(candidate) < L /\ Increasing(candidate) /\ Len(candidate) \in Nat
  BY <1>2, Deleted
<1>4. /\ UNCHANGED <<actions, phase, granularity, start, one_minimal>>
      /\ Budget' = Budget /\ Budget \in Nat
  <2>1. UNCHANGED <<actions, phase, granularity, start, one_minimal>>
    BY DEF DeleteOne
  <2> QED  BY <1>1, <2>1, Squares DEF Budget, MinType
<1>5. CASE Confirms(candidate, TRUE) /\ current' = candidate /\ UNCHANGED index
  <2>1. trials' = trials + 1 /\ Yes(known', candidate) /\ ~No(known, candidate)
    BY <1>5, Replayed
  <2>2. L < 2
    BY <1>1, <1>2, <2>1 DEF Stuck
  <2>3. Len(current') = 0 /\ index' = 0
    BY <1>2, <1>3, <1>5, <2>2
  <2>4. MinType'
    BY <1>1, <1>2, <1>3, <1>4, <1>5, <2>1 DEF MinType
  <2>5. Stuck'
    BY <2>3 DEF Stuck
  <2>6. 2 * trials' + 2 * (Len(current') - index') + 2 * Len(current') <= Budget'
        /\ 2 * trials' <= Budget'
    BY <1>1, <1>2, <1>4, <2>1, <2>3
  <2> QED  BY <1>1, <1>4, <1>5, <2>1, <2>3, <2>4, <2>5, <2>6 DEF MinInv
<1>6. CASE Confirms(candidate, FALSE) /\ index' = index + 1 /\ UNCHANGED current
  <2>1. /\ trials' = trials + 1 /\ No(known', candidate) /\ Yes(known', current)
        /\ \A d : No(known, d) => No(known', d)
    BY <1>1, <1>6, Replayed
  <2>2. MinType'
    BY <1>1, <1>2, <1>4, <1>6, <2>1 DEF MinType
  <2>3. Stuck'
    <3> SUFFICES ASSUME NEW i \in 0 .. L - 1, L >= 2 \/ i < index + 1
                 PROVE  No(known', Without(current, i, 1))
      BY <1>6 DEF Stuck
    <3>1. CASE i = index
      BY <2>1, <3>1
    <3>2. CASE i # index
      BY <1>1, <1>2, <2>1, <3>2 DEF Stuck
    <3> QED  BY <3>1, <3>2
  <2>4. /\ 2 * trials' + 2 * (Len(current') - index') + 2 * Len(current') <= Budget'
        /\ 2 * trials' <= Budget' /\ index' <= Len(current')
    BY <1>1, <1>2, <1>4, <1>6, <2>1
  <2> QED  BY <1>1, <1>4, <1>6, <2>1, <2>2, <2>3, <2>4 DEF MinInv
<1> QED
  BY <1>5, <1>6 DEF DeleteOne

LEMMA SinglesDoneStep ==
  ASSUME MinInv, SinglesDone
  PROVE  MinInv'
<1>1. /\ MinType /\ phase = "singles" /\ Stuck /\ index >= Len(current) /\ index <= Len(current)
      /\ 2 * trials + 2 * (Len(current) - index) + 2 * Len(current) <= Budget
  BY DEF MinInv, SinglesDone
<1>2. /\ UNCHANGED <<actions, known, current, granularity, start, trials, one_minimal>>
      /\ phase' = "verify" /\ index' = 0
  BY DEF SinglesDone
<1>3. Budget' = Budget /\ Len(current) \in Nat /\ trials \in Nat /\ index \in Nat /\ Budget \in Nat
  BY <1>1, <1>2, Squares DEF Budget, MinType
<1>4. MinType'
  BY <1>1, <1>2 DEF MinType
<1>5. AllRefuted'
  <2>1. \A i \in 0 .. Len(current) - 1 : i < index
    BY <1>1, <1>3
  <2> QED  BY <1>1, <1>2, <2>1 DEF Stuck, AllRefuted
<1>6. 2 * trials' + 2 * (Len(current') - index') <= Budget' /\ index' <= Len(current')
  BY <1>1, <1>2, <1>3
<1> QED
  BY <1>1, <1>2, <1>3, <1>4, <1>5, <1>6 DEF MinInv

\* Every trace with one action less is already refuted, so no verification fails.
LEMMA VerifyStep ==
  ASSUME MinInv, Verify
  PROVE  MinInv'
<1> DEFINE L == Len(current)
           candidate == Without(current, index, 1)
<1>1. /\ MinType /\ phase = "verify" /\ AllRefuted /\ index < L /\ Yes(known, current)
      /\ 2 * trials + 2 * (L - index) <= Budget /\ one_minimal = TRUE
  BY DEF MinInv, Verify
<1>2. L \in Nat /\ index \in 0 .. L - 1 /\ trials \in Nat
  BY <1>1 DEF MinType
<1>3. PICK yes \in BOOLEAN :
        /\ Confirms(candidate, yes)
        /\ one_minimal' = (one_minimal /\ ~yes)
        /\ index' = IF yes THEN L ELSE index + 1
  BY DEF Verify
<1>4. /\ trials' = trials + 1 /\ Yes(known', current) /\ (yes => ~No(known, candidate))
      /\ \A d : No(known, d) => No(known', d)
  BY <1>1, <1>3, Replayed
<1>5. yes = FALSE
  BY <1>1, <1>2, <1>4 DEF AllRefuted
<1>6. index' = index + 1 /\ one_minimal' = TRUE
  BY <1>1, <1>3, <1>5
<1>7. UNCHANGED <<actions, phase, current, granularity, start>>
  BY DEF Verify
<1>8. Budget' = Budget /\ Budget \in Nat
  BY <1>1, <1>7, Squares DEF Budget, MinType
<1>9. MinType'
  BY <1>1, <1>2, <1>4, <1>6, <1>7 DEF MinType
<1>10. AllRefuted'
  BY <1>1, <1>4, <1>7 DEF AllRefuted
<1>11. /\ 2 * trials' + 2 * (Len(current') - index') <= Budget' /\ index' <= Len(current')
       /\ 2 * trials' <= Budget'
  BY <1>1, <1>2, <1>4, <1>6, <1>7, <1>8
<1> QED
  BY <1>1, <1>4, <1>6, <1>7, <1>9, <1>10, <1>11 DEF MinInv

LEMMA MinStep ==
  ASSUME MinInv, [MinNext]_minVars
  PROVE  MinInv'
<1>1. CASE UNCHANGED minVars
  BY <1>1 DEF minVars, MinInv, MinType, Budget, InRound, chunk_size, Stuck, AllRefuted
<1>2. CASE Return
  BY <1>2 DEF Return, MinInv, MinType, Budget, AllRefuted
<1>3. CASE ReplayRaises
  BY <1>3 DEF ReplayRaises, MinInv, MinType, Budget
<1> QED
  BY <1>1, <1>2, <1>3, CheckOriginalStep, DeleteChunkStep, RefineStep, ChunksDoneStep,
     DeleteOneStep, SinglesDoneStep, VerifyStep DEF MinNext, Progress

\* The inductive invariant of minimize_trace: where each phase stands, and what it can still
\* spend.
THEOREM MinInvariant == MinSpec => []MinInv
<1>1. MinInv /\ [MinNext]_minVars => MinInv'
  BY MinStep
<1> QED
  BY <1>1, MinStart, PTL DEF MinSpec

\* minimize_trace: for traces of any length and any answers, monotone or not, the result was
\* replayed, violates and is one-minimal, and the replays never exceed n * (n + 5) / 2 + 1.
THEOREM ResultIsSound == MinSpec => []ResultSound
<1>1. MinInv => ResultSound
  <2> SUFFICES ASSUME MinInv  PROVE ResultSound
    OBVIOUS
  <2>1. trials <= MaxTrials(Len(actions))
    <3>1. trials \in Nat /\ Len(actions) \in Nat /\ 2 * trials <= Budget
      BY DEF MinInv, MinType
    <3> DEFINE x == Len(actions) * (Len(actions) + 5)
    <3>2. x \in Nat /\ 2 * trials <= x + 2
      BY <3>1, Squares DEF Budget
    <3> HIDE DEF x
    <3>3. trials <= (x \div 2) + 1
      BY <3>1, <3>2
    <3> QED  BY <3>3 DEF MaxTrials, x
  <2>2. ASSUME phase = "done", NEW i \in DOMAIN current
        PROVE  No(known, Without(current, i - 1, 1))
    <3>1. i - 1 \in 0 .. Len(current) - 1
      BY DEF MinInv, MinType
    <3> QED  BY <2>2, <3>1 DEF MinInv, AllRefuted
  <2> QED  BY <2>1, <2>2 DEF ResultSound, MinInv, MinType, Increasing, Shown, Yes, No
<1> QED
  BY <1>1, MinInvariant, PTL
=============================================================================
