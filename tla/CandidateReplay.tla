-------------------------- MODULE CandidateReplay --------------------------
(***************************************************************************)
(* A strategy's search and the replay of its path, side by side: every     *)
(* proposal validate_action_proposal (attack_runtime/agents.py) lets       *)
(* through is run in the ReferenceSimulator and, as                        *)
(* SandboxReplayRunner.replay (attack_runtime/replay.py) does with the     *)
(* whole path, posted to the sandbox.  Actions the simulator rejects stay  *)
(* on the path.  Both sides are deterministic, so replaying the path       *)
(* afterwards and replaying it step by step are the same; the sandbox's    *)
(* ids and the simulator's aliases both number the rows as they appear.    *)
(* The run stops at the first step on which the two sides part.            *)
(***************************************************************************)
EXTENDS SandboxOracle

CONSTANTS None, OpeningBalance, OpeningAmount,
          Rules,         \* the rule specifications searched
          max_steps      \* the strategy's step budget

VARIABLES rule_spec, sim,   \* the simulator
          refused,          \* proposals of the strategy's history that were not APPLIED
          steps,            \* usage.steps
          verdict,          \* how the two sides compare
          last              \* the proposal on which they parted

replayVars == <<domainVars, rule_spec, sim, refused, steps, verdict, last>>

Ref == INSTANCE ReferenceSimulator

ASSUME RulesAssumption == Rules \subseteq Ref!RuleSpec
ASSUME NoneAssumption ==
  None \notin Ref!PromotionRule \cup Ref!RefundRule \cup Ref!PointsRule \cup Ref!MembershipRule
ASSUME OffersAssumption == OpeningBalance \in Nat /\ OpeningAmount \in Nat

-----------------------------------------------------------------------------
(* validate_action_proposal *)

flexible ==
  {"create_user", "create_order", "refund_order", "redeem_points", "consume_entitlement"}

\* The contract fixes a proposal's argument names; the value of a flexible one is any positive
\* number, and less than half a cent of money is rounded to none.
SameNames(a, t) ==
  /\ a.type = t.type /\ a.target = t.target
  /\ \/ a = t
     \/ /\ a.type \in flexible
        /\ a.type \in {"create_user", "create_order", "refund_order"} \/ a.amount + a.quantity > 0
        /\ [a EXCEPT !.amount = t.amount, !.quantity = t.quantity] = t

validate_action_proposal(a) ==
  /\ steps < max_steps
  /\ \E t \in Ref!legal_actions(sim) : SameNames(a, t)
  /\ a \notin refused

\* What a strategy may come up with: the offers, and other values in them.  It writes numbers
\* as Python prints them and leaves actor_id at its default.
Proposals ==
  LET legal == Ref!legal_actions(sim) IN
  legal \cup {[t EXCEPT !.amount = x] :
                 t \in {u \in legal : u.type \in flexible /\ u.quantity = 0}, x \in Amounts}
        \cup {[t EXCEPT !.quantity = q] : t \in {u \in legal : u.quantity > 0},
                                           q \in Quantities}

-----------------------------------------------------------------------------
(* The sandbox's answer. *)

Posted(a) ==
  /\ Supported(a.type)
  /\ \/ a.type = "create_user" /\ CanCreateUser(a.amount)
     \/ a.type = "issue_coupon" /\ CanIssueCoupon(a.amount, a.threshold)
     \/ a.type = "create_order" /\ CanCreateOrder(a.amount)
     \/ a.type = "apply_coupon" /\ CanApplyCoupon(a.target, a.coupon)
     \/ a.type = "pay_order" /\ CanPayOrder(a.target)
     \/ a.type = "refund_order" /\ CanRefundOrder(a.target, a.amount)
     \/ a.type = "redeem_points" /\ CanRedeemPoints(a.amount)
     \/ a.type = "activate_membership" /\ CanActivateMembership(a.amount, a.quantity)
     \/ a.type = "consume_entitlement" /\ CanConsumeEntitlement(a.target, a.quantity)
     \/ /\ a.type = "cancel_membership"
        /\ \E e \in DOMAIN entitlements : CanCancelMembership(a.target, a.refund_requested, e)

Post(a, k) ==
  \/ a.type = "create_user" /\ CreateUser(a.amount, k)
  \/ a.type = "issue_coupon" /\ IssueCoupon(a.amount, a.threshold, k)
  \/ a.type = "create_order" /\ CreateOrder(a.amount, k)
  \/ a.type = "apply_coupon" /\ ApplyCoupon(a.target, a.coupon, k)
  \/ a.type = "pay_order" /\ PayOrder(a.target, k)
  \/ a.type = "refund_order" /\ RefundOrder(a.target, a.amount, k)
  \/ a.type = "redeem_points" /\ RedeemPoints(a.amount, k)
  \/ a.type = "activate_membership" /\ ActivateMembership(a.amount, a.quantity, k)
  \/ a.type = "consume_entitlement" /\ ConsumeEntitlement(a.target, a.quantity, k)
  \/ /\ a.type = "cancel_membership"
     /\ \E e \in DOMAIN entitlements :
          entitlements[e].membership = a.target
            /\ CancelMembership(a.target, a.refund_requested, e, k)

\* The two sides describe the same world.
SameOrder(r, o) ==
  /\ r.original = o.original /\ r.discount = o.discount /\ r.paid = o.paid
  /\ r.refunded = o.refunded /\ r.points = o.points /\ r.revoked = o.ledgerRevoke
  /\ r.coupon = o.coupon
  /\ r.status = IF o.status = "PENDING_PAYMENT" THEN "CREATED" ELSE o.status

SameState ==
  /\ sim.user.exists = user.exists /\ sim.user.balance = user.balance
  /\ sim.user.points = user.points
  /\ (sim.user.membership = "ACTIVE") = (user.membership = "ACTIVE")
  /\ Len(sim.orders) = Len(orders)
  /\ \A o \in DOMAIN orders : SameOrder(sim.orders[o], orders[o])
  /\ Len(sim.coupons) = Len(coupons)
  /\ \A c \in DOMAIN coupons : /\ sim.coupons[c].status = coupons[c].status
                               /\ sim.coupons[c].usage = coupons[c].usage
  /\ Len(sim.memberships) = Len(memberships)
  /\ \A m \in DOMAIN memberships : sim.memberships[m].status = memberships[m].status
  /\ \A e \in DOMAIN entitlements : /\ sim.entitlements[e].consumed = entitlements[e].consumed
                                    /\ sim.entitlements[e].revoked = entitlements[e].revoked

-----------------------------------------------------------------------------
ReplayInit ==
  /\ Init
  /\ rule_spec \in {r \in Rules : r.scenario = scenario}
  /\ sim = Ref!initial_state(rule_spec)
  /\ refused = {} /\ steps = 0
  /\ verdict = "AGREE" /\ last = Ref!SimAction("none", 0)

\* One accepted proposal: simulated under the step's own key, put on the path, and posted.
Step(a) ==
  LET r == Ref!transition(sim, a, steps + 1) IN
  /\ verdict = "AGREE"
  /\ validate_action_proposal(a)
  /\ steps' = steps + 1
  /\ sim' = r.state
  /\ refused' = IF r.status = "APPLIED" THEN refused ELSE refused \cup {a}
  /\ \/ Posted(a) /\ Post(a, steps + 1)
     \/ ~Posted(a) /\ UNCHANGED tables
  /\ verdict' = CASE r.status = "CRASHED" -> "CRASHED"
                  [] r.status = "APPLIED" /\ ~Posted(a) -> "SIMULATOR_ONLY"
                  [] r.status # "APPLIED" /\ r.status # "CRASHED" /\ Posted(a) -> "SANDBOX_ONLY"
                  [] r.status = "APPLIED" /\ Posted(a) ->
                       IF SameState' THEN "AGREE" ELSE "STATES"
                  [] OTHER -> "AGREE"
  /\ last' = IF verdict' = "AGREE" THEN last ELSE a
  /\ UNCHANGED <<run, rule_spec>>

ReplayNext == \E a \in Proposals : Step(a)

ReplaySpec == ReplayInit /\ [][ReplayNext]_replayVars

-----------------------------------------------------------------------------
(* Properties *)

\* docs/architecture-decisions.md, ADR-1: a path found in the simulator is only a prediction,
\* so the simulator must not be more generous than the system it predicts.  The one payment it
\* applies and the sandbox refuses, in any profile and under any rules, is that of an order its
\* coupon made free.  Besides it there are the two rules the sandbox has no notion of: points
\* that are not revoked, and memberships refundable after use.
PredictionsAccepted ==
  verdict = "SIMULATOR_ONLY" =>
    \/ last.type = "pay_order" /\ sim.orders[last.target].paid = 0
    \/ last.type = "refund_order" /\ rule_spec.points # None /\ ~rule_spec.points.revoke
    \/ last.type = "cancel_membership" /\ rule_spec.membership.policy # "UNUSED_ONLY"

\* legal_actions: "a prediction that disagrees with the real system is the divergence being
\* searched for".  Whenever the sandbox does more than the simulator predicted, or something
\* else, the step names the cause: a defect axis of the run, a rule the sandbox has no notion
\* of, a second membership, a promotion in another currency than CNY, a membership price that
\* is no whole number of cents, or (CRASHED) an order refunded without points to take back.
DivergenceExplained ==
  /\ verdict = "SANDBOX_ONLY" =>
       CASE last.type = "issue_coupon" -> rule_spec.promotion.currency # "CNY"
         [] last.type = "refund_order" ->
              \/ Axis("REFUND_AGAINST_ORIGINAL") \/ Axis("POINTS_GRANTED_AGAIN_ON_REFUND")
              \/ rule_spec.refund # None
                   /\ (~rule_spec.refund.partial
                       \/ sim.orders[last.target].refunds = rule_spec.refund.maximum)
         [] last.type = "redeem_points" -> Axis("POINTS_OVERREDEMPTION")
         [] last.type = "consume_entitlement" -> Axis("ENTITLEMENT_OVERCONSUMPTION")
         [] last.type = "cancel_membership" -> Axis("FULL_REFUND_AFTER_CONSUMPTION")
         [] last.type = "activate_membership" ->
              Len(sim.memberships) = 1 \/ rule_spec.membership.price % Ref!Fraction # 0
         [] OTHER -> FALSE
  /\ verdict = "STATES" =>
       CASE last.type = "pay_order" ->
              rule_spec.points # None /\ (rule_spec.points.spend # Unit * Ref!Fraction
                                          \/ rule_spec.points.granted # 1)
         [] last.type = "refund_order" ->
              \/ Axis("POINTS_GRANTED_AGAIN_ON_REFUND")
              \/ rule_spec.points # None /\ ~rule_spec.points.revoke
              \/ rule_spec.promotion # None
                   /\ rule_spec.promotion.restore # Axis("COUPON_RESTORED_ON_REFUND")
         [] last.type = "cancel_membership" ->
              Axis("ENTITLEMENT_LEFT_AFTER_REFUND") \/ Axis("ENTITLEMENT_OVERCONSUMPTION")
                \/ rule_spec.membership.policy # "UNUSED_ONLY"
         [] OTHER -> FALSE
  /\ verdict = "CRASHED" =>
       /\ last.type = "refund_order" /\ rule_spec.points.revoke
       /\ sim.orders[last.target].points = 0

\* What the rules promise holds of the simulated world whatever the strategies propose.
RulesKept == Ref!RulesKept
=============================================================================
