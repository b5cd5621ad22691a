------------------------ MODULE GatedRefund_proofs ------------------------
(***************************************************************************)
(* Proofs about execute() and reset_run (what the service adds around the  *)
(* handlers gives every write its effect exactly once), and about a refund *)
(* ticket on top of them: claims are backed by the ledger whatever the     *)
(* network does, and behind the gate the ticket refines RefundTicket and   *)
(* stays within the order's payment.                                       *)
(***************************************************************************)
EXTENDS GatedRefund, SandboxDomain_proofs, FiniteSetTheorems

-----------------------------------------------------------------------------
(* The service only ever steps the tables as SandboxDomain says. *)

LEMMA CommandStep ==
  ASSUME NEW k \in Keys, Command(k)
  PROVE  [Next]_domainVars
<1> USE DEF execute, tables, domainVars, run
<1>1. CASE \E b \in Balances : execute("create_user", k, CanCreateUser(b), CreateUser(b, k))
  BY <1>1 DEF Next
<1>2. CASE \E v, t \in Amounts :
             /\ Len(coupons) < MaxCoupons
             /\ execute("issue_coupon", k, CanIssueCoupon(v, t), IssueCoupon(v, t, k))
  BY <1>2 DEF Next, CouponCommand
<1>3. CASE \E a \in Amounts :
             /\ Len(orders) < MaxOrders
             /\ execute("create_order", k, CanCreateOrder(a), CreateOrder(a, k))
  BY <1>3 DEF Next, OrderCommand
<1>4. CASE \E o \in OrderIds, c \in CouponIds :
             execute("apply_coupon", k, CanApplyCoupon(o, c), ApplyCoupon(o, c, k))
  BY <1>4 DEF Next, CouponCommand, CanApplyCoupon
<1>5. CASE \E o \in OrderIds : execute("pay_order", k, CanPayOrder(o), PayOrder(o, k))
  BY <1>5 DEF Next, OrderCommand, CanPayOrder
<1>6. CASE \E o \in OrderIds : execute("cancel_order", k, CanCancelOrder(o), CancelOrder(o, k))
  BY <1>6 DEF Next, OrderCommand, CanCancelOrder
<1>7. CASE \E o \in OrderIds, a \in Amounts :
             execute("refund_order", k, CanRefundOrder(o, a), RefundOrder(o, a, k))
  BY <1>7 DEF Next, OrderCommand, CanRefundOrder
<1>8. CASE \E p \in PointAmounts :
             /\ redeemed + p <= MaxRedeemed
             /\ execute("redeem_points", k, CanRedeemPoints(p), RedeemPoints(p, k))
  BY <1>8 DEF Next, PointsCommand
<1>9. CASE \E a \in Amounts, q \in Quantities :
             /\ Len(memberships) < MaxMemberships
             /\ execute("activate_membership", k, CanActivateMembership(a, q),
                        ActivateMembership(a, q, k))
  BY <1>9 DEF Next, MembershipCommand
<1>10. CASE \E e \in MembershipIds, q \in Quantities :
              execute("consume_entitlement", k, CanConsumeEntitlement(e, q),
                      ConsumeEntitlement(e, q, k))
  BY <1>10 DEF Next, MembershipCommand, CanConsumeEntitlement
<1>11. CASE \E m \in MembershipIds, refund \in BOOLEAN :
              execute("cancel_membership", k,
                      \E e \in DOMAIN entitlements : CanCancelMembership(m, refund, e),
                      \E e \in DOMAIN entitlements : /\ CanCancelMembership(m, refund, e)
                                                     /\ CancelMembership(m, refund, e, k))
  BY <1>11 DEF Next, MembershipCommand, CanCancelMembership
<1>12. CASE execute("inspect_state", k, TRUE, UNCHANGED tables)
  BY <1>12
<1> QED
  BY <1>1, <1>2, <1>3, <1>4, <1>5, <1>6, <1>7, <1>8, <1>9, <1>10, <1>11, <1>12 DEF Command

\* execute(), reset_run: whatever is retried, replayed, rejected or reset, the tables only take
\* the steps of SandboxDomain, so its theorems hold of the service.
THEOREM ServiceImplementsTables == CommerceSpec => Spec
<1>1. CommerceInit => Init
  BY DEF CommerceInit
<1>2. [CommerceNext]_vars => [Next]_domainVars
  <2>1. ASSUME reset_run  PROVE Next
    BY <2>1 DEF reset_run, Next, run
  <2> QED  BY <2>1, CommandStep DEF CommerceNext, vars, domainVars
<1> QED
  BY <1>1, <1>2, PTL DEF CommerceSpec, Spec

-----------------------------------------------------------------------------
(* What one command does to the events, the refunds and the receipts. *)

\* The events no command is known by: those of coupons, points and entitlements on the side.
SideEvents == {"COUPON_USED", "COUPON_RESTORED", "POINTS_GRANTED", "POINTS_REVOKED",
               "ENTITLEMENT_GRANTED", "ENTITLEMENT_REVOKED"}

Aside(k, s) == \A i \in DOMAIN s : s[i].type \in SideEvents /\ s[i].key = k

\* Exactly one of the events is the effect of the command.
Once(act, k, s) ==
  /\ \A i \in DOMAIN s : s[i].key = k
  /\ \E i \in DOMAIN s : /\ s[i].type \in EffectOf[act]
                         /\ \A j \in DOMAIN s : j # i => s[j].type \in SideEvents

\* An event type tells the command: no two commands share one, and none uses a side event.
LEMMA EffectsDistinct ==
  /\ \A a \in DOMAIN EffectOf : EffectOf[a] \cap SideEvents = {}
  /\ \A a, b \in DOMAIN EffectOf : a # b => EffectOf[a] \cap EffectOf[b] = {}
  BY DEF EffectOf, SideEvents

LEMMA AsideThenOnce ==
  ASSUME NEW act, NEW k, NEW S, NEW s \in Seq(S), NEW t \in Seq(S), Aside(k, s), Once(act, k, t)
  PROVE  s \o t \in Seq(S) /\ Once(act, k, s \o t)
<1>1. /\ s \o t \in Seq(S) /\ Len(s \o t) = Len(s) + Len(t)
      /\ \A i \in 1 .. Len(s) + Len(t) :
           (s \o t)[i] = IF i <= Len(s) THEN s[i] ELSE t[i - Len(s)]
  OBVIOUS
<1>2. PICK i \in DOMAIN t : /\ t[i].type \in EffectOf[act]
                            /\ \A j \in DOMAIN t : j # i => t[j].type \in SideEvents
  BY DEF Once
<1>3. \A j \in DOMAIN (s \o t) : (s \o t)[j].key = k
  BY <1>1 DEF Aside, Once
<1>4. i + Len(s) \in DOMAIN (s \o t) /\ (s \o t)[i + Len(s)] = t[i]
  BY <1>1
<1>5. ASSUME NEW j \in DOMAIN (s \o t), j # i + Len(s)  PROVE (s \o t)[j].type \in SideEvents
  <2>1. CASE j <= Len(s)
    BY <1>1, <2>1 DEF Aside
  <2>2. CASE j > Len(s)
    <3>1. j - Len(s) \in DOMAIN t /\ j - Len(s) # i /\ (s \o t)[j] = t[j - Len(s)]
      BY <1>1, <1>2, <1>5, <2>2
    <3> QED  BY <1>2, <3>1
  <2> QED  BY <1>1, <2>1, <2>2
<1> QED
  BY <1>1, <1>2, <1>3, <1>4, <1>5 DEF Once

LEMMA OnceThenAside ==
  ASSUME NEW act, NEW k, NEW S, NEW s \in Seq(S), NEW t \in Seq(S), Once(act, k, s), Aside(k, t)
  PROVE  s \o t \in Seq(S) /\ Once(act, k, s \o t)
<1>1. /\ s \o t \in Seq(S) /\ Len(s \o t) = Len(s) + Len(t)
      /\ \A i \in 1 .. Len(s) + Len(t) :
           (s \o t)[i] = IF i <= Len(s) THEN s[i] ELSE t[i - Len(s)]
  OBVIOUS
<1>2. PICK i \in DOMAIN s : /\ s[i].type \in EffectOf[act]
                            /\ \A j \in DOMAIN s : j # i => s[j].type \in SideEvents
  BY DEF Once
<1>3. \A j \in DOMAIN (s \o t) : (s \o t)[j].key = k
  BY <1>1 DEF Aside, Once
<1>4. i \in DOMAIN (s \o t) /\ (s \o t)[i] = s[i]
  BY <1>1
<1>5. \A j \in DOMAIN (s \o t) : j # i => (s \o t)[j].type \in SideEvents
  BY <1>1, <1>2 DEF Aside
<1> QED
  BY <1>1, <1>2, <1>3, <1>4, <1>5 DEF Once

LEMMA OneEvent ==
  ASSUME NEW act, NEW k, NEW type \in EffectOf[act], NEW id, NEW amt
  PROVE  Once(act, k, <<Ev(type, id, amt, k)>>)
  BY DEF Once, Ev

LEMMA WhenAside ==
  ASSUME NEW k, NEW S, NEW type \in SideEvents, NEW id, NEW amt, NEW cond \in BOOLEAN,
         Ev(type, id, amt, k) \in S
  PROVE  /\ When(cond, <<Ev(type, id, amt, k)>>) \in Seq(S)
         /\ Aside(k, When(cond, <<Ev(type, id, amt, k)>>))
  BY DEF When, Aside, Ev

\* The command has added its effect, and side events, to the log.
Recorded(act, k) ==
  \E new \in Seq(BusinessEvent) : Once(act, k, new) /\ events' = events \o new

\* The refund row of a refund, which no other command adds.
Refunded(act, k) ==
  IF act = "refund_order"
  THEN \E r \in Refund : r.key = k /\ refunds' = Append(refunds, r)
  ELSE UNCHANGED refunds

Wrote(act, k) == Recorded(act, k) /\ Refunded(act, k)

LEMMA CreateUserWrote ==
  ASSUME TypeOK, NEW b \in Balances, NEW k \in Keys, CreateUser(b, k)
  PROVE  Wrote("create_user", k)
<1>1. <<Ev("USER_CREATED", 1, 0, k)>> \in Seq(BusinessEvent)
  BY EvType DEF BusinessEventType
<1>2. Once("create_user", k, <<Ev("USER_CREATED", 1, 0, k)>>)
  BY OneEvent DEF EffectOf
<1> QED
  BY <1>1, <1>2 DEF Wrote, Recorded, Refunded, CreateUser, Emit

LEMMA IssueCouponWrote ==
  ASSUME TypeOK, NEW v \in Amounts, NEW t \in Amounts, NEW k \in Keys, IssueCoupon(v, t, k)
  PROVE  Wrote("issue_coupon", k)
<1> DEFINE e == Ev("COUPON_ISSUED", Len(coupons) + 1, 0, k)
<1>1. <<e>> \in Seq(BusinessEvent)
  BY EvType DEF BusinessEventType, TypeOK
<1>2. Once("issue_coupon", k, <<e>>)
  BY OneEvent DEF EffectOf
<1> QED
  BY <1>1, <1>2 DEF Wrote, Recorded, Refunded, IssueCoupon, Emit

LEMMA CreateOrderWrote ==
  ASSUME TypeOK, NEW a \in Amounts, NEW k \in Keys, CreateOrder(a, k)
  PROVE  Wrote("create_order", k)
<1> DEFINE e == Ev("ORDER_CREATED", Len(orders) + 1, 0, k)
<1>1. <<e>> \in Seq(BusinessEvent)
  BY EvType DEF BusinessEventType, TypeOK
<1>2. Once("create_order", k, <<e>>)
  BY OneEvent DEF EffectOf
<1> QED
  BY <1>1, <1>2 DEF Wrote, Recorded, Refunded, CreateOrder, Emit

LEMMA ApplyCouponWrote ==
  ASSUME TypeOK, NEW o \in DOMAIN orders, NEW c \in DOMAIN coupons, NEW k \in Keys,
         ApplyCoupon(o, c, k)
  PROVE  Wrote("apply_coupon", k)
<1>1. <<Ev("COUPON_RESERVED", c, 0, k)>> \in Seq(BusinessEvent)
  BY EvType DEF BusinessEventType, TypeOK
<1>2. Once("apply_coupon", k, <<Ev("COUPON_RESERVED", c, 0, k)>>)
  BY OneEvent DEF EffectOf
<1> QED
  BY <1>1, <1>2 DEF Wrote, Recorded, Refunded, ApplyCoupon, Emit

LEMMA PayOrderWrote ==
  ASSUME TypeOK, NEW o \in DOMAIN orders, NEW k \in Keys, CanPayOrder(o), PayOrder(o, k)
  PROVE  Wrote("pay_order", k)
<1> DEFINE paid    == orders[o].original - orders[o].discount
           points  == IF RefundPoints THEN points_for(paid) ELSE 0
           c       == orders[o].coupon
           used    == When(c # 0, <<Ev("COUPON_USED", c, 0, k)>>)
           taken   == <<Ev("PAYMENT_CAPTURED", o, paid, k)>>
           granted == When(RefundPoints, <<Ev("POINTS_GRANTED", o, points, k)>>)
<1>1. orders[o] \in Order /\ o \in Nat
  BY DEF TypeOK
<1>2. paid \in Nat /\ c \in Nat
  BY <1>1 DEF CanPayOrder, Order
<1>3. points \in Nat
  BY <1>2, PointsForType
<1>4. events' = events \o (used \o taken \o granted) /\ UNCHANGED refunds
  BY DEF PayOrder, Emit
<1> HIDE DEF paid, points, c
<1>5. /\ Ev("COUPON_USED", c, 0, k) \in BusinessEvent
      /\ taken \in Seq(BusinessEvent)
      /\ Ev("POINTS_GRANTED", o, points, k) \in BusinessEvent
  BY <1>1, <1>2, <1>3, EvType DEF BusinessEventType
<1>6. used \in Seq(BusinessEvent) /\ Aside(k, used)
  BY <1>5, WhenAside DEF SideEvents
<1>7. granted \in Seq(BusinessEvent) /\ Aside(k, granted)
  BY <1>5, WhenAside DEF SideEvents, RefundPoints
<1>8. Once("pay_order", k, taken)
  BY OneEvent DEF EffectOf
<1> HIDE DEF used, taken, granted
<1>9. used \o taken \in Seq(BusinessEvent) /\ Once("pay_order", k, used \o taken)
  BY <1>5, <1>6, <1>8, AsideThenOnce
<1>10. /\ used \o taken \o granted \in Seq(BusinessEvent)
       /\ Once("pay_order", k, used \o taken \o granted)
  BY <1>7, <1>9, OnceThenAside
<1> QED
  BY <1>4, <1>10 DEF Wrote, Recorded, Refunded

LEMMA CancelOrderWrote ==
  ASSUME TypeOK, NEW o \in DOMAIN orders, NEW k \in Keys, CancelOrder(o, k)
  PROVE  Wrote("cancel_order", k)
<1> DEFINE c         == orders[o].coupon
           restored  == When(c # 0 /\ HoldsCoupon(o), <<Ev("COUPON_RESTORED", c, 0, k)>>)
           cancelled == <<Ev("ORDER_CANCELLED", o, 0, k)>>
<1>1. orders[o] \in Order /\ o \in Nat
  BY DEF TypeOK
<1>2. c \in Nat
  BY <1>1 DEF Order
<1>3. events' = events \o (restored \o cancelled) /\ UNCHANGED refunds
  BY DEF CancelOrder, Emit
<1> HIDE DEF c
<1>4. /\ Ev("COUPON_RESTORED", c, 0, k) \in BusinessEvent
      /\ cancelled \in Seq(BusinessEvent)
  BY <1>1, <1>2, EvType DEF BusinessEventType
<1>5. restored \in Seq(BusinessEvent) /\ Aside(k, restored)
  BY <1>4, WhenAside DEF SideEvents
<1>6. Once("cancel_order", k, cancelled)
  BY OneEvent DEF EffectOf
<1> HIDE DEF restored, cancelled
<1>7. /\ restored \o cancelled \in Seq(BusinessEvent)
      /\ Once("cancel_order", k, restored \o cancelled)
  BY <1>4, <1>5, <1>6, AsideThenOnce
<1> QED
  BY <1>3, <1>7 DEF Wrote, Recorded, Refunded

LEMMA RefundOrderWrote ==
  ASSUME TypeOK, NEW o \in DOMAIN orders, NEW a \in Nat, NEW k \in Keys,
         CanRefundOrder(o, a), RefundOrder(o, a, k)
  PROVE  Wrote("refund_order", k)
<1> DEFINE refunded == orders[o].refunded + a
           full     == refunded >= orders[o].paid
           again    == RefundPoints /\ Axis("POINTS_GRANTED_AGAIN_ON_REFUND")
           extra    == IF again THEN points_for(a) ELSE 0
           delta    == IF RefundPoints /\ ~again THEN revoke_delta(orders[o], refunded) ELSE 0
           c        == orders[o].coupon
           restore  == Restores(o, full)
           issued   == <<Ev("REFUND_ISSUED", o, a, k)>>
           granted  == When(again, <<Ev("POINTS_GRANTED", o, extra, k)>>)
           revoked  == When(delta > 0, <<Ev("POINTS_REVOKED", o, delta, k)>>)
           restored == When(restore, <<Ev("COUPON_RESTORED", c, 0, k)>>)
           row      == [order |-> o, amount |-> a, key |-> k]
<1>1. orders[o] \in Order /\ o \in Nat
  BY DEF TypeOK
<1>2. c \in Nat /\ refunded \in Nat /\ orders[o].paid > 0
  BY <1>1 DEF CanRefundOrder, refundable, Order
<1>3. extra \in Nat /\ delta \in Nat
  <2>1. revoke_delta(orders[o], refunded) \in Nat
    <3> HIDE DEF refunded
    <3> QED  BY <1>1, <1>2, RevokeType
  <2> QED  BY <2>1, PointsForType
<1>4. /\ events' = events \o (issued \o granted \o revoked \o restored)
      /\ refunds' = Append(refunds, row)
  BY DEF RefundOrder, Emit
<1>5. again \in BOOLEAN /\ restore \in BOOLEAN
  BY DEF RefundPoints, Restores, Promotion, Axis
<1>6. row \in Refund /\ row.key = k
  BY <1>1 DEF Refund
<1> HIDE DEF again, restore, extra, delta, c, row
<1>7. /\ issued \in Seq(BusinessEvent)
      /\ Ev("POINTS_GRANTED", o, extra, k) \in BusinessEvent
      /\ Ev("POINTS_REVOKED", o, delta, k) \in BusinessEvent
      /\ Ev("COUPON_RESTORED", c, 0, k) \in BusinessEvent
  BY <1>1, <1>2, <1>3, EvType DEF BusinessEventType
<1>8. /\ granted \in Seq(BusinessEvent) /\ Aside(k, granted)
      /\ revoked \in Seq(BusinessEvent) /\ Aside(k, revoked)
      /\ restored \in Seq(BusinessEvent) /\ Aside(k, restored)
  <2>1. granted \in Seq(BusinessEvent) /\ Aside(k, granted)
    BY <1>5, <1>7, WhenAside DEF SideEvents
  <2>2. revoked \in Seq(BusinessEvent) /\ Aside(k, revoked)
    <3>1. (delta > 0) \in BOOLEAN
      OBVIOUS
    <3> QED  BY <1>7, <3>1, WhenAside DEF SideEvents
  <2>3. restored \in Seq(BusinessEvent) /\ Aside(k, restored)
    BY <1>5, <1>7, WhenAside DEF SideEvents
  <2> QED  BY <2>1, <2>2, <2>3
<1>9. Once("refund_order", k, issued)
  BY OneEvent DEF EffectOf
<1> HIDE DEF issued, granted, revoked, restored
<1>10. issued \o granted \in Seq(BusinessEvent) /\ Once("refund_order", k, issued \o granted)
  BY <1>7, <1>8, <1>9, OnceThenAside
<1>11. /\ issued \o granted \o revoked \in Seq(BusinessEvent)
       /\ Once("refund_order", k, issued \o granted \o revoked)
  BY <1>8, <1>10, OnceThenAside
<1>12. /\ issued \o granted \o revoked \o restored \in Seq(BusinessEvent)
       /\ Once("refund_order", k, issued \o granted \o revoked \o restored)
  BY <1>8, <1>11, OnceThenAside
<1> QED
  BY <1>4, <1>6, <1>12 DEF Wrote, Recorded, Refunded

LEMMA RedeemPointsWrote ==
  ASSUME TypeOK, NEW p \in PointAmounts, NEW k \in Keys, RedeemPoints(p, k)
  PROVE  Wrote("redeem_points", k)
<1>1. <<Ev("POINTS_REDEEMED", 1, p, k)>> \in Seq(BusinessEvent)
  BY EvType, ArgumentsAssumption DEF BusinessEventType
<1>2. Once("redeem_points", k, <<Ev("POINTS_REDEEMED", 1, p, k)>>)
  BY OneEvent DEF EffectOf
<1> QED
  BY <1>1, <1>2 DEF Wrote, Recorded, Refunded, RedeemPoints, Emit

LEMMA ActivateMembershipWrote ==
  ASSUME TypeOK, NEW a \in Amounts, NEW q \in Quantities, NEW k \in Keys,
         ActivateMembership(a, q, k)
  PROVE  Wrote("activate_membership", k)
<1> DEFINE active  == Ev("MEMBERSHIP_ACTIVATED", Len(memberships) + 1, 0, k)
           granted == Ev("ENTITLEMENT_GRANTED", Len(entitlements) + 1, q, k)
<1>1. active \in BusinessEvent /\ granted \in BusinessEvent
  BY EvType, ArgumentsAssumption DEF BusinessEventType, TypeOK
<1>2. <<active, granted>> \in Seq(BusinessEvent)
  <2> HIDE DEF active, granted
  <2> QED  BY <1>1
<1>3. Once("activate_membership", k, <<active, granted>>)
  BY DEF Once, Ev, EffectOf, SideEvents
<1> QED
  BY <1>2, <1>3 DEF Wrote, Recorded, Refunded, ActivateMembership, Emit

LEMMA ConsumeEntitlementWrote ==
  ASSUME TypeOK, NEW e \in DOMAIN entitlements, NEW q \in Quantities, NEW k \in Keys,
         ConsumeEntitlement(e, q, k)
  PROVE  Wrote("consume_entitlement", k)
<1>1. <<Ev("ENTITLEMENT_CONSUMED", e, q, k)>> \in Seq(BusinessEvent)
  BY EvType, ArgumentsAssumption DEF BusinessEventType, TypeOK
<1>2. Once("consume_entitlement", k, <<Ev("ENTITLEMENT_CONSUMED", e, q, k)>>)
  BY OneEvent DEF EffectOf
<1> QED
  BY <1>1, <1>2 DEF Wrote, Recorded, Refunded, ConsumeEntitlement, Emit

LEMMA CancelMembershipWrote ==
  ASSUME TypeOK, NEW m \in DOMAIN memberships, NEW refund \in BOOLEAN,
         NEW e \in DOMAIN entitlements, NEW k \in Keys, CancelMembership(m, refund, e, k)
  PROVE  Wrote("cancel_membership", k)
<1> DEFINE left    == available(entitlements[e])
           revoke  == Revokes(e, refund)
           back    == refund_amount(m, refund)
           type    == IF refund THEN "MEMBERSHIP_REFUNDED" ELSE "MEMBERSHIP_CANCELLED"
           revoked == When(revoke, <<Ev("ENTITLEMENT_REVOKED", e, left, k)>>)
           ended   == <<Ev(type, m, back, k)>>
<1>1. memberships[m] \in Membership /\ entitlements[e] \in Entitlement /\ m \in Nat /\ e \in Nat
  BY DEF TypeOK
<1>2. /\ back \in Nat /\ type \in EffectOf["cancel_membership"]
      /\ type \in BusinessEventType /\ left \in Int
  BY <1>1 DEF Membership, refund_amount, EffectOf, BusinessEventType, Entitlement, available
<1>3. events' = events \o (revoked \o ended) /\ UNCHANGED refunds
  BY DEF CancelMembership, Emit
<1>4. revoke => left > 0
  BY DEF Revokes
<1> HIDE DEF left, revoke, back, type
<1>5. ended \in Seq(BusinessEvent) /\ Once("cancel_membership", k, ended)
  BY <1>1, <1>2, EvType, OneEvent
<1>6. revoked \in Seq(BusinessEvent) /\ Aside(k, revoked)
  <2>1. CASE revoke
    <3>1. <<Ev("ENTITLEMENT_REVOKED", e, left, k)>> \in Seq(BusinessEvent)
      BY <1>1, <1>2, <1>4, <2>1, EvType DEF BusinessEventType
    <3> QED  BY <2>1, <3>1 DEF When, Aside, Ev, SideEvents
  <2>2. CASE ~revoke
    BY <2>2 DEF When, Aside
  <2> QED  BY <2>1, <2>2
<1> HIDE DEF revoked, ended
<1>7. revoked \o ended \in Seq(BusinessEvent) /\ Once("cancel_membership", k, revoked \o ended)
  BY <1>5, <1>6, AsideThenOnce
<1> QED
  BY <1>3, <1>7 DEF Wrote, Recorded, Refunded

-----------------------------------------------------------------------------
(* The steps of execute(), whatever the command. *)

Actions == DOMAIN EffectOf \cup {"inspect_state"}

Receipt == [epoch : Nat, action : Actions, key : Keys, status : {"SUCCEEDED", "REJECTED"}]

ReceiptOf(act, k, status) == [epoch |-> epoch, action |-> act, key |-> k, status |-> status]

Accepted(act, k) ==
  /\ existing(act, k) = {}
  /\ IF act = "inspect_state" THEN UNCHANGED tables ELSE Wrote(act, k)
  /\ snapshot_version' = snapshot_version + (IF act = "inspect_state" THEN 0 ELSE 1)
  /\ receipts' = receipts \cup {ReceiptOf(act, k, "SUCCEEDED")}
  /\ UNCHANGED epoch

Refused(act, k) ==
  /\ existing(act, k) = {}
  /\ receipts' = receipts \cup {ReceiptOf(act, k, "REJECTED")}
  /\ UNCHANGED <<tables, epoch, snapshot_version>>

Executed(act, k) == UNCHANGED <<tables, serviceVars>> \/ Accepted(act, k) \/ Refused(act, k)

LEMMA CommandExecuted ==
  ASSUME TypeOK, NEW k \in Keys, Command(k)
  PROVE  \E act \in Actions : Executed(act, k)
<1> USE DEF execute, Store, ReceiptOf, Executed, Accepted, Refused
<1>1. ASSUME NEW b \in Balances, execute("create_user", k, CanCreateUser(b), CreateUser(b, k))
      PROVE  Executed("create_user", k)
  BY <1>1, CreateUserWrote
<1>2. ASSUME NEW v \in Amounts, NEW t \in Amounts,
             execute("issue_coupon", k, CanIssueCoupon(v, t), IssueCoupon(v, t, k))
      PROVE  Executed("issue_coupon", k)
  BY <1>2, IssueCouponWrote
<1>3. ASSUME NEW a \in Amounts,
             execute("create_order", k, CanCreateOrder(a), CreateOrder(a, k))
      PROVE  Executed("create_order", k)
  BY <1>3, CreateOrderWrote
<1>4. ASSUME NEW o \in OrderIds, NEW c \in CouponIds,
             execute("apply_coupon", k, CanApplyCoupon(o, c), ApplyCoupon(o, c, k))
      PROVE  Executed("apply_coupon", k)
  BY <1>4, ApplyCouponWrote DEF CanApplyCoupon
<1>5. ASSUME NEW o \in OrderIds, execute("pay_order", k, CanPayOrder(o), PayOrder(o, k))
      PROVE  Executed("pay_order", k)
  <2>1. CanPayOrder(o) => o \in DOMAIN orders
    BY DEF CanPayOrder
  <2> QED  BY <1>5, <2>1, PayOrderWrote
<1>6. ASSUME NEW o \in OrderIds,
             execute("cancel_order", k, CanCancelOrder(o), CancelOrder(o, k))
      PROVE  Executed("cancel_order", k)
  BY <1>6, CancelOrderWrote DEF CanCancelOrder
<1>7. ASSUME NEW o \in OrderIds, NEW a \in Amounts,
             execute("refund_order", k, CanRefundOrder(o, a), RefundOrder(o, a, k))
      PROVE  Executed("refund_order", k)
  <2>1. CanRefundOrder(o, a) => o \in DOMAIN orders /\ a \in Nat
    BY ArgumentsAssumption DEF CanRefundOrder
  <2> QED  BY <1>7, <2>1, RefundOrderWrote
<1>8. ASSUME NEW p \in PointAmounts,
             execute("redeem_points", k, CanRedeemPoints(p), RedeemPoints(p, k))
      PROVE  Executed("redeem_points", k)
  BY <1>8, RedeemPointsWrote
<1>9. ASSUME NEW a \in Amounts, NEW q \in Quantities,
             execute("activate_membership", k, CanActivateMembership(a, q),
                     ActivateMembership(a, q, k))
      PROVE  Executed("activate_membership", k)
  BY <1>9, ActivateMembershipWrote
<1>10. ASSUME NEW e \in MembershipIds, NEW q \in Quantities,
              execute("consume_entitlement", k, CanConsumeEntitlement(e, q),
                      ConsumeEntitlement(e, q, k))
       PROVE  Executed("consume_entitlement", k)
  BY <1>10, ConsumeEntitlementWrote DEF CanConsumeEntitlement
<1>11. ASSUME NEW m \in MembershipIds, NEW refund \in BOOLEAN,
              execute("cancel_membership", k,
                      \E e \in DOMAIN entitlements : CanCancelMembership(m, refund, e),
                      \E e \in DOMAIN entitlements : /\ CanCancelMembership(m, refund, e)
                                                     /\ CancelMembership(m, refund, e, k))
       PROVE  Executed("cancel_membership", k)
  <2>1. \A e : CanCancelMembership(m, refund, e) => m \in DOMAIN memberships
    BY DEF CanCancelMembership
  <2> QED  BY <1>11, <2>1, CancelMembershipWrote
<1>12. ASSUME execute("inspect_state", k, TRUE, UNCHANGED tables)
       PROVE  Executed("inspect_state", k)
  BY <1>12
<1>13. {"create_user", "issue_coupon", "create_order", "apply_coupon", "pay_order",
        "cancel_order", "refund_order", "redeem_points", "activate_membership",
        "consume_entitlement", "cancel_membership", "inspect_state"} \subseteq Actions
  BY DEF Actions, EffectOf
<1> HIDE DEF execute, Executed
<1> QED
  BY <1>1, <1>2, <1>3, <1>4, <1>5, <1>6, <1>7, <1>8, <1>9, <1>10, <1>11, <1>12, <1>13
     DEF Command

-----------------------------------------------------------------------------
(* Receipts, refunds and events tell the same story. *)

\* The command was accepted under this key in the current epoch.
Succeeded(act, k) == \E r \in existing(act, k) : r.status = "SUCCEEDED"

ReceiptsOK ==
  /\ epoch \in Nat
  /\ IsFiniteSet(receipts) /\ receipts \subseteq Receipt
  /\ \A r \in receipts : r.epoch <= epoch

\* A refund row is there under a key exactly when the refund has succeeded under it.
RefundsReceipted ==
  \A k \in Keys :
    Succeeded("refund_order", k) <=> \E i \in DOMAIN refunds : refunds[i].key = k

\* A (write, key) pair has an effect, and then one, exactly when it has succeeded.
EffectsReceipted ==
  \A act \in DOMAIN EffectOf, k \in Keys :
    /\ \A i, j \in Effects(act, k) : i = j
    /\ Effects(act, k) # {} <=> Succeeded(act, k)

ServiceInv ==
  ReceiptsOK /\ KeysUnique /\ RefundsReceipted /\ EffectsReceipted /\ VersionCountsWrites

\* A receipt stored for a new (action, key).
LEMMA StoreReceipt ==
  ASSUME ReceiptsOK, KeysUnique, NEW act \in Actions, NEW k \in Keys,
         NEW status \in {"SUCCEEDED", "REJECTED"}, existing(act, k) = {},
         receipts' = receipts \cup {ReceiptOf(act, k, status)}, UNCHANGED epoch
  PROVE  /\ ReceiptsOK'
         /\ \A r, s \in receipts' :
              r.epoch = s.epoch /\ r.action = s.action /\ r.key = s.key => r = s
         /\ \A a, j : Succeeded(a, j)' <=>
              Succeeded(a, j) \/ (a = act /\ j = k /\ status = "SUCCEEDED")
<1> DEFINE new == ReceiptOf(act, k, status)
<1>1. /\ new.epoch = epoch /\ new.action = act /\ new.key = k /\ new.status = status
      /\ new \in Receipt
  BY DEF ReceiptOf, Receipt, ReceiptsOK
<1> HIDE DEF new
<1>2. receipts' = receipts \cup {new}
  BY DEF new
<1>3. IsFiniteSet(receipts')
  BY <1>2, FS_AddElement DEF ReceiptsOK
<1>4. ReceiptsOK'
  BY <1>1, <1>2, <1>3 DEF ReceiptsOK
<1>5. \A r \in receipts : ~(r.epoch = epoch /\ r.action = act /\ r.key = k)
  BY DEF existing
<1>6. \A r, s \in receipts' :
        r.epoch = s.epoch /\ r.action = s.action /\ r.key = s.key => r = s
  BY <1>1, <1>2, <1>5 DEF KeysUnique
<1>7. \A a, j : Succeeded(a, j)' <=>
        Succeeded(a, j) \/ (a = act /\ j = k /\ status = "SUCCEEDED")
  BY <1>1, <1>2 DEF Succeeded, existing
<1> QED
  BY <1>4, <1>6, <1>7

\* What a write that was recorded adds to the effects.
LEMMA RecordedEffects ==
  ASSUME TypeOK, NEW act \in DOMAIN EffectOf, NEW k \in Keys, Recorded(act, k),
         Effects(act, k) = {}
  PROVE  /\ \A a \in DOMAIN EffectOf, j \in Keys :
              a # act \/ j # k => Effects(a, j)' = Effects(a, j)
         /\ \E i : Effects(act, k)' = {i}
<1>1. PICK new \in Seq(BusinessEvent) : Once(act, k, new) /\ events' = events \o new
  BY DEF Recorded
<1>2. /\ Len(events') = Len(events) + Len(new) /\ events' \in Seq(BusinessEvent)
      /\ DOMAIN events' = 1 .. Len(events) + Len(new)
      /\ DOMAIN events = 1 .. Len(events) /\ Len(events) \in Nat
      /\ DOMAIN new = 1 .. Len(new) /\ Len(new) \in Nat
      /\ \A i \in 1 .. Len(events) : events'[i] = events[i]
      /\ \A i \in 1 .. Len(new) : events'[Len(events) + i] = new[i]
  BY <1>1 DEF TypeOK
<1>3. \A i \in DOMAIN events' : \/ i \in DOMAIN events
                                \/ i - Len(events) \in DOMAIN new /\ i > Len(events)
                                   /\ events'[i] = new[i - Len(events)]
  BY <1>2
<1>4. PICK n \in DOMAIN new : /\ new[n].type \in EffectOf[act]
                              /\ \A j \in DOMAIN new : j # n => new[j].type \in SideEvents
  BY <1>1 DEF Once
<1>5. \A i \in DOMAIN new : new[i].key = k
  BY <1>1 DEF Once
<1>6. ASSUME NEW a \in DOMAIN EffectOf, NEW j \in Keys, a # act \/ j # k
      PROVE  Effects(a, j)' = Effects(a, j)
  <2>1. \A i \in DOMAIN new : ~(new[i].type \in EffectOf[a] /\ new[i].key = j)
    BY <1>4, <1>5, <1>6, EffectsDistinct
  <2> QED  BY <1>2, <1>3, <2>1 DEF Effects
<1>7. Effects(act, k)' = {Len(events) + n}
  <2>1. Len(events) + n \in Effects(act, k)'
    BY <1>2, <1>4, <1>5 DEF Effects
  <2>2. ASSUME NEW i \in Effects(act, k)'  PROVE i = Len(events) + n
    <3>1. /\ i \in DOMAIN events' /\ events'[i].type \in EffectOf[act]
          /\ events'[i].key = k
      BY DEF Effects
    <3>2. i \notin DOMAIN events
      BY <1>2, <3>1 DEF Effects
    <3>3. i - Len(events) \in DOMAIN new /\ new[i - Len(events)].type \notin SideEvents
      BY <1>3, <3>1, <3>2, EffectsDistinct
    <3>4. i - Len(events) = n
      BY <1>4, <3>3
    <3> QED  BY <1>2, <3>1, <3>4
  <2> QED  BY <2>1, <2>2
<1> QED
  BY <1>6, <1>7

\* The receipts the version counts.
CountedWrites ==
  {r \in receipts : r.epoch = epoch /\ r.status = "SUCCEEDED" /\ r.action # "inspect_state"}

LEMMA VersionStep ==
  ASSUME ReceiptsOK, VersionCountsWrites, NEW act \in Actions, NEW k \in Keys,
         NEW status \in {"SUCCEEDED", "REJECTED"}, existing(act, k) = {},
         receipts' = receipts \cup {ReceiptOf(act, k, status)}, UNCHANGED epoch,
         snapshot_version' = snapshot_version +
           (IF status = "REJECTED" \/ act = "inspect_state" THEN 0 ELSE 1)
  PROVE  VersionCountsWrites'
<1> DEFINE new == ReceiptOf(act, k, status)
<1>1. /\ new.epoch = epoch /\ new.action = act /\ new.key = k /\ new.status = status
  BY DEF ReceiptOf
<1>2. receipts' = receipts \cup {new}
  OBVIOUS
<1> HIDE DEF new
<1>3. new \notin CountedWrites
  BY <1>1 DEF CountedWrites, existing
<1>4. IsFiniteSet(CountedWrites) /\ Cardinality(CountedWrites) \in Nat
  BY FS_Subset, FS_CardinalityType DEF CountedWrites, ReceiptsOK
<1>5. snapshot_version = Cardinality(CountedWrites)
  BY DEF VersionCountsWrites, CountedWrites
<1>6. (snapshot_version = Cardinality(CountedWrites))' => VersionCountsWrites'
  BY DEF VersionCountsWrites, CountedWrites
<1>7. CASE status = "REJECTED" \/ act = "inspect_state"
  <2>1. CountedWrites' = CountedWrites
    BY <1>1, <1>2, <1>7 DEF CountedWrites
  <2> QED  BY <1>4, <1>5, <1>7, <1>6, <2>1
<1>8. CASE ~(status = "REJECTED" \/ act = "inspect_state")
  <2>1. CountedWrites' = CountedWrites \cup {new}
    BY <1>1, <1>2, <1>8 DEF CountedWrites
  <2>2. Cardinality(CountedWrites') = Cardinality(CountedWrites) + 1
    BY <1>3, <1>4, <2>1, FS_AddElement
  <2> QED  BY <1>5, <1>8, <1>6, <2>2
<1> QED
  BY <1>7, <1>8

LEMMA AcceptedService ==
  ASSUME TypeOK, ServiceInv, NEW act \in Actions, NEW k \in Keys, Accepted(act, k)
  PROVE  ServiceInv'
<1>1. /\ ReceiptsOK'
      /\ \A r, s \in receipts' :
           r.epoch = s.epoch /\ r.action = s.action /\ r.key = s.key => r = s
      /\ \A a, j : Succeeded(a, j)' <=> Succeeded(a, j) \/ (a = act /\ j = k)
  BY StoreReceipt DEF ServiceInv, Accepted
<1>2. VersionCountsWrites'
  BY VersionStep DEF ServiceInv, Accepted
<1>3. ~Succeeded(act, k)
  BY DEF Accepted, Succeeded
<1>4. EffectsReceipted'
  <2>1. CASE act = "inspect_state"
    <3>1. \A a \in DOMAIN EffectOf, j \in Keys : Effects(a, j)' = Effects(a, j)
      BY <2>1 DEF Accepted, Effects, tables
    <3>2. act \notin DOMAIN EffectOf
      BY <2>1 DEF EffectOf
    <3> QED  BY <1>1, <3>1, <3>2 DEF ServiceInv, EffectsReceipted
  <2>2. CASE act # "inspect_state"
    <3>1. act \in DOMAIN EffectOf /\ Recorded(act, k)
      BY <2>2 DEF Actions, Accepted, Wrote
    <3>2. Effects(act, k) = {}
      BY <1>3, <3>1 DEF ServiceInv, EffectsReceipted
    <3>3. /\ \A a \in DOMAIN EffectOf, j \in Keys :
               a # act \/ j # k => Effects(a, j)' = Effects(a, j)
          /\ \E i : Effects(act, k)' = {i}
      BY <3>1, <3>2, RecordedEffects
    <3>4. ASSUME NEW a \in DOMAIN EffectOf, NEW j \in Keys
          PROVE  /\ \A i, n \in Effects(a, j)' : i = n
                 /\ Effects(a, j)' # {} <=> Succeeded(a, j)'
      <4>1. CASE a = act /\ j = k
        BY <1>1, <3>3, <4>1
      <4>2. CASE a # act \/ j # k
        BY <1>1, <3>3, <4>2 DEF ServiceInv, EffectsReceipted
      <4> QED  BY <4>1, <4>2
    <3> QED  BY <3>4 DEF EffectsReceipted
  <2> QED  BY <2>1, <2>2
<1>5. /\ \A i, j \in DOMAIN refunds' : refunds'[i].key = refunds'[j].key => i = j
      /\ RefundsReceipted'
  <2>1. CASE act = "refund_order"
    <3>1. PICK r \in Refund : r.key = k /\ refunds' = Append(refunds, r)
      BY <2>1 DEF Accepted, Wrote, Refunded
    <3>2. /\ DOMAIN refunds' = DOMAIN refunds \cup {Len(refunds) + 1}
          /\ refunds'[Len(refunds) + 1] = r
          /\ \A i \in DOMAIN refunds : i # Len(refunds) + 1 /\ refunds'[i] = refunds[i]
      BY <3>1, AppendRow DEF TypeOK
    <3>3. \A i \in DOMAIN refunds : refunds[i].key # k
      BY <1>3, <2>1 DEF ServiceInv, RefundsReceipted
    <3>4. \A i, j \in DOMAIN refunds' : refunds'[i].key = refunds'[j].key => i = j
      BY <3>1, <3>2, <3>3 DEF ServiceInv, KeysUnique
    <3>5. ASSUME NEW j \in Keys
          PROVE  Succeeded("refund_order", j)' <=> \E i \in DOMAIN refunds' : refunds'[i].key = j
      <4>1. CASE j = k
        BY <1>1, <2>1, <3>1, <3>2, <4>1
      <4>2. CASE j # k
        BY <1>1, <3>1, <3>2, <4>2 DEF ServiceInv, RefundsReceipted
      <4> QED  BY <4>1, <4>2
    <3> QED  BY <3>4, <3>5 DEF RefundsReceipted
  <2>2. CASE act # "refund_order"
    <3>1. UNCHANGED refunds
      BY <2>2 DEF Accepted, Wrote, Refunded, tables
    <3>2. \A j : Succeeded("refund_order", j)' <=> Succeeded("refund_order", j)
      BY <1>1, <2>2
    <3> QED  BY <3>1, <3>2 DEF ServiceInv, RefundsReceipted, KeysUnique
  <2> QED  BY <2>1, <2>2
<1>6. KeysUnique'
  BY <1>1, <1>5 DEF KeysUnique
<1> QED
  BY <1>1, <1>2, <1>4, <1>5, <1>6 DEF ServiceInv

LEMMA RefusedService ==
  ASSUME TypeOK, ServiceInv, NEW act \in Actions, NEW k \in Keys, Refused(act, k)
  PROVE  ServiceInv'
<1>1. /\ ReceiptsOK'
      /\ \A r, s \in receipts' :
           r.epoch = s.epoch /\ r.action = s.action /\ r.key = s.key => r = s
      /\ \A a, j : Succeeded(a, j)' <=> Succeeded(a, j)
  BY StoreReceipt DEF ServiceInv, Refused
<1>2. VersionCountsWrites'
  <2>1. snapshot_version \in Int
    BY FS_Subset, FS_CardinalityType DEF ServiceInv, VersionCountsWrites, ReceiptsOK
  <2> QED  BY <2>1, VersionStep DEF ServiceInv, Refused
<1>3. UNCHANGED <<events, refunds>>
  BY DEF Refused, tables
<1>4. EffectsReceipted' /\ RefundsReceipted'
  BY <1>1, <1>3 DEF ServiceInv, EffectsReceipted, RefundsReceipted, Effects
<1>5. KeysUnique'
  BY <1>1, <1>3 DEF ServiceInv, KeysUnique
<1> QED
  BY <1>1, <1>2, <1>4, <1>5 DEF ServiceInv

LEMMA ServiceUnchanged ==
  ASSUME ServiceInv, UNCHANGED <<tables, serviceVars>>
  PROVE  ServiceInv'
  BY DEF ServiceInv, tables, serviceVars, ReceiptsOK, KeysUnique, RefundsReceipted, Succeeded,
         existing, EffectsReceipted, Effects, VersionCountsWrites

LEMMA ExecutedService ==
  ASSUME TypeOK, ServiceInv, NEW act \in Actions, NEW k \in Keys, Executed(act, k)
  PROVE  ServiceInv'
  BY ServiceUnchanged, AcceptedService, RefusedService DEF Executed

\* A reset starts an epoch without receipts, refunds or events.
LEMMA ResetService ==
  ASSUME ServiceInv, reset_run
  PROVE  ServiceInv'
<1>1. /\ epoch \in Nat /\ epoch' = epoch + 1 /\ receipts' = receipts
      /\ snapshot_version' = 0 /\ refunds' = <<>> /\ events' = <<>>
      /\ \A r \in receipts : r.epoch \in Nat /\ r.epoch <= epoch
  BY DEF ServiceInv, ReceiptsOK, Receipt, reset_run, DeleteState
<1>2. \A r \in receipts' : r.epoch # epoch'
  BY <1>1
<1>3. VersionCountsWrites'
  <2>1. CountedWrites' = {}
    BY <1>2 DEF CountedWrites
  <2> QED  BY <1>1, <2>1, FS_EmptySet DEF VersionCountsWrites, CountedWrites
<1>4. ReceiptsOK' /\ KeysUnique'
  BY <1>1 DEF ServiceInv, ReceiptsOK, KeysUnique
<1>5. RefundsReceipted' /\ EffectsReceipted'
  BY <1>1, <1>2 DEF RefundsReceipted, EffectsReceipted, Effects, Succeeded, existing
<1> QED
  BY <1>3, <1>4, <1>5 DEF ServiceInv

LEMMA ServiceInit ==
  ASSUME CommerceInit
  PROVE  ServiceInv
<1>1. receipts = {} /\ epoch = 0 /\ snapshot_version = 0 /\ refunds = <<>> /\ events = <<>>
  BY DEF CommerceInit, Init, EmptyTables
<1>2. VersionCountsWrites
  <2>1. CountedWrites = {}
    BY <1>1 DEF CountedWrites
  <2> QED  BY <1>1, <2>1, FS_EmptySet DEF VersionCountsWrites, CountedWrites
<1>3. ReceiptsOK /\ KeysUnique
  BY <1>1, FS_EmptySet DEF ReceiptsOK, KeysUnique
<1>4. RefundsReceipted /\ EffectsReceipted
  BY <1>1 DEF RefundsReceipted, EffectsReceipted, Effects, Succeeded, existing
<1> QED
  BY <1>2, <1>3, <1>4 DEF ServiceInv

\* Receipts, refunds, events and the version agree after every delivery, retry and reset.
THEOREM ServiceInvariant == CommerceSpec => []ServiceInv
<1>1. CommerceInit => ServiceInv
  BY ServiceInit
<1>2. TypeOK /\ ServiceInv /\ [CommerceNext]_vars => ServiceInv'
  <2>1. ASSUME ServiceInv, UNCHANGED vars  PROVE ServiceInv'
    BY <2>1, ServiceUnchanged DEF vars, domainVars, tables
  <2>2. ASSUME TypeOK, ServiceInv, NEW k \in Keys, Command(k)  PROVE ServiceInv'
    BY <2>2, CommandExecuted, ExecutedService
  <2>3. ASSUME ServiceInv, reset_run  PROVE ServiceInv'
    BY <2>3, ResetService
  <2> QED  BY <2>1, <2>2, <2>3 DEF CommerceNext
<1> QED
  BY <1>1, <1>2, ServiceImplementsTables, TypeCorrect, PTL DEF CommerceSpec

\* execute(): uq_receipts_run_epoch_action_key and uq_refunds_run_key never fail, for any
\* number of keys, commands, retries and resets.
THEOREM KeysAreUnique == CommerceSpec => []KeysUnique
<1>1. ServiceInv => KeysUnique
  BY DEF ServiceInv
<1> QED
  BY <1>1, ServiceInvariant, PTL

\* execute(): exactly once.  In the current epoch a (write, key) pair has one effect in the log
\* if its receipt says SUCCEEDED and none otherwise.
THEOREM ExactlyOnce == CommerceSpec => []EffectIffReceipt
<1>1. ServiceInv => EffectIffReceipt
  <2> SUFFICES ASSUME ServiceInv, NEW act \in DOMAIN EffectOf, NEW k \in Keys
               PROVE  Cardinality(Effects(act, k)) = IF Succeeded(act, k) THEN 1 ELSE 0
    BY DEF EffectIffReceipt, Succeeded
  <2>1. CASE Succeeded(act, k)
    <3>1. Effects(act, k) # {} /\ \A i, j \in Effects(act, k) : i = j
      BY <2>1 DEF ServiceInv, EffectsReceipted
    <3>2. PICK i : Effects(act, k) = {i}
      BY <3>1
    <3> QED  BY <2>1, <3>2, FS_Singleton
  <2>2. CASE ~Succeeded(act, k)
    <3>1. Effects(act, k) = {}
      BY <2>2 DEF ServiceInv, EffectsReceipted
    <3> QED  BY <2>2, <3>1, FS_EmptySet
  <2> QED  BY <2>1, <2>2
<1> QED
  BY <1>1, ServiceInvariant, PTL

\* execute(), reset_run: snapshot_version is the number of accepted writes of the epoch; a
\* rejection, a replay or an inspection never moves it.
THEOREM VersionIsExact == CommerceSpec => []VersionCountsWrites
<1>1. ServiceInv => VersionCountsWrites
  BY DEF ServiceInv
<1> QED
  BY <1>1, ServiceInvariant, PTL

-----------------------------------------------------------------------------
(* The sandbox below the ticket. *)

LEMMA KeyFacts ==
  /\ Attempts \subseteq Keys /\ 0 \in Keys /\ 0 \notin Attempts
  /\ max_attempts \in Nat /\ max_attempts > 0 /\ 1 \in Attempts
  BY AttemptsAssumption DEF Attempts

LEMMA RefundExecuted ==
  ASSUME TypeOK, NEW k \in Keys, NEW o, NEW a \in Nat,
         execute("refund_order", k, CanRefundOrder(o, a), RefundOrder(o, a, k))
  PROVE  Executed("refund_order", k)
<1>1. CanRefundOrder(o, a) => o \in DOMAIN orders
  BY DEF CanRefundOrder
<1> QED
  BY <1>1, RefundOrderWrote
     DEF execute, Store, ReceiptOf, Executed, Accepted, Refused

\* The tables and receipts under a ticket, after any step of it.
SandboxInv == TypeOK /\ OrdersInv /\ ServiceInv

LEMMA RefundSandbox ==
  ASSUME SandboxInv, NEW k \in Keys, NEW o, NEW a \in Nat,
         execute("refund_order", k, CanRefundOrder(o, a), RefundOrder(o, a, k))
  PROVE  SandboxInv'
<1>1. ServiceInv'
  <2>1. Executed("refund_order", k)
    BY RefundExecuted DEF SandboxInv
  <2>2. "refund_order" \in Actions
    BY DEF Actions, EffectOf
  <2> QED  BY <2>1, <2>2, ExecutedService DEF SandboxInv
<1>2. CASE UNCHANGED domainVars
  BY <1>1, <1>2, MoneyUnchanged, CouponUnchanged
     DEF SandboxInv, OrdersInv, TypeOK, domainVars, run
<1>3. CASE ~UNCHANGED domainVars
  <2>1. CanRefundOrder(o, a) /\ RefundOrder(o, a, k) /\ UNCHANGED run
    BY <1>3 DEF execute, tables, domainVars, run
  <2>2. o \in DOMAIN orders
    BY <2>1 DEF CanRefundOrder
  <2>3. TypeOK'
    BY <2>1, <2>2, RefundOrderType DEF SandboxInv
  <2>4. RefundWithinPaid'
    BY <2>1, <2>2, RefundOrderMoney DEF SandboxInv, OrdersInv
  <2>5. CouponLinks' /\ CouponUsedOnce'
    BY <2>1, <2>2, RefundOrderCoupon DEF SandboxInv, OrdersInv, CouponInv
  <2> QED  BY <1>1, <2>3, <2>4, <2>5 DEF SandboxInv, OrdersInv
<1> QED
  BY <1>2, <1>3

LEMMA CommandSandbox ==
  ASSUME SandboxInv, NEW k \in Keys, Command(k)
  PROVE  SandboxInv'
<1>1. [Next]_domainVars
  BY CommandStep
<1>2. TypeOK'
  BY <1>1, TypeStep DEF SandboxInv
<1>3. OrdersInv'
  BY <1>1, OrdersStep DEF SandboxInv
<1>4. ServiceInv'
  BY CommandExecuted, ExecutedService DEF SandboxInv
<1> QED
  BY <1>2, <1>3, <1>4 DEF SandboxInv

LEMMA SandboxUnchanged ==
  ASSUME SandboxInv, UNCHANGED vars
  PROVE  SandboxInv'
BY ServiceUnchanged, MoneyUnchanged, CouponUnchanged
   DEF SandboxInv, OrdersInv, TypeOK, vars, domainVars, tables, run, serviceVars

-----------------------------------------------------------------------------
(* The ticket's own invariant, in either mode and on any network. *)

Places == {"setup", "inspect", "retry_check", "pre_check", "before", "send", "wait",
           "recover", "after", "post_check", "done"}

TicketOK ==
  /\ guard \in BOOLEAN /\ request \in Request /\ env \in SUBSET Faults
  /\ pc \in Places /\ attempt \in Attempts /\ amount \in Nat
  /\ wire \subseteq [key : Attempts, amount : {amount}]
  /\ \A m \in wire : m.key <= attempt
  /\ reply \in {"NONE", "SUCCEEDED", "REJECTED"}
  /\ outcome \in {"OPEN", "COMPLETED", "ESCALATED"}
  /\ outcome = "OPEN" <=> pc # "done"
  /\ pc \in {"setup", "inspect"} => wire = {} /\ attempt = 1
  /\ pc # "wait" => reply = "NONE"
  /\ epoch = 0

\* A key of the agent is only ever used for the ticket's refund, and not before its attempt.
TicketReceipts ==
  \A r \in receipts :
    /\ r.epoch = 0
    /\ r.key \in Attempts =>
         r.action = "refund_order" /\ r.key <= attempt /\ pc \notin {"setup", "inspect"}

TicketRows ==
  \A i \in DOMAIN refunds :
    refunds[i].key \in Attempts => refunds[i].order = request.order /\ refunds[i].amount = amount

\* What the agent heard of its attempt is what the sandbox did.
Heard ==
  /\ pc = "wait" /\ reply # "NONE" =>
       ~Waiting /\ \E r \in existing("refund_order", attempt) : r.status = reply
  /\ pc \in {"after", "post_check"} => guard /\ Succeeded("refund_order", attempt)
  /\ outcome = "COMPLETED" => Succeeded("refund_order", attempt)

TicketInv == SandboxInv /\ TicketOK /\ TicketReceipts /\ TicketRows /\ Heard

\* What an executed command leaves alone.
LEMMA ExecutedFrame ==
  ASSUME TypeOK, NEW act \in Actions, NEW k \in Keys, Executed(act, k)
  PROVE  /\ epoch' = epoch /\ receipts \subseteq receipts'
         /\ \A r \in receipts' \ receipts : r.key = k /\ r.action = act /\ r.epoch = epoch
         /\ \A i \in DOMAIN refunds : i \in DOMAIN refunds' /\ refunds'[i] = refunds[i]
         /\ \A i \in DOMAIN refunds' : i \notin DOMAIN refunds => refunds'[i].key = k
<1>1. CASE UNCHANGED <<tables, serviceVars>>
  BY <1>1 DEF tables, serviceVars
<1>2. CASE Refused(act, k)
  BY <1>2 DEF Refused, ReceiptOf, tables
<1>3. CASE Accepted(act, k)
  <2>1. \/ UNCHANGED refunds
        \/ \E r \in Refund : r.key = k /\ refunds' = Append(refunds, r)
    BY <1>3 DEF Accepted, Wrote, Refunded, tables
  <2>2. /\ \A i \in DOMAIN refunds : i \in DOMAIN refunds' /\ refunds'[i] = refunds[i]
        /\ \A i \in DOMAIN refunds' : i \notin DOMAIN refunds => refunds'[i].key = k
    <3>1. CASE UNCHANGED refunds
      BY <3>1
    <3>2. ASSUME NEW r \in Refund, r.key = k, refunds' = Append(refunds, r)
          PROVE  /\ \A i \in DOMAIN refunds : i \in DOMAIN refunds' /\ refunds'[i] = refunds[i]
                 /\ \A i \in DOMAIN refunds' : i \notin DOMAIN refunds => refunds'[i].key = k
      BY <3>2, AppendRow DEF TypeOK
    <3> QED  BY <2>1, <3>1, <3>2
  <2> QED  BY <1>3, <2>2 DEF Accepted, ReceiptOf
<1> QED
  BY <1>1, <1>2, <1>3 DEF Executed

\* The sandbox's side of the invariant does not see the agent move on.
LEMMA SucceededUnchanged ==
  ASSUME UNCHANGED vars
  PROVE  \A a, k : Succeeded(a, k)' <=> Succeeded(a, k)
  BY DEF vars, serviceVars, Succeeded, existing

\* The agent takes the ToolResult of its attempt.
LEMMA ResultTicket ==
  ASSUME TicketInv, NEW r, Result(r),
         r = "SUCCEEDED" => Succeeded("refund_order", attempt),
         UNCHANGED <<vars, worldVars, wire, amount>>, reply' = "NONE",
         pc \notin {"setup", "inspect", "done"}
  PROVE  TicketInv'
<1>1. SandboxInv' /\ UNCHANGED <<guard, env, request, receipts, refunds, epoch>>
  BY SandboxUnchanged DEF TicketInv, vars, domainVars, serviceVars, worldVars
<1>2. attempt \in Nat /\ attempt' \in Attempts /\ attempt <= attempt'
  BY AttemptsAssumption
     DEF TicketInv, TicketOK, Attempts, Result, Report
<1>3. /\ pc' \in Places \ {"setup", "inspect", "wait", "after", "post_check"}
      /\ outcome' \in {"OPEN", "COMPLETED", "ESCALATED"}
      /\ outcome' = "OPEN" <=> pc' # "done"
      /\ outcome' = "COMPLETED" => r = "SUCCEEDED" /\ attempt' = attempt
  BY DEF TicketInv, TicketOK, Result, Report, FirstCheck, Places, retryable
<1>4. TicketOK'
  BY <1>1, <1>2, <1>3 DEF TicketInv, TicketOK, Attempts
<1>5. TicketReceipts' /\ TicketRows'
  <2>1. \A x \in receipts' : x.key \in Attempts => x.key <= attempt'
    BY <1>1, <1>2 DEF TicketInv, TicketReceipts, Attempts
  <2> QED  BY <1>1, <1>3, <2>1 DEF TicketInv, TicketReceipts, TicketRows
<1>6. Heard'
  <2>1. outcome' = "COMPLETED" => Succeeded("refund_order", attempt)'
    BY <1>3, SucceededUnchanged
  <2> QED  BY <1>3, <2>1 DEF Heard
<1> QED
  BY <1>1, <1>4, <1>5, <1>6 DEF TicketInv

\* The agent or the gateway goes on to its next step.
LEMMA GotoTicket ==
  ASSUME TicketInv, NEW next \in Places \ {"setup", "inspect", "done"}, Goto(next),
         next \in {"after", "post_check"} => guard /\ Succeeded("refund_order", attempt),
         UNCHANGED <<vars, worldVars, wire, amount>>, reply' = "NONE",
         pc \notin {"setup", "inspect", "done"}
  PROVE  TicketInv'
<1>1. SandboxInv' /\ UNCHANGED <<guard, env, request, receipts, refunds, epoch>>
  BY SandboxUnchanged DEF TicketInv, vars, domainVars, serviceVars, worldVars
<1>2. pc' = next /\ attempt' = attempt /\ outcome' = outcome /\ outcome = "OPEN"
  BY DEF Goto, TicketInv, TicketOK
<1>3. TicketOK'
  BY <1>1, <1>2 DEF TicketInv, TicketOK
<1>4. TicketReceipts' /\ TicketRows'
  BY <1>1, <1>2 DEF TicketInv, TicketReceipts, TicketRows
<1>5. Heard'
  <2>1. Succeeded("refund_order", attempt)' <=> Succeeded("refund_order", attempt)
    BY <1>2, SucceededUnchanged
  <2> QED  BY <1>1, <1>2, <2>1 DEF Heard
<1> QED
  BY <1>1, <1>3, <1>4, <1>5 DEF TicketInv

\* A guard that cannot read answers UNKNOWN; otherwise its own answer decides.
LEMMA GuardUnreadable ==
  ASSUME TicketInv, Result("UNKNOWN"), UNCHANGED <<vars, worldVars, netVars, amount>>,
         pc \notin {"setup", "inspect", "wait", "done"}
  PROVE  TicketInv'
<1>1. UNCHANGED wire /\ reply' = "NONE"
  BY DEF netVars, TicketInv, TicketOK
<1> QED
  BY <1>1, ResultTicket

LEMMA ReceiptSettles ==
  ASSUME TicketInv, NEW r \in receipt_of(attempt)
  PROVE  /\ from_receipt(r.status) \in {"SUCCEEDED", "FAILED"}
         /\ from_receipt(r.status) = "SUCCEEDED" => Succeeded("refund_order", attempt)
  BY DEF TicketInv, TicketOK, TicketReceipts, receipt_of, from_receipt, Succeeded, existing

LEMMA InspectTicket ==
  ASSUME TicketInv, Inspect
  PROVE  TicketInv'
<1>1. SandboxInv' /\ UNCHANGED <<guard, env, request, receipts, refunds, epoch, wire, reply>>
  BY SandboxUnchanged DEF TicketInv, Inspect, vars, domainVars, serviceVars, worldVars, netVars
<1>2. /\ pc = "inspect" /\ wire = {} /\ attempt = 1 /\ reply = "NONE" /\ outcome = "OPEN"
      /\ attempt' = attempt /\ amount' \in Nat
      /\ pc' \in {"done", "retry_check", "send"}
      /\ outcome' = IF pc' = "done" THEN "ESCALATED" ELSE "OPEN"
  <2>1. Decidable => orders[request.order] \in Order
    BY DEF Decidable, TicketInv, SandboxInv, TypeOK
  <2>2. Decidable => orders[request.order].paid \in Nat
    BY <2>1 DEF Order
  <2> QED
    BY <2>2 DEF Inspect, TicketInv, TicketOK, Report, Goto, FirstCheck, Request
<1>3. \A r \in receipts : r.key \notin Attempts
  BY <1>2 DEF TicketInv, TicketReceipts
<1>4. \A i \in DOMAIN refunds : refunds[i].key \notin Attempts
  <2>1. ASSUME NEW i \in DOMAIN refunds  PROVE refunds[i].key \notin Attempts
    <3>1. refunds[i].key \in Keys
      <4>1. refunds[i] \in Refund
        BY DEF TicketInv, SandboxInv, TypeOK
      <4> QED  BY <4>1 DEF Refund
    <3>2. Succeeded("refund_order", refunds[i].key)
      BY <3>1 DEF TicketInv, SandboxInv, ServiceInv, RefundsReceipted
    <3> QED  BY <1>3, <3>2 DEF Succeeded, existing
  <2> QED  BY <2>1
<1>5. TicketOK'
  BY <1>1, <1>2 DEF TicketInv, TicketOK, Places
<1>6. TicketReceipts' /\ TicketRows' /\ Heard'
  BY <1>1, <1>2, <1>3, <1>4 DEF TicketInv, TicketReceipts, TicketRows, Heard
<1> QED
  BY <1>1, <1>5, <1>6 DEF TicketInv

LEMMA StartTicket ==
  ASSUME TicketInv, Start
  PROVE  TicketInv'
<1>1. SandboxInv' /\ UNCHANGED <<guard, env, request, receipts, refunds, epoch, wire, reply>>
  BY SandboxUnchanged DEF TicketInv, Start, vars, domainVars, serviceVars, worldVars, netVars
<1>2. /\ pc = "setup" /\ pc' = "inspect" /\ UNCHANGED <<attempt, outcome, amount>>
      /\ wire = {} /\ attempt = 1 /\ reply = "NONE" /\ outcome = "OPEN"
  BY DEF Start, Goto, TicketInv, TicketOK
<1>3. TicketOK'
  BY <1>1, <1>2 DEF TicketInv, TicketOK, Places
<1>4. TicketReceipts' /\ TicketRows' /\ Heard'
  BY <1>1, <1>2 DEF TicketInv, TicketReceipts, TicketRows, Heard
<1> QED
  BY <1>1, <1>3, <1>4 DEF TicketInv

LEMMA RetryCheckTicket ==
  ASSUME TicketInv, RetryCheck
  PROVE  TicketInv'
<1>1. /\ pc = "retry_check" /\ UNCHANGED <<vars, worldVars, netVars, wire, amount>>
      /\ reply' = "NONE"
  BY DEF RetryCheck, Guarded, netVars, TicketInv, TicketOK
<1>2. ASSUME Goto("pre_check")  PROVE TicketInv'
  BY <1>1, <1>2, GotoTicket DEF Places
<1>3. ASSUME NEW r \in receipt_of(attempt), Result(from_receipt(r.status))  PROVE TicketInv'
  BY <1>1, <1>3, ReceiptSettles, ResultTicket
<1>4. ASSUME Result("UNKNOWN")  PROVE TicketInv'
  BY <1>1, <1>4, GuardUnreadable
<1> QED
  BY <1>2, <1>3, <1>4 DEF RetryCheck, Guarded

LEMMA PreCheckTicket ==
  ASSUME TicketInv, PreCheck
  PROVE  TicketInv'
<1>1. /\ pc = "pre_check" /\ UNCHANGED <<vars, worldVars, netVars, wire, amount>>
      /\ reply' = "NONE"
  BY DEF PreCheck, Guarded, netVars, TicketInv, TicketOK
<1>2. ASSUME Goto("before")  PROVE TicketInv'
  BY <1>1, <1>2, GotoTicket DEF Places
<1>3. ASSUME Result("UNKNOWN") \/ Result("REFUSED")  PROVE TicketInv'
  BY <1>1, <1>3, ResultTicket
<1> QED
  BY <1>2, <1>3 DEF PreCheck, Guarded

LEMMA ReadTableTicket ==
  ASSUME TicketInv, ReadTable
  PROVE  TicketInv'
<1>1. SandboxInv'
  BY SandboxUnchanged DEF TicketInv, ReadTable
<1>2. UNCHANGED <<guard, env, request, receipts, refunds, epoch, wire, reply, pc, attempt,
                  amount, outcome>>
  BY DEF ReadTable, vars, domainVars, serviceVars, worldVars, netVars
<1>3. TicketOK' /\ TicketReceipts' /\ TicketRows' /\ Heard'
  BY <1>2 DEF TicketInv, TicketOK, TicketReceipts, TicketRows, Heard, Waiting, existing,
              Succeeded
<1> QED
  BY <1>1, <1>3 DEF TicketInv

LEMMA BeforeTicket ==
  ASSUME TicketInv, Before
  PROVE  TicketInv'
<1>1. /\ pc = "before" /\ UNCHANGED <<vars, worldVars, netVars, wire, amount>>
      /\ reply' = "NONE"
  BY DEF Before, Guarded, netVars, TicketInv, TicketOK
<1> QED
  BY <1>1, GotoTicket, GuardUnreadable DEF Before, Guarded, Places

\* What _send returned is passed on to the gateway's next step, or to the agent.
LEMMA SentTicket ==
  ASSUME TicketInv, NEW r, Sent(r), r = "SUCCEEDED" => Succeeded("refund_order", attempt),
         UNCHANGED <<vars, worldVars, wire, amount>>, reply' = "NONE",
         pc \notin {"setup", "inspect", "done"}
  PROVE  TicketInv'
  BY GotoTicket, ResultTicket DEF Sent, Places

LEMMA RecoverTicket ==
  ASSUME TicketInv, Recover
  PROVE  TicketInv'
<1>1. /\ pc = "recover" /\ UNCHANGED <<vars, worldVars, netVars, wire, amount>>
      /\ reply' = "NONE"
  BY DEF Recover, Guarded, netVars, TicketInv, TicketOK
<1>2. ASSUME NEW r \in receipt_of(attempt), Sent(from_receipt(r.status))  PROVE TicketInv'
  BY <1>1, <1>2, ReceiptSettles, SentTicket
<1>3. ASSUME Result("UNKNOWN") \/ Result("TIMEOUT")  PROVE TicketInv'
  BY <1>1, <1>3, ResultTicket
<1> QED
  BY <1>2, <1>3 DEF Recover, Guarded

LEMMA AfterTicket ==
  ASSUME TicketInv, After
  PROVE  TicketInv'
<1>1. /\ pc = "after" /\ UNCHANGED <<vars, worldVars, netVars, wire, amount>>
      /\ reply' = "NONE"
  BY DEF After, Guarded, netVars, TicketInv, TicketOK
<1>2. guard /\ Succeeded("refund_order", attempt)
  BY <1>1 DEF TicketInv, Heard
<1> QED
  BY <1>1, <1>2, GotoTicket, GuardUnreadable DEF After, Guarded, Places

LEMMA PostCheckTicket ==
  ASSUME TicketInv, PostCheck
  PROVE  TicketInv'
<1>1. /\ pc = "post_check" /\ UNCHANGED <<vars, worldVars, netVars, wire, amount>>
      /\ reply' = "NONE"
  BY DEF PostCheck, Guarded, netVars, TicketInv, TicketOK
<1>2. Succeeded("refund_order", attempt)
  BY <1>1 DEF TicketInv, Heard
<1>3. \E r : Result(r)
  BY DEF PostCheck, Guarded
<1> QED
  BY <1>1, <1>2, <1>3, ResultTicket

LEMMA SendTicket ==
  ASSUME TicketInv, Send
  PROVE  TicketInv'
<1>1. SandboxInv' /\ UNCHANGED <<guard, env, request, receipts, refunds, epoch>>
  BY SandboxUnchanged DEF TicketInv, Send, vars, domainVars, serviceVars, worldVars
<1>2. /\ pc = "send" /\ pc' = "wait" /\ UNCHANGED <<attempt, outcome, amount>>
      /\ reply' = "NONE" /\ wire' = wire \cup {[key |-> attempt, amount |-> amount]}
  BY DEF Send, Goto
<1>3. TicketOK'
  <2>1. attempt \in Nat
    BY AttemptsAssumption DEF TicketInv, TicketOK, Attempts
  <2> QED  BY <1>1, <1>2, <2>1 DEF TicketInv, TicketOK, Places
<1>4. TicketReceipts' /\ TicketRows' /\ Heard'
  BY <1>1, <1>2 DEF TicketInv, TicketOK, TicketReceipts, TicketRows, Heard
<1> QED
  BY <1>1, <1>3, <1>4 DEF TicketInv

LEMMA WaitTicket ==
  ASSUME TicketInv, Wait
  PROVE  TicketInv'
<1>1. pc = "wait" /\ UNCHANGED <<vars, worldVars, wire, amount>> /\ reply' = "NONE"
  BY DEF Wait
<1>2. ASSUME Answered  PROVE TicketInv'
  <2>1. reply # "NONE" /\ Sent(from_receipt(reply))
    BY <1>2 DEF Answered
  <2>2. from_receipt(reply) = "SUCCEEDED" => Succeeded("refund_order", attempt)
    BY <1>1, <2>1 DEF TicketInv, Heard, from_receipt, Succeeded
  <2> QED  BY <1>1, <2>1, <2>2, SentTicket
<1>3. ASSUME Sent("TIMEOUT") \/ Sent("UNKNOWN")  PROVE TicketInv'
  BY <1>1, <1>3, SentTicket
<1> QED
  BY <1>2, <1>3 DEF Wait, TimedOut, Disconnected

LEMMA LoseTicket ==
  ASSUME TicketInv, Lose
  PROVE  TicketInv'
<1>1. SandboxInv'
  BY SandboxUnchanged DEF TicketInv, Lose
<1>2. UNCHANGED <<guard, env, request, receipts, refunds, epoch, reply, pc, attempt,
                  amount, outcome>> /\ wire' \subseteq wire
  BY DEF Lose, vars, domainVars, serviceVars, worldVars, agentVars
<1>3. TicketOK' /\ TicketReceipts' /\ TicketRows'
  BY <1>2 DEF TicketInv, TicketOK, TicketReceipts, TicketRows
<1>4. Heard'
  BY <1>2 DEF TicketInv, Heard, Waiting, existing, Succeeded
<1> QED
  BY <1>1, <1>3, <1>4 DEF TicketInv

LEMMA DeliverTicket ==
  ASSUME TicketInv, Deliver
  PROVE  TicketInv'
<1>1. PICK m \in wire :
        /\ execute("refund_order", m.key, CanRefundOrder(request.order, m.amount),
                   RefundOrder(request.order, m.amount, m.key))
        /\ wire' = wire \ {m}
        /\ \/ /\ pc = "wait" /\ m.key = attempt
              /\ reply' = IF existing("refund_order", m.key) # {}
                          THEN (CHOOSE r \in existing("refund_order", m.key) : TRUE).status
                          ELSE IF /\ Supported("refund_order")
                                  /\ CanRefundOrder(request.order, m.amount)
                               THEN "SUCCEEDED" ELSE "REJECTED"
           \/ UNCHANGED reply
        /\ UNCHANGED <<worldVars, agentVars>>
  BY DEF Deliver
<1>2. /\ m.key \in Attempts /\ m.key \in Keys /\ m.key <= attempt /\ m.amount = amount
      /\ amount \in Nat /\ pc \notin {"setup", "inspect"} /\ epoch = 0
  BY KeyFacts DEF TicketInv, TicketOK
<1>3. UNCHANGED <<guard, env, request, pc, attempt, amount, outcome>>
  BY <1>1 DEF worldVars, agentVars
<1>4. SandboxInv'
  BY <1>1, <1>2, RefundSandbox DEF TicketInv
<1>5. Executed("refund_order", m.key) /\ "refund_order" \in Actions
  BY <1>1, <1>2, RefundExecuted DEF TicketInv, SandboxInv, Actions, EffectOf
<1>6. /\ epoch' = epoch /\ receipts \subseteq receipts'
      /\ \A r \in receipts' \ receipts :
           r.key = m.key /\ r.action = "refund_order" /\ r.epoch = epoch
      /\ \A i \in DOMAIN refunds : i \in DOMAIN refunds' /\ refunds'[i] = refunds[i]
  BY <1>2, <1>5, ExecutedFrame DEF TicketInv, SandboxInv
<1>7. TicketReceipts'
  BY <1>2, <1>3, <1>6 DEF TicketInv, TicketReceipts
<1>8. TicketRows'
  <2>1. CASE UNCHANGED refunds
    BY <1>3, <2>1 DEF TicketInv, TicketRows
  <2>2. CASE ~UNCHANGED refunds
    <3> DEFINE row == [order |-> request.order, amount |-> m.amount, key |-> m.key]
    <3>1. refunds' = Append(refunds, row) /\ CanRefundOrder(request.order, m.amount)
      BY <1>1, <2>2 DEF execute, tables, RefundOrder
    <3>2. row \in Refund
      BY <1>2, <3>1 DEF Refund, CanRefundOrder, TicketInv, SandboxInv, TypeOK
    <3>3. row.order = request.order /\ row.amount = amount
      BY <1>2
    <3> HIDE DEF row
    <3>4. \A i \in DOMAIN refunds' :
            \/ i \in DOMAIN refunds /\ refunds'[i] = refunds[i]
            \/ refunds'[i] = row
      BY <3>1, <3>2, AppendRow DEF TicketInv, SandboxInv, TypeOK
    <3> QED  BY <1>3, <3>3, <3>4 DEF TicketInv, TicketRows
  <2> QED  BY <2>1, <2>2
<1>9. \A a, k : existing(a, k) \subseteq existing(a, k)'
  BY <1>6 DEF existing
<1>10. reply' \in {"NONE", "SUCCEEDED", "REJECTED"}
       /\ (pc = "wait" /\ reply' # "NONE" =>
             ~Waiting' /\ \E r \in existing("refund_order", attempt)' : r.status = reply')
  <2>1. CASE UNCHANGED reply
    <3>1. pc = "wait" /\ reply # "NONE" =>
            ~Waiting /\ \E r \in existing("refund_order", attempt) : r.status = reply
      BY DEF TicketInv, Heard
    <3>2. ~Waiting => ~Waiting'
      BY <1>1, <1>3 DEF Waiting
    <3>3. \A r : r \in existing("refund_order", attempt)
                   => r \in existing("refund_order", attempt)'
      BY <1>3, <1>6 DEF existing
    <3> QED  BY <2>1, <3>1, <3>2, <3>3 DEF TicketInv, TicketOK
  <2>2. CASE ~UNCHANGED reply
    <3>1. m.key = attempt
      BY <1>1, <2>2
    <3>2. \A n \in wire : n.key = attempt => n = m
      BY <1>2, <3>1 DEF TicketInv, TicketOK
    <3>3. ~Waiting'
      BY <1>1, <1>3, <3>2 DEF Waiting
    <3>4. CASE existing("refund_order", m.key) # {}
      <4>1. PICK r \in existing("refund_order", m.key) : reply' = r.status
        BY <1>1, <2>2, <3>4
      <4>2. r \in receipts /\ r.status \in {"SUCCEEDED", "REJECTED"}
        BY DEF existing, TicketInv, SandboxInv, ServiceInv, ReceiptsOK, Receipt
      <4>3. r \in existing("refund_order", attempt)'
        BY <1>3, <1>6, <3>1 DEF existing
      <4> QED  BY <3>3, <4>1, <4>2, <4>3
    <3>5. CASE existing("refund_order", m.key) = {}
      <4>1. /\ receipts' = receipts \cup {ReceiptOf("refund_order", m.key, reply')}
            /\ reply' \in {"SUCCEEDED", "REJECTED"}
        BY <1>1, <2>2, <3>5 DEF execute, Store, ReceiptOf
      <4> DEFINE r == ReceiptOf("refund_order", m.key, reply')
      <4>2. r \in receipts' /\ r.epoch = epoch /\ r.action = "refund_order"
            /\ r.key = m.key /\ r.status = reply'
        BY <4>1 DEF ReceiptOf
      <4>3. r \in existing("refund_order", attempt)'
        <5> HIDE DEF r
        <5> QED  BY <1>3, <1>6, <3>1, <4>2 DEF existing
      <4> QED  BY <3>3, <4>1, <4>2, <4>3
    <3> QED  BY <3>4, <3>5
  <2> QED  BY <2>1, <2>2
<1>11. \A k : Succeeded("refund_order", k) => Succeeded("refund_order", k)'
  BY <1>9 DEF Succeeded
<1>12. Heard'
  BY <1>3, <1>10, <1>11 DEF TicketInv, Heard
<1>13. TicketOK'
  <2>1. pc # "wait" => reply' = "NONE"
    BY <1>1 DEF TicketInv, TicketOK
  <2> QED  BY <1>1, <1>2, <1>3, <1>6, <1>10, <2>1 DEF TicketInv, TicketOK
<1> QED
  BY <1>4, <1>7, <1>8, <1>12, <1>13 DEF TicketInv

LEMMA ClientTicket ==
  ASSUME TicketInv, Client
  PROVE  TicketInv'
<1>1. Command(0) /\ UNCHANGED <<worldVars, agentVars, netVars>>
  BY DEF Client
<1>2. UNCHANGED <<guard, env, request, pc, attempt, amount, outcome, wire, reply>>
  BY <1>1 DEF worldVars, agentVars, netVars
<1>3. SandboxInv'
  BY <1>1, KeyFacts, CommandSandbox DEF TicketInv
<1>4. PICK act \in Actions : Executed(act, 0)
  BY <1>1, KeyFacts, CommandExecuted DEF TicketInv, SandboxInv
<1>5. /\ epoch' = epoch /\ receipts \subseteq receipts'
      /\ \A r \in receipts' \ receipts : r.key = 0 /\ r.epoch = epoch
      /\ \A i \in DOMAIN refunds : i \in DOMAIN refunds' /\ refunds'[i] = refunds[i]
      /\ \A i \in DOMAIN refunds' : i \notin DOMAIN refunds => refunds'[i].key = 0
  BY <1>4, KeyFacts, ExecutedFrame DEF TicketInv, SandboxInv
<1>6. TicketOK'
  BY <1>2, <1>5 DEF TicketInv, TicketOK
<1>7. TicketReceipts' /\ TicketRows'
  BY <1>2, <1>5, KeyFacts DEF TicketInv, TicketOK, TicketReceipts, TicketRows
<1>8. Heard'
  <2>1. \A a, k : existing(a, k) \subseteq existing(a, k)'
    BY <1>5 DEF existing
  <2>2. \A k : Succeeded("refund_order", k) => Succeeded("refund_order", k)'
    BY <2>1 DEF Succeeded
  <2>3. existing("refund_order", attempt) \subseteq existing("refund_order", attempt)'
    BY <1>2, <1>5 DEF existing
  <2> QED  BY <1>2, <2>2, <2>3 DEF TicketInv, Heard, Waiting
<1> QED
  BY <1>3, <1>6, <1>7, <1>8 DEF TicketInv

LEMMA TicketStep ==
  ASSUME TicketInv, [GatedNext]_allVars
  PROVE  TicketInv'
<1>1. CASE UNCHANGED allVars
  <2>1. SandboxInv' /\ UNCHANGED <<vars, guard, env, request, receipts, refunds, epoch, pc,
                                   attempt, amount, outcome, wire, reply>>
    BY <1>1, SandboxUnchanged
       DEF TicketInv, allVars, vars, domainVars, serviceVars, worldVars, agentVars, netVars
  <2> QED
    BY <2>1 DEF TicketInv, TicketOK, TicketReceipts, TicketRows, Heard, Waiting, existing,
                Succeeded
<1>2. CASE GatedNext
  BY <1>2, ClientTicket, StartTicket, DeliverTicket, LoseTicket, InspectTicket,
     RetryCheckTicket, PreCheckTicket, ReadTableTicket, BeforeTicket, SendTicket, WaitTicket,
     RecoverTicket, AfterTicket, PostCheckTicket DEF GatedNext, Agent
<1> QED
  BY <1>1, <1>2

LEMMA TicketInit == GatedInit => TicketInv
<1> SUFFICES ASSUME GatedInit  PROVE TicketInv
  OBVIOUS
<1>1. CommerceInit /\ Init
  BY DEF GatedInit, CommerceInit
<1>2. TypeOK /\ OrdersInv
  BY <1>1, TypeInit, OrdersInit
<1>3. SandboxInv
  BY <1>1, <1>2, ServiceInit DEF SandboxInv
<1>4. receipts = {} /\ refunds = <<>> /\ epoch = 0
  BY <1>1 DEF CommerceInit, Init, EmptyTables
<1>5. TicketOK
  BY <1>4, KeyFacts, ModesAssumption, EnvironmentsAssumption, RequestsAssumption
     DEF GatedInit, TicketOK, Places
<1>6. TicketReceipts /\ TicketRows /\ Heard
  BY <1>4 DEF GatedInit, TicketReceipts, TicketRows, Heard
<1> QED
  BY <1>3, <1>5, <1>6 DEF TicketInv

\* The agent, the network and the sandbox agree on what each attempt did.
THEOREM TicketInvariant == GatedSpec => []TicketInv
<1>1. TicketInv /\ [GatedNext]_allVars => TicketInv'
  BY TicketStep
<1> QED
  BY <1>1, TicketInit, PTL DEF GatedSpec

\* RefundAgent.handle, ToolGateway._dispatch: claimed_complete is never an invention.  With a
\* gate or without one, whatever the network loses, delays or breaks and whatever other clients
\* write, a COMPLETED report has the refund of that very attempt in the ledger.
THEOREM ClaimsAreBacked == GatedSpec => []ClaimBacked
<1>1. TicketInv => ClaimBacked
  <2> SUFFICES ASSUME TicketInv, outcome = "COMPLETED"
               PROVE  \E i \in DOMAIN refunds : /\ refunds[i].key = attempt
                                                /\ refunds[i].order = request.order
                                                /\ refunds[i].amount = amount
    BY DEF ClaimBacked
  <2>1. attempt \in Attempts /\ attempt \in Keys /\ Succeeded("refund_order", attempt)
    BY KeyFacts DEF TicketInv, TicketOK, Heard
  <2>2. PICK i \in DOMAIN refunds : refunds[i].key = attempt
    BY <2>1 DEF TicketInv, SandboxInv, ServiceInv, RefundsReceipted
  <2> QED  BY <2>1, <2>2 DEF TicketInv, TicketRows
<1> QED
  BY <1>1, TicketInvariant, PTL


-----------------------------------------------------------------------------
(* Behind the gate, with a sandbox that has settled a request by the time its client gives *)
(* up: an attempt is only ever followed by another one once it can no longer pay out.       *)

Prompt == guard /\ "LATE" \notin env

Unsent == {"setup", "inspect", "retry_check", "pre_check", "before", "send"}

\* No receipt of this key in the sandbox says that a refund was paid out.
Unpaid(k) == \A r \in receipts : r.key = k => r.status = "REJECTED"

OneAttempt ==
  /\ \A m \in wire : m.key = attempt
  /\ \A k \in Attempts : k < attempt => Unpaid(k)
  /\ pc \notin {"wait", "done"} => wire = {}
  /\ wire # {} \/ pc \in Unsent => \A r \in receipts : r.key # attempt

PromptInv == Prompt => OneAttempt

\* The rejected attempt's receipt is the only one under its key.
LEMMA RejectedUnpaid ==
  ASSUME TicketInv, NEW r \in receipts, r.key = attempt, r.status # "SUCCEEDED"
  PROVE  Unpaid(attempt)
<1>1. attempt \in Attempts
  BY DEF TicketInv, TicketOK
<1>2. \A x \in receipts : x.key = attempt => x = r
  BY <1>1 DEF TicketInv, TicketReceipts, SandboxInv, ServiceInv, KeysUnique
<1>3. r.status = "REJECTED"
  BY DEF TicketInv, SandboxInv, ServiceInv, ReceiptsOK, Receipt
<1> QED
  BY <1>2, <1>3 DEF Unpaid

\* A ToolResult that is retried is one of an attempt that cannot pay out any more.
LEMMA ResultPrompt ==
  ASSUME TicketInv, PromptInv, NEW r, Result(r), UNCHANGED <<vars, worldVars, wire>>,
         pc \notin {"setup", "inspect", "done"},
         Prompt /\ r \in retryable => wire = {} /\ Unpaid(attempt)
  PROVE  PromptInv'
<1> SUFFICES ASSUME Prompt  PROVE OneAttempt'
  BY DEF PromptInv, Prompt, worldVars
<1>1. OneAttempt /\ UNCHANGED <<receipts, wire, guard>>
  BY DEF PromptInv, vars, serviceVars, worldVars
<1>2. attempt \in Nat /\ attempt' \in Nat
  BY AttemptsAssumption DEF TicketInv, TicketOK, Attempts, Result, Report
<1>3. CASE pc' = "done" /\ attempt' = attempt
  BY <1>1, <1>3 DEF OneAttempt, Unpaid, Unsent
<1>4. CASE r \in retryable /\ attempt' = attempt + 1 /\ pc' = FirstCheck
  <2>1. wire = {} /\ Unpaid(attempt)
    BY <1>4
  <2>2. \A k \in Attempts : k < attempt' => Unpaid(k)'
    <3>1. \A k \in Attempts : k < attempt' => k < attempt \/ k = attempt
      BY <1>2, <1>4 DEF Attempts
    <3> QED  BY <1>1, <2>1, <3>1 DEF OneAttempt, Unpaid
  <2>3. \A x \in receipts : x.key # attempt'
    <3>1. attempt' \in Attempts
      BY <1>2, <1>4, AttemptsAssumption
         DEF TicketInv, TicketOK, Attempts, Result, Report
    <3>2. \A x \in receipts : x.key \in Attempts => x.key <= attempt
      BY DEF TicketInv, TicketReceipts
    <3> QED  BY <1>2, <1>4, <3>1, <3>2
  <2> QED  BY <1>1, <2>1, <2>2, <2>3 DEF OneAttempt
<1> QED
  BY <1>3, <1>4 DEF Result, Report

\* The gateway goes on without a request on the wire.
LEMMA GotoPrompt ==
  ASSUME PromptInv, NEW next, Goto(next), UNCHANGED <<vars, worldVars, wire>>,
         Prompt => next = "wait" \/ wire = {},
         Prompt /\ next \in Unsent => pc \in Unsent
  PROVE  PromptInv'
<1> SUFFICES ASSUME Prompt  PROVE OneAttempt'
  BY DEF PromptInv, Prompt, worldVars
<1>1. OneAttempt /\ UNCHANGED <<receipts, wire, attempt>> /\ pc' = next
  BY DEF PromptInv, vars, serviceVars, Goto
<1> QED
  BY <1>1 DEF OneAttempt, Unpaid


\* What the sandbox does to the ticket's receipts while the agent stands still.
LEMMA ReceiptsPrompt ==
  ASSUME TicketInv, PromptInv, NEW k \in Keys,
         UNCHANGED <<guard, env, pc, attempt>>, wire' \subseteq wire,
         receipts \subseteq receipts', \A r \in receipts' \ receipts : r.key = k,
         Prompt /\ k \in Attempts => k = attempt /\ wire' = {} /\ pc \notin Unsent
  PROVE  PromptInv'
<1> SUFFICES ASSUME Prompt  PROVE OneAttempt'
  BY DEF PromptInv, Prompt
<1>1. OneAttempt /\ attempt \in Attempts /\ attempt \in Nat
  BY AttemptsAssumption DEF PromptInv, TicketInv, TicketOK, Attempts
<1>2. \A j \in Attempts : j < attempt => Unpaid(j)'
  <2>1. \A j \in Attempts : j < attempt => j # k
    BY <1>1 DEF Attempts
  <2> QED  BY <1>1, <2>1 DEF OneAttempt, Unpaid
<1>3. wire' # {} \/ pc' \in Unsent => \A r \in receipts' : r.key # attempt'
  BY <1>1 DEF OneAttempt
<1> QED
  BY <1>1, <1>2, <1>3 DEF OneAttempt

LEMMA SentPrompt ==
  ASSUME TicketInv, PromptInv, NEW r, Sent(r), UNCHANGED <<vars, worldVars, wire>>,
         pc \in {"wait", "recover"},
         Prompt /\ r \in {"SUCCEEDED", "TIMEOUT", "FAILED"} => wire = {},
         Prompt /\ r = "FAILED" => Unpaid(attempt)
  PROVE  PromptInv'
<1>1. CASE guard /\ r \in {"TIMEOUT", "SUCCEEDED"}
  <2>1. Goto("recover") \/ Goto("after")
    BY <1>1 DEF Sent
  <2> QED  BY <1>1, <2>1, GotoPrompt DEF Unsent
<1>2. CASE ~guard \/ r \notin {"TIMEOUT", "SUCCEEDED"}
  <2>1. Result(r)
    BY <1>2 DEF Sent
  <2> QED  BY <1>2, <2>1, ResultPrompt DEF retryable, Prompt
<1> QED
  BY <1>1, <1>2

LEMMA GuardPrompt ==
  ASSUME TicketInv, PromptInv, RetryCheck \/ PreCheck \/ Before \/ Recover \/ After \/ PostCheck
  PROVE  PromptInv'
<1>1. /\ pc \in {"retry_check", "pre_check", "before", "recover", "after", "post_check"}
      /\ UNCHANGED <<vars, worldVars, wire>>
  BY DEF RetryCheck, PreCheck, Before, Recover, After, PostCheck, Guarded, netVars
<1>2. Prompt => wire = {}
  BY <1>1 DEF PromptInv, OneAttempt
<1>3. ASSUME NEW r, Result(r), r \in {"UNKNOWN", "REFUSED", "SUCCEEDED"}  PROVE PromptInv'
  BY <1>1, <1>3, ResultPrompt DEF retryable
<1>4. ASSUME NEW next, Goto(next), next \in Unsent => pc \in Unsent  PROVE PromptInv'
  BY <1>1, <1>2, <1>4, GotoPrompt
<1>5. ASSUME receipt_of(attempt) = {}  PROVE Unpaid(attempt)
  BY <1>5 DEF receipt_of, Unpaid, TicketInv, TicketOK, TicketReceipts
<1>6. ASSUME NEW r \in receipt_of(attempt)
      PROVE  /\ from_receipt(r.status) \in {"SUCCEEDED", "FAILED"}
             /\ from_receipt(r.status) = "FAILED" => Unpaid(attempt)
  BY RejectedUnpaid DEF receipt_of, from_receipt
<1>7. CASE RetryCheck
  <2>1. ASSUME NEW r \in receipt_of(attempt), Result(from_receipt(r.status))
        PROVE  PromptInv'
    BY <1>1, <1>2, <1>6, <2>1, ResultPrompt DEF retryable
  <2> QED  BY <1>1, <1>3, <1>4, <1>7, <2>1 DEF RetryCheck, Guarded, Unsent
<1>8. CASE PreCheck
  BY <1>1, <1>3, <1>4, <1>8 DEF PreCheck, Guarded, Unsent
<1>9. CASE Before
  BY <1>1, <1>3, <1>4, <1>9 DEF Before, Guarded, Unsent
<1>10. CASE Recover
  <2>1. ASSUME receipt_of(attempt) = {}, Result("TIMEOUT")  PROVE PromptInv'
    BY <1>1, <1>2, <1>5, <2>1, ResultPrompt
  <2>2. ASSUME NEW r \in receipt_of(attempt), Sent(from_receipt(r.status))  PROVE PromptInv'
    <3>1. pc = "recover"
      BY <1>10 DEF Recover, Guarded
    <3> QED  BY <1>1, <1>2, <1>6, <2>2, <3>1, SentPrompt
  <2> QED  BY <1>3, <1>10, <2>1, <2>2 DEF Recover, Guarded
<1>11. CASE After
  BY <1>3, <1>4, <1>11 DEF After, Guarded, Unsent
<1>12. CASE PostCheck
  BY <1>3, <1>12 DEF PostCheck, Guarded
<1> QED
  BY <1>7, <1>8, <1>9, <1>10, <1>11, <1>12

LEMMA WaitPrompt ==
  ASSUME TicketInv, PromptInv, Wait
  PROVE  PromptInv'
<1>1. pc = "wait" /\ UNCHANGED <<vars, worldVars, wire>>
  BY DEF Wait
<1>2. Prompt /\ ~Waiting => wire = {}
  BY DEF PromptInv, OneAttempt, Waiting
<1>3. CASE Answered
  <2>1. reply # "NONE" /\ Sent(from_receipt(reply))
    BY <1>3 DEF Answered
  <2>2. PICK r \in existing("refund_order", attempt) : r.status = reply /\ ~Waiting
    BY <1>1, <2>1 DEF TicketInv, Heard
  <2>3. from_receipt(reply) = "FAILED" => Unpaid(attempt)
    BY <2>2, RejectedUnpaid DEF existing, from_receipt
  <2> QED  BY <1>1, <1>2, <2>1, <2>2, <2>3, SentPrompt DEF from_receipt
<1>4. CASE TimedOut
  BY <1>1, <1>2, <1>4, SentPrompt DEF TimedOut, Prompt
<1>5. CASE Disconnected
  BY <1>1, <1>5, SentPrompt DEF Disconnected
<1> QED
  BY <1>3, <1>4, <1>5 DEF Wait

LEMMA SendPrompt ==
  ASSUME TicketInv, PromptInv, Send
  PROVE  PromptInv'
<1> SUFFICES ASSUME Prompt  PROVE OneAttempt'
  BY DEF PromptInv, Prompt, Send, worldVars
<1>1. /\ pc = "send" /\ pc' = "wait" /\ UNCHANGED <<attempt, receipts>>
      /\ wire' = wire \cup {[key |-> attempt, amount |-> amount]} /\ OneAttempt
  BY DEF Send, Goto, PromptInv, vars, serviceVars
<1> QED
  BY <1>1 DEF OneAttempt, Unpaid, Unsent

LEMMA DeliverPrompt ==
  ASSUME TicketInv, PromptInv, Deliver
  PROVE  PromptInv'
<1>1. PICK m \in wire :
        /\ execute("refund_order", m.key, CanRefundOrder(request.order, m.amount),
                   RefundOrder(request.order, m.amount, m.key))
        /\ wire' = wire \ {m}
        /\ UNCHANGED <<worldVars, agentVars>>
  BY DEF Deliver
<1>2. /\ m.key \in Keys /\ m.amount \in Nat /\ "refund_order" \in Actions
      /\ UNCHANGED <<guard, env, pc, attempt>>
  BY <1>1, KeyFacts DEF TicketInv, TicketOK, Actions, EffectOf, worldVars, agentVars
<1>3. Executed("refund_order", m.key)
  BY <1>1, <1>2, RefundExecuted DEF TicketInv, SandboxInv
<1>4. receipts \subseteq receipts' /\ \A r \in receipts' \ receipts : r.key = m.key
  BY <1>2, <1>3, ExecutedFrame DEF TicketInv, SandboxInv
<1>5. Prompt => m.key = attempt /\ wire' = {} /\ pc \notin Unsent
  <2> SUFFICES ASSUME Prompt  PROVE m.key = attempt /\ wire' = {} /\ pc \notin Unsent
    OBVIOUS
  <2>1. OneAttempt
    BY DEF PromptInv
  <2>2. \A n \in wire : n.key = attempt /\ n.amount = amount
    BY <2>1 DEF OneAttempt, TicketInv, TicketOK
  <2>3. \A n \in wire : n = m
    BY <2>2 DEF TicketInv, TicketOK
  <2> QED  BY <1>1, <2>1, <2>2, <2>3 DEF OneAttempt, Unsent
<1> QED
  BY <1>1, <1>2, <1>4, <1>5, ReceiptsPrompt

LEMMA ClientPrompt ==
  ASSUME TicketInv, PromptInv, Client
  PROVE  PromptInv'
<1>1. Command(0) /\ UNCHANGED <<guard, env, pc, attempt, wire>>
  BY DEF Client, worldVars, agentVars, netVars
<1>2. PICK act \in Actions : Executed(act, 0)
  BY <1>1, KeyFacts, CommandExecuted DEF TicketInv, SandboxInv
<1>3. receipts \subseteq receipts' /\ \A r \in receipts' \ receipts : r.key = 0
  BY <1>2, KeyFacts, ExecutedFrame DEF TicketInv, SandboxInv
<1> QED
  BY <1>1, <1>3, KeyFacts, ReceiptsPrompt

LEMMA PromptStep ==
  ASSUME TicketInv, PromptInv, [GatedNext]_allVars
  PROVE  PromptInv'
<1>1. CASE UNCHANGED <<guard, env, receipts, pc, attempt>> /\ wire' \subseteq wire
  BY <1>1 DEF PromptInv, Prompt, OneAttempt, Unpaid
<1>2. CASE UNCHANGED allVars \/ ReadTable \/ Lose
  BY <1>1, <1>2
     DEF allVars, ReadTable, Lose, vars, serviceVars, worldVars, agentVars, netVars
<1>3. CASE Start \/ Inspect
  <2>1. UNCHANGED <<guard, env, receipts, attempt, wire>> /\ pc \in {"setup", "inspect"}
    BY <1>3 DEF Start, Inspect, Report, Goto, vars, serviceVars, worldVars, netVars
  <2>2. wire = {}
    BY <2>1 DEF TicketInv, TicketOK
  <2> QED  BY <2>1, <2>2 DEF PromptInv, Prompt, OneAttempt, Unpaid, Unsent
<1>4. CASE Agent
  BY <1>2, <1>3, <1>4, GuardPrompt, SendPrompt, WaitPrompt DEF Agent
<1> QED
  BY <1>2, <1>3, <1>4, ClientPrompt, DeliverPrompt DEF GatedNext

\* The agent behind a gate never leaves an attempt that may still pay out for the next one.
THEOREM PromptInvariant == GatedSpec => []PromptInv
<1>1. GatedInit => PromptInv
  <2> SUFFICES ASSUME GatedInit  PROVE OneAttempt
    BY DEF PromptInv
  <2>1. wire = {} /\ receipts = {} /\ attempt = 1
    BY DEF GatedInit, CommerceInit
  <2> QED  BY <2>1 DEF OneAttempt, Unpaid
<1>2. TicketInv /\ PromptInv /\ [GatedNext]_allVars => PromptInv'
  BY PromptStep
<1> QED
  BY <1>1, <1>2, TicketInvariant, PTL DEF GatedSpec


-----------------------------------------------------------------------------
(* RefundTicket, implemented. *)

LEMMA WorldInvariant == GatedSpec => [](guard \in Modes /\ env \in Environments)
<1> DEFINE World == guard \in Modes /\ env \in Environments
<1>1. GatedInit => World
  BY DEF GatedInit
<1>2. [GatedNext]_allVars => UNCHANGED worldVars
  BY DEF GatedNext, Agent, Client, Start, Inspect, RetryCheck, PreCheck, ReadTable, Before,
         Send, Wait, Recover, After, PostCheck, Guarded, Deliver, Lose, allVars
<1>3. World /\ [GatedNext]_allVars => World'
  BY <1>2 DEF worldVars
<1> QED
  BY <1>1, <1>3, PTL DEF GatedSpec

\* With earlier attempts settled, the ledger has the refund of the current one or nothing.
LEMMA PaidOnce ==
  ASSUME TicketInv, OneAttempt
  PROVE  Cardinality(TicketRefunds) = IF Succeeded("refund_order", attempt) THEN 1 ELSE 0
<1>1. attempt \in Attempts /\ attempt \in Keys /\ attempt \in Nat
  BY KeyFacts DEF TicketInv, TicketOK, Attempts
<1>2. ASSUME NEW i \in TicketRefunds  PROVE refunds[i].key = attempt
  <2>1. refunds[i].key \in Attempts /\ i \in DOMAIN refunds /\ refunds[i].key \in Keys
    BY KeyFacts DEF TicketRefunds
  <2>2. PICK r \in receipts : r.key = refunds[i].key /\ r.status = "SUCCEEDED"
    BY <2>1 DEF TicketInv, SandboxInv, ServiceInv, RefundsReceipted, Succeeded, existing
  <2>3. refunds[i].key <= attempt
    BY <2>1, <2>2 DEF TicketInv, TicketReceipts
  <2>4. ~(refunds[i].key < attempt)
    BY <2>1, <2>2 DEF OneAttempt, Unpaid
  <2> QED  BY <1>1, <2>1, <2>3, <2>4 DEF Attempts
<1>3. CASE Succeeded("refund_order", attempt)
  <2>1. PICK i \in DOMAIN refunds : refunds[i].key = attempt
    BY <1>1, <1>3 DEF TicketInv, SandboxInv, ServiceInv, RefundsReceipted
  <2>2. TicketRefunds = {i}
    BY <1>1, <1>2, <2>1 DEF TicketRefunds, TicketInv, SandboxInv, ServiceInv, KeysUnique
  <2> QED  BY <1>3, <2>2, FS_Singleton
<1>4. CASE ~Succeeded("refund_order", attempt)
  <2>1. TicketRefunds = {}
    BY <1>1, <1>2, <1>4
       DEF TicketRefunds, TicketInv, SandboxInv, ServiceInv, RefundsReceipted
  <2> QED  BY <1>4, <2>1, FS_EmptySet
<1> QED
  BY <1>3, <1>4

\* RuntimeGate, ToolGateway._dispatch, RefundAgent.handle: behind the gate no ticket is paid
\* twice, for any number of attempts, any loss and any other client, as long as the sandbox is
\* done with a request when its client's timeout fires.
THEOREM NoDuplicates ==
  ASSUME \A e \in Environments : "LATE" \notin e
  PROVE  GatedSpec => []NoDuplicateRefund
<1>1. TicketInv /\ PromptInv /\ env \in Environments => NoDuplicateRefund
  <2> SUFFICES ASSUME TicketInv, PromptInv, env \in Environments, guard
               PROVE  Cardinality(TicketRefunds) <= 1
    BY DEF NoDuplicateRefund
  <2>1. OneAttempt
    BY DEF PromptInv, Prompt
  <2> QED  BY <2>1, PaidOnce
<1> QED
  BY <1>1, TicketInvariant, PromptInvariant, WorldInvariant, PTL

\* A report is only made on an open ticket, and by a step that leaves the ledger alone; the
\* sandbox's steps keep what was paid.
LEMMA ReportStep ==
  ASSUME TicketInv, [GatedNext]_allVars
  PROVE  \/ UNCHANGED refunds /\ outcome' = outcome
         \/ UNCHANGED refunds /\ outcome = "OPEN"
         \/ /\ UNCHANGED <<outcome, attempt>>
            /\ Succeeded("refund_order", attempt) => Succeeded("refund_order", attempt)'
<1>1. CASE UNCHANGED allVars
  BY <1>1 DEF allVars, vars, domainVars, agentVars
<1>2. CASE Agent \/ Start
  <2>1. UNCHANGED vars /\ pc # "done"
    BY <1>2 DEF Agent, Start, Inspect, RetryCheck, PreCheck, ReadTable, Before, Send, Wait,
       Recover, After, PostCheck, Guarded
  <2> QED  BY <2>1 DEF TicketInv, TicketOK, vars, domainVars
<1>3. CASE Lose
  BY <1>3 DEF Lose, vars, domainVars, agentVars
<1>4. CASE Client \/ Deliver
  <2>1. PICK k \in Keys, act \in Actions : Executed(act, k)
    <3>1. CASE Client
      BY <3>1, KeyFacts, CommandExecuted DEF Client, TicketInv, SandboxInv
    <3>2. CASE Deliver
      <4>1. PICK m \in wire :
              execute("refund_order", m.key, CanRefundOrder(request.order, m.amount),
                      RefundOrder(request.order, m.amount, m.key))
        BY <3>2 DEF Deliver
      <4>2. m.key \in Keys /\ m.amount \in Nat /\ "refund_order" \in Actions
        BY KeyFacts DEF TicketInv, TicketOK, Actions, EffectOf
      <4> QED  BY <4>1, <4>2, RefundExecuted DEF TicketInv, SandboxInv
    <3> QED  BY <1>4, <3>1, <3>2
  <2>2. epoch' = epoch /\ receipts \subseteq receipts'
    BY <2>1, ExecutedFrame DEF TicketInv, SandboxInv
  <2>3. UNCHANGED <<outcome, attempt>>
    BY <1>4 DEF Client, Deliver, agentVars
  <2> QED  BY <2>2, <2>3 DEF Succeeded, existing
<1> QED
  BY <1>1, <1>2, <1>3, <1>4 DEF GatedNext

\* The runs of the gate against such a sandbox implement RefundTicket: money leaves at most
\* once, a ticket is COMPLETED only once it has, and a report is final.
THEOREM GateImplementsTicket ==
  ASSUME Modes \subseteq {TRUE}, \A e \in Environments : "LATE" \notin e
  PROVE  GatedSpec => ImplementsTicket
<1> DEFINE Inv == TicketInv /\ PromptInv /\ guard \in Modes /\ env \in Environments
           paid == Cardinality(TicketRefunds)
           Counted == paid = IF Succeeded("refund_order", attempt) THEN 1 ELSE 0
<1>1. Inv => Counted
  <2> SUFFICES ASSUME Inv  PROVE Counted
    OBVIOUS
  <2>1. TicketInv /\ OneAttempt
    BY DEF PromptInv, Prompt
  <2> QED  BY <2>1, PaidOnce
<1>1a. Inv' => Counted'
  <2> HIDE DEF Inv, Counted
  <2> QED  BY <1>1, PTL
<1>2. GatedInit => Ticket!TicketInit
  <2> SUFFICES ASSUME GatedInit  PROVE paid = 0 /\ outcome = "OPEN"
    BY DEF Ticket!TicketInit
  <2>1. TicketRefunds = {}
    BY DEF TicketRefunds, GatedInit, CommerceInit, Init, EmptyTables
  <2> QED  BY <2>1, FS_EmptySet DEF GatedInit
<1>3. Inv /\ Inv' /\ [GatedNext]_allVars => [Ticket!TicketNext]_(Ticket!ticketVars)
  <2> SUFFICES ASSUME Inv, Inv', [GatedNext]_allVars
               PROVE  Ticket!TicketNext \/ UNCHANGED <<paid, outcome>>
    BY DEF Ticket!ticketVars
  <2>1. Counted /\ Counted'
    <3> HIDE DEF Inv, Counted
    <3> QED  BY <1>1, <1>1a
  <2>2. /\ paid \in {0, 1} /\ paid' \in {0, 1}
        /\ outcome = "COMPLETED" => paid = 1
        /\ outcome' = "COMPLETED" => paid' = 1
        /\ outcome' \in {"OPEN", "COMPLETED", "ESCALATED"}
    BY <2>1 DEF TicketInv, TicketOK, Heard
  <2>3. UNCHANGED refunds => paid' = paid
    BY DEF TicketRefunds
  <2>4. CASE UNCHANGED refunds /\ outcome' = outcome
    BY <2>3, <2>4
  <2>5. CASE UNCHANGED refunds /\ outcome = "OPEN"
    <3> HIDE DEF Inv, paid
    <3> QED  BY <2>2, <2>3, <2>5 DEF Ticket!TicketNext, Ticket!Complete, Ticket!Escalate, paid
  <2>6. CASE /\ UNCHANGED <<outcome, attempt>>
             /\ Succeeded("refund_order", attempt) => Succeeded("refund_order", attempt)'
    <3>1. paid = 1 => paid' = 1
      BY <2>1, <2>6
    <3> QED  BY <2>2, <2>6, <3>1 DEF Ticket!TicketNext, Ticket!PayOut
  <2> QED  BY <2>4, <2>5, <2>6, ReportStep
<1> HIDE DEF paid
<1> QED
  BY <1>2, <1>3, TicketInvariant, PromptInvariant, WorldInvariant, PTL
     DEF GatedSpec, ImplementsTicket, Ticket!TicketSpec


-----------------------------------------------------------------------------
(* pre_check's budget: nobody writes between the check and the refund it lets through. *)

Quiet == guard /\ env \cap {"LATE", "OTHER"} = {}

\* The setup refunds at most once, all its commands being sent under one key; a refund that
\* was checked against the budget still fits in it when the sandbox executes it.
Budgeted ==
  /\ \A o \in DOMAIN orders : orders[o].refunded <= orders[o].paid
  /\ pc = "setup" /\ existing("refund_order", 0) = {} =>
       \A o \in DOMAIN orders : orders[o].refunded = 0
  /\ wire # {} \/ pc \in {"before", "send"} => WithinRefundBudget

BudgetInv == Quiet => Budgeted

\* No order's refunds grow, and no payment shrinks under a refund.
Kept ==
  \A p \in DOMAIN orders' :
    \/ orders'[p].refunded = 0
    \/ /\ p \in DOMAIN orders
       /\ orders'[p].refunded = orders[p].refunded /\ orders'[p].paid = orders[p].paid

LEMMA RefundedRow ==
  ASSUME TypeOK, NEW o \in DOMAIN orders, NEW a \in Nat, NEW k, RefundOrder(o, a, k)
  PROVE  /\ DOMAIN orders' = DOMAIN orders
         /\ \A p \in DOMAIN orders : p # o => orders'[p] = orders[p]
         /\ orders'[o].refunded = orders[o].refunded + a /\ orders'[o].paid = orders[o].paid
<1>1. orders \in Seq(Order) /\ orders[o] \in Order
  BY DEF TypeOK
<1> QED
  BY <1>1 DEF RefundOrder, Order

LEMMA CreateOrderKept ==
  ASSUME TypeOK, NEW a \in Amounts, NEW k, CreateOrder(a, k)
  PROVE  Kept
<1> DEFINE row == [original |-> a, discount |-> 0, paid |-> 0, refunded |-> 0, points |-> 0,
                   ledgerGrant |-> 0, ledgerRevoke |-> 0, status |-> "PENDING_PAYMENT",
                   coupon |-> 0]
<1>1. orders' = Append(orders, row) /\ orders \in Seq(Order)
  BY DEF CreateOrder, TypeOK
<1>2. /\ DOMAIN orders' = 1 .. Len(orders) + 1 /\ orders'[Len(orders) + 1] = row
      /\ \A p \in DOMAIN orders : orders'[p] = orders[p]
      /\ Len(orders) \in Nat /\ DOMAIN orders = 1 .. Len(orders)
  BY <1>1
<1> HIDE DEF row
<1>3. row.refunded = 0
  BY DEF row
<1> QED
  BY <1>2, <1>3 DEF Kept

LEMMA OrderUpdateKept ==
  ASSUME TypeOK, RefundWithinPaid, NEW o \in DOMAIN orders, NEW k,
         \/ \E c \in DOMAIN coupons : ApplyCoupon(o, c, k)
         \/ CanPayOrder(o) /\ PayOrder(o, k)
         \/ CancelOrder(o, k)
  PROVE  Kept
<1>1. orders \in Seq(Order) /\ orders[o] \in Order
  BY DEF TypeOK
<1>2. CASE CancelOrder(o, k)
  BY <1>1, <1>2 DEF CancelOrder, Order, Kept
<1>3. CASE \E c \in DOMAIN coupons : ApplyCoupon(o, c, k)
  <2>1. PICK c \in DOMAIN coupons : ApplyCoupon(o, c, k)
    BY <1>3
  <2>2. orders' = [orders EXCEPT ![o] = [orders[o] EXCEPT
                     !.discount = Lower(coupons[c].face, orders[o].original), !.coupon = c]]
    BY <2>1 DEF ApplyCoupon
  <2> QED  BY <1>1, <2>2 DEF Order, Kept
<1>4. CASE CanPayOrder(o) /\ PayOrder(o, k)
  <2>1. orders[o].refunded = 0
    BY <1>4 DEF CanPayOrder, RefundWithinPaid
  <2> QED  BY <1>1, <1>4, <2>1 DEF PayOrder, Order, Kept
<1> QED
  BY <1>2, <1>3, <1>4


\* The only command that adds to an order's refunds stores a receipt under its key.
RefundStored(k) ==
  \E o \in DOMAIN orders, a \in Nat :
    /\ existing("refund_order", k) = {}
    /\ CanRefundOrder(o, a) /\ RefundOrder(o, a, k)
    /\ ReceiptOf("refund_order", k, "SUCCEEDED") \in receipts'

LEMMA CommandKept ==
  ASSUME TypeOK, RefundWithinPaid, NEW k \in Keys, Command(k)
  PROVE  Kept \/ RefundStored(k)
<1>1. UNCHANGED orders => Kept
  BY DEF Kept
<1>2. ASSUME NEW a \in Amounts,
             execute("create_order", k, CanCreateOrder(a), CreateOrder(a, k))
      PROVE  Kept
  BY <1>1, <1>2, CreateOrderKept DEF execute, tables
<1>3. ASSUME NEW o \in OrderIds, NEW c \in CouponIds,
             execute("apply_coupon", k, CanApplyCoupon(o, c), ApplyCoupon(o, c, k))
      PROVE  Kept
  BY <1>1, <1>3, OrderUpdateKept DEF execute, tables, CanApplyCoupon
<1>4. ASSUME NEW o \in OrderIds, execute("pay_order", k, CanPayOrder(o), PayOrder(o, k))
      PROVE  Kept
  <2>1. CanPayOrder(o) => o \in DOMAIN orders
    BY DEF CanPayOrder
  <2> QED  BY <1>1, <1>4, <2>1, OrderUpdateKept DEF execute, tables
<1>5. ASSUME NEW o \in OrderIds, execute("cancel_order", k, CanCancelOrder(o), CancelOrder(o, k))
      PROVE  Kept
  BY <1>1, <1>5, OrderUpdateKept DEF execute, tables, CanCancelOrder
<1>6. ASSUME NEW o \in OrderIds, NEW a \in Amounts,
             execute("refund_order", k, CanRefundOrder(o, a), RefundOrder(o, a, k))
      PROVE  Kept \/ RefundStored(k)
  <2>1. CanRefundOrder(o, a) => o \in DOMAIN orders /\ a \in Nat
    BY ArgumentsAssumption DEF CanRefundOrder
  <2> QED  BY <1>1, <1>6, <2>1 DEF execute, tables, RefundStored, Store, ReceiptOf
<1>7. /\ \A b \in Balances : CreateUser(b, k) => UNCHANGED orders
      /\ \A v, t \in Amounts : IssueCoupon(v, t, k) => UNCHANGED orders
      /\ \A p \in PointAmounts : RedeemPoints(p, k) => UNCHANGED orders
      /\ \A a \in Amounts, q \in Quantities : ActivateMembership(a, q, k) => UNCHANGED orders
      /\ \A e \in MembershipIds, q \in Quantities :
           ConsumeEntitlement(e, q, k) => UNCHANGED orders
      /\ \A m \in MembershipIds, refund \in BOOLEAN :
           (\E e \in DOMAIN entitlements : /\ CanCancelMembership(m, refund, e)
                                           /\ CancelMembership(m, refund, e, k))
             => UNCHANGED orders
  BY DEF CreateUser, IssueCoupon, RedeemPoints, ActivateMembership, ConsumeEntitlement,
         CancelMembership
<1> QED
  BY <1>1, <1>2, <1>3, <1>4, <1>5, <1>6, <1>7 DEF Command, execute, tables


LEMMA ClientBudget ==
  ASSUME TicketInv, BudgetInv, Client
  PROVE  BudgetInv'
<1> SUFFICES ASSUME Quiet  PROVE Budgeted'
  BY DEF BudgetInv, Quiet, Client, worldVars
<1>1. Budgeted /\ Command(0) /\ pc = "setup" /\ wire = {} /\ UNCHANGED <<pc, wire>>
  BY DEF BudgetInv, Client, Quiet, agentVars, netVars, TicketInv, TicketOK
<1>2. TypeOK /\ RefundWithinPaid /\ 0 \in Keys
  BY KeyFacts DEF TicketInv, SandboxInv, OrdersInv
<1>3. \A p \in DOMAIN orders' : orders'[p].paid \in Nat /\ orders'[p].refunded \in Nat
  <2>1. TypeOK'
    BY <1>1, <1>2, CommandSandbox DEF TicketInv, SandboxInv
  <2>2. \A p \in DOMAIN orders' : orders'[p] \in Order
    BY <2>1 DEF TypeOK
  <2> QED  BY <2>2 DEF Order
<1>4. UNCHANGED epoch /\ receipts \subseteq receipts'
  BY <1>1, <1>2, CommandExecuted, ExecutedFrame
<1>5. CASE Kept
  BY <1>1, <1>3, <1>4, <1>5 DEF Budgeted, Kept, existing
<1>6. CASE RefundStored(0)
  <2>1. PICK o \in DOMAIN orders, a \in Nat : CanRefundOrder(o, a) /\ RefundOrder(o, a, 0)
    BY <1>6 DEF RefundStored
  <2>2. \A p \in DOMAIN orders : orders[p].refunded = 0
    BY <1>1, <1>6 DEF Budgeted, RefundStored
  <2>3. a <= orders[o].paid /\ orders[o] \in Order
    <3>1. orders[o] \in Order
      BY <1>2 DEF TypeOK
    <3> QED  BY <2>1, <2>2, <3>1 DEF CanRefundOrder, refundable, Order
  <2>4. \A p \in DOMAIN orders' : orders'[p].refunded <= orders'[p].paid
    <3>1. /\ DOMAIN orders' = DOMAIN orders
          /\ \A p \in DOMAIN orders : p # o => orders'[p] = orders[p]
          /\ orders'[o].refunded = orders[o].refunded + a /\ orders'[o].paid = orders[o].paid
      BY <1>2, <2>1, RefundedRow
    <3>2. orders[o].refunded = 0 /\ 0 + a = a
      BY <2>2
    <3> QED  BY <1>1, <2>3, <3>1, <3>2 DEF Budgeted
  <2>5. existing("refund_order", 0)' # {}
    BY <1>4, <1>6 DEF RefundStored, ReceiptOf, existing
  <2> QED  BY <1>1, <2>4, <2>5 DEF Budgeted
<1> QED
  BY <1>1, <1>2, <1>5, <1>6, CommandKept

LEMMA DeliverBudget ==
  ASSUME TicketInv, PromptInv, BudgetInv, Deliver
  PROVE  BudgetInv'
<1> SUFFICES ASSUME Quiet  PROVE Budgeted'
  BY DEF BudgetInv, Quiet, Deliver, worldVars
<1>1. PICK m \in wire :
        /\ execute("refund_order", m.key, CanRefundOrder(request.order, m.amount),
                   RefundOrder(request.order, m.amount, m.key))
        /\ wire' = wire \ {m}
        /\ UNCHANGED <<worldVars, agentVars>>
  BY DEF Deliver
<1>2. Budgeted /\ WithinRefundBudget
  BY DEF BudgetInv, Budgeted
<1>3. OneAttempt
  BY DEF PromptInv, Prompt, Quiet
<1>4. \A n \in wire : n.key = attempt /\ n.amount = amount
  BY <1>3 DEF OneAttempt, TicketInv, TicketOK
<1>5. wire' = {} /\ pc' \in {"wait", "done"} /\ amount \in Nat
  <2>1. \A n \in wire : n = m
    BY <1>4 DEF TicketInv, TicketOK
  <2> QED  BY <1>1, <1>3, <2>1 DEF OneAttempt, TicketInv, TicketOK, agentVars
<1>6. \A p \in DOMAIN orders' : orders'[p].refunded <= orders'[p].paid
  <2>1. CASE UNCHANGED orders
    BY <1>2, <2>1 DEF Budgeted
  <2>2. CASE CanRefundOrder(request.order, amount) /\ RefundOrder(request.order, amount, m.key)
    <3>1. request.order \in DOMAIN orders /\ TypeOK
      BY <2>2 DEF CanRefundOrder, TicketInv, SandboxInv
    <3> QED
      BY <1>2, <1>5, <2>2, <3>1, RefundedRow DEF Budgeted, WithinRefundBudget
  <2> QED  BY <1>1, <1>4, <2>1, <2>2 DEF execute, tables
<1> QED
  BY <1>5, <1>6 DEF Budgeted

LEMMA AgentBudget ==
  ASSUME TicketInv, PromptInv, BudgetInv, Start \/ Lose \/ Agent \/ UNCHANGED allVars
  PROVE  BudgetInv'
<1> SUFFICES ASSUME Quiet  PROVE Budgeted'
  BY DEF BudgetInv, Quiet, Start, Lose, Agent, Inspect, RetryCheck, PreCheck, ReadTable,
         Before, Send, Wait, Recover, After, PostCheck, Guarded, worldVars, allVars
<1>1. Budgeted /\ OneAttempt /\ guard
  BY DEF BudgetInv, PromptInv, Prompt, Quiet
<1>2. UNCHANGED <<orders, receipts, epoch, request>>
  BY DEF Start, Lose, Agent, Inspect, RetryCheck, PreCheck, ReadTable, Before, Send, Wait,
         Recover, After, PostCheck, Guarded, allVars, vars, domainVars, serviceVars, worldVars
<1>3. pc' = "setup" => pc = "setup"
  BY DEF Start, Lose, Agent, Inspect, RetryCheck, PreCheck, ReadTable, Before, Send, Wait,
         Recover, After, PostCheck, Guarded, allVars, agentVars, Goto, Result, Report, Sent,
         Answered, TimedOut, Disconnected, FirstCheck
<1>4. CASE UNCHANGED amount
  <2>1. wire' # {} \/ pc' \in {"before", "send"} => WithinRefundBudget
    <3>1. CASE PreCheck
      BY <1>1, <3>1 DEF PreCheck, Guarded, Goto, Result, Report, FirstCheck, netVars, Budgeted
    <3>2. CASE Send \/ Before \/ ReadTable \/ Lose \/ UNCHANGED allVars
      BY <1>1, <3>2 DEF Send, Before, ReadTable, Lose, allVars, agentVars, netVars, Guarded,
         Goto, Result, Report, FirstCheck, Budgeted
    <3>3. CASE Start \/ Inspect \/ RetryCheck \/ Recover \/ After \/ PostCheck \/ Wait
      <4>1. UNCHANGED wire /\ pc' \notin {"before", "send"}
        BY <1>1, <3>3 DEF Start, Inspect, RetryCheck, Recover, After, PostCheck, Wait, Guarded,
           netVars, Goto, Result, Report, FirstCheck, Sent, Answered, TimedOut, Disconnected
      <4> QED  BY <1>1, <4>1 DEF Budgeted
    <3> QED  BY <3>1, <3>2, <3>3 DEF Agent
  <2>2. WithinRefundBudget' <=> WithinRefundBudget
    BY <1>2, <1>4 DEF WithinRefundBudget, Decidable
  <2> QED  BY <1>1, <1>2, <1>3, <2>1, <2>2 DEF Budgeted, existing
<1>5. CASE Inspect
  <2>1. wire' = {} /\ pc' \notin {"before", "send"} /\ pc' # "setup"
    BY <1>1, <1>5 DEF Inspect, TicketInv, TicketOK, netVars, Goto, Report, FirstCheck
  <2> QED  BY <1>1, <1>2, <2>1 DEF Budgeted
<1> QED
  BY <1>4, <1>5 DEF Start, Lose, Agent, RetryCheck, PreCheck, ReadTable, Before, Send, Wait,
     Recover, After, PostCheck, Guarded, allVars, agentVars

\* RuntimeGate.pre_check, SandboxService: while nobody else writes and no request outlives its
\* client's patience, the gate keeps every order's refunds within its payment, also where the
\* sandbox checks each refund against the whole payment.
THEOREM BudgetHolds == GatedSpec => []GateHoldsBudget
<1>1. GatedInit => BudgetInv
  BY DEF GatedInit, CommerceInit, Init, EmptyTables, BudgetInv, Budgeted
<1>2. TicketInv /\ PromptInv /\ BudgetInv /\ [GatedNext]_allVars => BudgetInv'
  BY ClientBudget, DeliverBudget, AgentBudget DEF GatedNext
<1>3. BudgetInv => GateHoldsBudget
  BY DEF BudgetInv, Budgeted, Quiet, GateHoldsBudget
<1> QED
  BY <1>1, <1>2, <1>3, TicketInvariant, PromptInvariant, PTL DEF GatedSpec

-----------------------------------------------------------------------------
(* Without faults and other clients, in either mode: every attempt is settled by a receipt *)
(* before the next one begins, and a rejection stands.                                     *)

Calm == env = {}

Tried(k) == \E r \in receipts : r.key = k

Settled ==
  /\ wire # {} => pc = "wait"
  /\ \A m \in wire : m.key = attempt
  /\ wire # {} \/ pc \in Unsent => ~Tried(attempt)
  /\ \A k \in Attempts : k < attempt => Tried(k)
  /\ (pc = "wait" /\ wire = {}) \/ pc \in {"recover", "after", "post_check"} => Tried(attempt)
  /\ \A r \in receipts :
       r.key \in Attempts /\ r.status = "REJECTED" => ~CanRefundOrder(request.order, amount)
  /\ DOMAIN orders # {} => Supported("refund_order")

SettledInv == Calm => Settled

\* Only create_order adds a row, and only where refunds are supported.
LEMMA CommandOrders ==
  ASSUME TypeOK, NEW k \in Keys, Command(k)
  PROVE  DOMAIN orders' = DOMAIN orders \/ Supported("create_order")
<1>1. orders \in Seq(Order) /\ \A o \in DOMAIN orders : orders[o] \in Order
  BY DEF TypeOK
<1>2. ASSUME NEW o \in OrderIds, NEW c \in CouponIds,
             execute("apply_coupon", k, CanApplyCoupon(o, c), ApplyCoupon(o, c, k))
      PROVE  DOMAIN orders' = DOMAIN orders
  BY <1>1, <1>2 DEF execute, tables, ApplyCoupon
<1>3. ASSUME NEW o \in OrderIds, execute("pay_order", k, CanPayOrder(o), PayOrder(o, k))
      PROVE  DOMAIN orders' = DOMAIN orders
  BY <1>1, <1>3 DEF execute, tables, PayOrder
<1>4. ASSUME NEW o \in OrderIds, execute("cancel_order", k, CanCancelOrder(o), CancelOrder(o, k))
      PROVE  DOMAIN orders' = DOMAIN orders
  BY <1>1, <1>4 DEF execute, tables, CancelOrder
<1>5. ASSUME NEW o \in OrderIds, NEW a \in Amounts,
             execute("refund_order", k, CanRefundOrder(o, a), RefundOrder(o, a, k))
      PROVE  DOMAIN orders' = DOMAIN orders
  BY <1>1, <1>5 DEF execute, tables, RefundOrder
<1>6. ASSUME NEW a \in Amounts,
             execute("create_order", k, CanCreateOrder(a), CreateOrder(a, k))
      PROVE  UNCHANGED orders \/ Supported("create_order")
  BY <1>6 DEF execute, tables
<1>7. /\ \A b \in Balances : CreateUser(b, k) => UNCHANGED orders
      /\ \A v, t \in Amounts : IssueCoupon(v, t, k) => UNCHANGED orders
      /\ \A p \in PointAmounts : RedeemPoints(p, k) => UNCHANGED orders
      /\ \A a \in Amounts, q \in Quantities : ActivateMembership(a, q, k) => UNCHANGED orders
      /\ \A e \in MembershipIds, q \in Quantities :
           ConsumeEntitlement(e, q, k) => UNCHANGED orders
      /\ \A m \in MembershipIds, refund \in BOOLEAN :
           (\E e \in DOMAIN entitlements : /\ CanCancelMembership(m, refund, e)
                                           /\ CancelMembership(m, refund, e, k))
             => UNCHANGED orders
  BY DEF CreateUser, IssueCoupon, RedeemPoints, ActivateMembership, ConsumeEntitlement,
         CancelMembership
<1> QED
  BY <1>2, <1>3, <1>4, <1>5, <1>6, <1>7 DEF Command, execute, tables

LEMMA OrdersRefundable ==
  ASSUME TypeOK, Supported("create_order")
  PROVE  Supported("refund_order")
<1>1. scenario \in Scenarios
  BY DEF TypeOK
<1> QED
  BY <1>1 DEF Supported, scenario_actions, Scenarios

LEMMA ClientSettled ==
  ASSUME TicketInv, SettledInv, Client
  PROVE  SettledInv'
<1> SUFFICES ASSUME Calm  PROVE Settled'
  BY DEF SettledInv, Calm, Client, worldVars
<1>1. /\ Settled /\ Command(0) /\ pc = "setup" /\ wire = {} /\ attempt = 1
      /\ UNCHANGED <<pc, wire, attempt, amount, request>>
  BY DEF SettledInv, Client, Calm, worldVars, agentVars, netVars, TicketInv, TicketOK
<1>2. TypeOK /\ 0 \in Keys /\ 0 \notin Attempts /\ 1 \in Attempts
  BY KeyFacts DEF TicketInv, SandboxInv
<1>3. PICK act \in Actions : Executed(act, 0)
  BY <1>1, <1>2, CommandExecuted
<1>4. \A r \in receipts' : r \in receipts \/ r.key = 0
  BY <1>2, <1>3, ExecutedFrame
<1>5. \A r \in receipts' : r.key \notin Attempts
  BY <1>1, <1>2, <1>4 DEF TicketInv, TicketReceipts
<1>6. \A k \in Attempts : ~(k < 1)
  BY DEF Attempts
<1>7. UNCHANGED scenario
  BY <1>1 DEF Command, execute, run
<1>8. DOMAIN orders' # {} => Supported("refund_order")'
  <2>1. DOMAIN orders' # {} => Supported("refund_order")
    BY <1>1, <1>2, CommandOrders, OrdersRefundable DEF Settled
  <2> QED  BY <1>7, <2>1 DEF Supported
<1> QED
  BY <1>1, <1>2, <1>5, <1>6, <1>8 DEF Settled, Tried

LEMMA DeliverSettled ==
  ASSUME TicketInv, SettledInv, Deliver
  PROVE  SettledInv'
<1> SUFFICES ASSUME Calm  PROVE Settled'
  BY DEF SettledInv, Calm, Deliver, worldVars
<1>1. PICK m \in wire :
        /\ execute("refund_order", m.key, CanRefundOrder(request.order, m.amount),
                   RefundOrder(request.order, m.amount, m.key))
        /\ wire' = wire \ {m}
        /\ UNCHANGED <<worldVars, agentVars>>
  BY DEF Deliver
<1>2. /\ Settled /\ pc = "wait" /\ m.key = attempt /\ m.amount = amount /\ wire' = {}
      /\ UNCHANGED <<request, pc, attempt, amount>>
  <2>1. Settled /\ pc = "wait"
    BY DEF SettledInv, Settled
  <2>2. \A n \in wire : n.key = attempt /\ n.amount = amount
    BY <2>1 DEF Settled, TicketInv, TicketOK
  <2>3. \A n \in wire : n = m
    BY <2>2 DEF TicketInv, TicketOK
  <2> QED  BY <1>1, <2>1, <2>2, <2>3 DEF worldVars, agentVars
<1>3. /\ attempt \in Attempts /\ attempt \in Keys /\ amount \in Nat
      /\ ~Tried(attempt) /\ existing("refund_order", attempt) = {}
  BY <1>1, <1>2, KeyFacts DEF Settled, Tried, existing, TicketInv, TicketOK
<1>4. PICK status \in {"SUCCEEDED", "REJECTED"} :
        /\ receipts' = receipts \cup {[epoch |-> epoch, action |-> "refund_order",
                                       key |-> attempt, status |-> status]}
        /\ status = "SUCCEEDED" => /\ CanRefundOrder(request.order, amount)
                                   /\ RefundOrder(request.order, amount, attempt)
        /\ status = "REJECTED" =>
             /\ ~(Supported("refund_order") /\ CanRefundOrder(request.order, amount))
             /\ UNCHANGED tables
        /\ UNCHANGED run
  BY <1>1, <1>2, <1>3 DEF execute, Store
<1>5. DOMAIN orders' = DOMAIN orders /\ UNCHANGED scenario
  <2>1. CASE status = "SUCCEEDED"
    BY <1>4, <2>1, RefundedRow DEF CanRefundOrder, TicketInv, SandboxInv, run, RefundOrder
  <2>2. CASE status = "REJECTED"
    BY <1>4, <2>2 DEF tables, run
  <2> QED  BY <2>1, <2>2
<1>6. \A r \in receipts' :
        r.key \in Attempts /\ r.status = "REJECTED" => ~CanRefundOrder(request.order, amount)'
  <2>1. CASE status = "SUCCEEDED"
    BY <1>2, <1>4, <2>1 DEF Settled
  <2>2. CASE status = "REJECTED"
    <3>1. CanRefundOrder(request.order, amount) => DOMAIN orders # {}
      BY DEF CanRefundOrder
    <3>2. ~CanRefundOrder(request.order, amount)
      BY <1>2, <1>4, <2>2, <3>1 DEF Settled
    <3>3. ~CanRefundOrder(request.order, amount)'
      BY <1>2, <1>4, <2>2, <3>2 DEF CanRefundOrder, refundable, Revocable, revoke_delta,
         target_revoke, tables, run, Promotion, RefundPoints, Axis
    <3> QED  BY <3>3
  <2> QED  BY <2>1, <2>2
<1>7. Tried(attempt)' /\ \A k : Tried(k) => Tried(k)'
  <2>1. \E r \in receipts' : r.key = attempt
    <3> DEFINE x == [epoch |-> epoch, action |-> "refund_order", key |-> attempt, status |-> status]
    <3>1. x.key = attempt /\ x \in receipts'
      BY <1>4
    <3> HIDE DEF x
    <3> QED  BY <3>1
  <2>2. \A k : Tried(k) => Tried(k)'
    BY <1>4 DEF Tried
  <2> QED  BY <1>2, <2>1, <2>2 DEF Tried
<1>8. DOMAIN orders' # {} => Supported("refund_order")'
  BY <1>2, <1>5 DEF Settled, Supported
<1> QED
  BY <1>2, <1>6, <1>7, <1>8 DEF Settled, Unsent

\* What the agent's own steps leave alone.
LEMMA AgentFrame ==
  ASSUME UNCHANGED <<vars, request, amount>>
  PROVE  /\ \A k : Tried(k)' <=> Tried(k)
         /\ UNCHANGED receipts
         /\ CanRefundOrder(request.order, amount)' <=> CanRefundOrder(request.order, amount)
         /\ DOMAIN orders' = DOMAIN orders /\ (Supported("refund_order")' <=> Supported("refund_order"))
  BY DEF vars, domainVars, serviceVars, Tried, CanRefundOrder, refundable, Revocable,
         revoke_delta, target_revoke, Promotion, RefundPoints, Axis, Supported

\* The agent takes the result of an attempt; one that is retried has its receipt.
LEMMA ResultSettled ==
  ASSUME TicketInv, SettledInv, NEW r, Result(r),
         UNCHANGED <<vars, worldVars, amount, wire>>, pc \notin {"setup", "inspect", "done"},
         Calm => wire = {} /\ (r \in retryable => Tried(attempt))
  PROVE  SettledInv'
<1> SUFFICES ASSUME Calm  PROVE Settled'
  BY DEF SettledInv, Calm, worldVars
<1>1. Settled /\ wire = {} /\ UNCHANGED <<request, wire>>
  BY DEF SettledInv, worldVars
<1>2. attempt \in Attempts /\ attempt \in Nat
  BY DEF TicketInv, TicketOK, Attempts
<1>3. CASE pc' = "done" /\ attempt' = attempt
  BY <1>1, <1>3, AgentFrame DEF Settled, Unsent
<1>4. CASE r \in retryable /\ attempt < max_attempts /\ attempt' = attempt + 1 /\ pc' = FirstCheck
  <2>1. pc' \in {"retry_check", "send"}
    BY <1>4 DEF FirstCheck
  <2>2. \A k \in Attempts : k < attempt' => Tried(k)
    <3>1. \A k \in Attempts : k < attempt' => k < attempt \/ k = attempt
      BY <1>2, <1>4 DEF Attempts
    <3> QED  BY <1>1, <1>4, <3>1 DEF Settled
  <2>3. ~Tried(attempt')
    <3>1. attempt' \in Attempts
      BY <1>2, <1>4, AttemptsAssumption DEF Attempts
    <3>2. \A x \in receipts : x.key \in Attempts => x.key <= attempt
      BY DEF TicketInv, TicketReceipts
    <3> QED  BY <1>2, <1>4, <3>1, <3>2 DEF Tried
  <2>4. ~Tried(attempt)'
    BY <1>1, <2>3, AgentFrame DEF Tried
  <2> QED  BY <1>1, <2>1, <2>2, <2>4, AgentFrame DEF Settled
<1> QED
  BY <1>3, <1>4 DEF Result, Report

LEMMA GotoSettled ==
  ASSUME TicketInv, SettledInv, NEW next, Goto(next),
         UNCHANGED <<vars, worldVars, amount, wire>>,
         Calm => wire = {},
         Calm /\ next \in Unsent => pc \in Unsent,
         Calm /\ next \notin Unsent => Tried(attempt)
  PROVE  SettledInv'
<1> SUFFICES ASSUME Calm  PROVE Settled'
  BY DEF SettledInv, Calm, worldVars
<1>1. Settled /\ wire = {} /\ UNCHANGED <<request, wire, attempt>> /\ pc' = next
  BY DEF SettledInv, worldVars, Goto
<1>2. Tried(attempt)' <=> Tried(attempt)
  BY <1>1, AgentFrame DEF Tried
<1> QED
  BY <1>1, <1>2, AgentFrame DEF Settled, Unsent

LEMMA SentSettled ==
  ASSUME TicketInv, SettledInv, NEW r, Sent(r), UNCHANGED <<vars, worldVars, amount, wire>>,
         pc \in {"wait", "recover"}, Calm => wire = {} /\ Tried(attempt)
  PROVE  SettledInv'
<1>1. Goto("recover") \/ Goto("after") \/ Result(r)
  BY DEF Sent
<1> QED
  BY <1>1, GotoSettled, ResultSettled DEF Unsent

LEMMA GuardSettled ==
  ASSUME TicketInv, SettledInv, RetryCheck \/ PreCheck \/ Before \/ Recover \/ After \/ PostCheck
  PROVE  SettledInv'
<1>1. /\ pc \in {"retry_check", "pre_check", "before", "recover", "after", "post_check"}
      /\ UNCHANGED <<vars, worldVars, amount, wire>>
  BY DEF RetryCheck, PreCheck, Before, Recover, After, PostCheck, Guarded, netVars
<1>2. Calm => wire = {} /\ (pc \in {"recover", "after", "post_check"} => Tried(attempt))
  BY <1>1 DEF SettledInv, Settled
<1>3. ASSUME NEW r, Result(r), r \in {"UNKNOWN", "REFUSED", "SUCCEEDED"}  PROVE SettledInv'
  BY <1>1, <1>2, <1>3, ResultSettled DEF retryable
<1>4. CASE RetryCheck
  <2>1. ASSUME NEW r \in receipt_of(attempt), Result(from_receipt(r.status))
        PROVE  SettledInv'
    <3>1. Tried(attempt)
      BY DEF receipt_of, Tried
    <3> QED  BY <1>1, <1>2, <2>1, <3>1, ResultSettled
  <2>2. pc = "retry_check" /\ pc \in Unsent /\ "pre_check" \in Unsent
    BY <1>4 DEF RetryCheck, Guarded, Unsent
  <2>3. CASE Goto("pre_check")
    BY <1>1, <1>2, <2>2, <2>3, GotoSettled
  <2> QED  BY <1>3, <1>4, <2>1, <2>3 DEF RetryCheck, Guarded
<1>5. CASE PreCheck \/ Before
  <2>1. pc \in Unsent /\ "before" \in Unsent /\ "send" \in Unsent
    BY <1>5 DEF PreCheck, Before, Guarded, Unsent
  <2>2. CASE Goto("before") \/ Goto("send")
    BY <1>1, <1>2, <2>1, <2>2, GotoSettled
  <2> QED  BY <1>3, <1>5, <2>2 DEF PreCheck, Before, Guarded
<1>6. CASE Recover
  <2>1. pc = "recover"
    BY <1>6 DEF Recover, Guarded
  <2>2. CASE Result("TIMEOUT")
    BY <1>1, <1>2, <2>1, <2>2, ResultSettled
  <2>3. ASSUME NEW r, Sent(r)  PROVE SettledInv'
    BY <1>1, <1>2, <2>1, <2>3, SentSettled
  <2> QED  BY <1>3, <1>6, <2>2, <2>3 DEF Recover, Guarded
<1>7. CASE After \/ PostCheck
  <2>1. pc \in {"after", "post_check"} /\ "post_check" \notin Unsent
    BY <1>7 DEF After, PostCheck, Guarded, Unsent
  <2>2. CASE Goto("post_check")
    BY <1>1, <1>2, <2>1, <2>2, GotoSettled
  <2> QED  BY <1>3, <1>7, <2>2 DEF After, PostCheck, Guarded
<1> QED
  BY <1>4, <1>5, <1>6, <1>7

LEMMA WaitSettled ==
  ASSUME TicketInv, SettledInv, Wait
  PROVE  SettledInv'
<1>1. pc = "wait" /\ UNCHANGED <<vars, worldVars, amount, wire>>
  BY DEF Wait
<1>2. PICK r : Sent(r) /\ (Calm => ~Waiting)
  <2>1. CASE Answered
    BY <1>1, <2>1 DEF Answered, TicketInv, Heard
  <2>2. CASE TimedOut
    BY <2>2 DEF TimedOut, Calm
  <2>3. CASE Disconnected
    BY <2>3 DEF Disconnected, Calm
  <2> QED  BY <2>1, <2>2, <2>3 DEF Wait
<1>3. Calm => wire = {}
  BY <1>2 DEF SettledInv, Settled, Waiting
<1>4. Calm => Tried(attempt)
  BY <1>1, <1>3 DEF SettledInv, Settled
<1> QED
  BY <1>1, <1>2, <1>3, <1>4, SentSettled

LEMMA SettledStep ==
  ASSUME TicketInv, SettledInv, [GatedNext]_allVars
  PROVE  SettledInv'
<1>1. CASE UNCHANGED <<vars, worldVars, amount, wire, pc, attempt>>
  <2> SUFFICES ASSUME Calm  PROVE Settled'
    BY <1>1 DEF SettledInv, Calm, worldVars
  <2>1. Settled /\ UNCHANGED request
    BY <1>1 DEF SettledInv, worldVars
  <2>2. Tried(attempt)' <=> Tried(attempt)
    BY <1>1, AgentFrame, <2>1 DEF Tried
  <2> QED  BY <1>1, <2>1, <2>2, AgentFrame DEF Settled
<1>2. CASE UNCHANGED allVars \/ ReadTable
  BY <1>1, <1>2 DEF allVars, ReadTable, agentVars, netVars
<1>3. CASE Lose
  BY <1>3 DEF Lose, SettledInv, Calm, worldVars
<1>4. CASE Start
  <2>1. pc = "setup" /\ Goto("inspect") /\ UNCHANGED <<vars, worldVars, amount, wire>> /\ wire = {}
    BY <1>4 DEF Start, netVars, TicketInv, TicketOK
  <2> QED  BY <2>1, GotoSettled DEF Unsent
<1>5. CASE Inspect
  <2> SUFFICES ASSUME Calm  PROVE Settled'
    BY <1>5 DEF SettledInv, Calm, Inspect, worldVars
  <2>1. /\ pc = "inspect" /\ Settled /\ wire = {} /\ attempt = 1
        /\ UNCHANGED <<vars, attempt, wire>> /\ pc' \in {"done", "retry_check", "send"}
    BY <1>5 DEF Inspect, SettledInv, Report, Goto, FirstCheck, netVars, TicketInv, TicketOK
  <2>2. \A x \in receipts : x.key \notin Attempts
    BY <2>1 DEF TicketInv, TicketReceipts
  <2>3. UNCHANGED <<receipts, orders, scenario>>
    BY <2>1 DEF vars, domainVars, serviceVars
  <2>4. \A k \in Attempts : ~(k < 1)
    BY DEF Attempts
  <2>5. ~Tried(attempt)' /\ ~Tried(attempt)
    BY <2>1, <2>2, <2>3, KeyFacts DEF Tried
  <2> QED  BY <2>1, <2>2, <2>3, <2>4, <2>5 DEF Settled, Supported, Unsent
<1>6. CASE Send
  <2> SUFFICES ASSUME Calm  PROVE Settled'
    BY <1>6 DEF SettledInv, Calm, Send, worldVars
  <2>1. /\ pc = "send" /\ pc' = "wait" /\ Settled /\ wire = {}
        /\ UNCHANGED <<vars, request, amount, attempt>>
        /\ wire' = wire \cup {[key |-> attempt, amount |-> amount]}
    BY <1>6 DEF Send, SettledInv, Settled, Goto, worldVars
  <2>2. Tried(attempt)' <=> Tried(attempt)
    BY <2>1, AgentFrame DEF Tried
  <2>3. wire' # {} /\ \A m \in wire' : m.key = attempt
    BY <2>1
  <2>4. /\ \A k \in Attempts : k < attempt' => Tried(k)'
        /\ \A r \in receipts' :
             r.key \in Attempts /\ r.status = "REJECTED" => ~CanRefundOrder(request.order, amount)'
        /\ DOMAIN orders' # {} => Supported("refund_order")'
    BY <2>1, AgentFrame DEF Settled
  <2>5. ~Tried(attempt)
    BY <2>1 DEF Settled, Unsent
  <2> QED  BY <2>1, <2>2, <2>3, <2>4, <2>5 DEF Settled
<1>7. CASE Agent
  BY <1>2, <1>5, <1>6, <1>7, GuardSettled, WaitSettled DEF Agent
<1> QED
  BY <1>2, <1>3, <1>4, <1>7, ClientSettled, DeliverSettled DEF GatedNext

\* Without faults, in either mode, an attempt is only followed by another once the sandbox has
\* answered it for good, and a rejected refund stays impossible.
THEOREM SettledInvariant == GatedSpec => []SettledInv
<1>1. GatedInit => SettledInv
  <2> SUFFICES ASSUME GatedInit  PROVE Settled
    BY DEF SettledInv
  <2>1. wire = {} /\ receipts = {} /\ attempt = 1 /\ pc = "setup" /\ DOMAIN orders = {}
    BY DEF GatedInit, CommerceInit, Init, EmptyTables
  <2>2. \A k \in Attempts : ~(k < 1)
    BY DEF Attempts
  <2> QED  BY <2>1, <2>2 DEF Settled, Tried
<1>2. TicketInv /\ SettledInv /\ [GatedNext]_allVars => SettledInv'
  BY SettledStep
<1> QED
  BY <1>1, <1>2, TicketInvariant, PTL DEF GatedSpec

-----------------------------------------------------------------------------
(* Without a gate and with every acknowledgement lost. *)

Deaf == ~guard /\ Calm /\ Axis("REFUND_ACK_LOST")

BareInv ==
  Deaf =>
    /\ reply = "NONE" /\ outcome # "COMPLETED"
    /\ pc \in {"setup", "inspect", "send", "wait", "done"}
    /\ outcome = "ESCALATED" =>
         \/ ~CanRefundOrder(request.order, amount)
         \/ attempt = max_attempts /\ Tried(attempt)

LEMMA BareStep ==
  ASSUME TicketInv, SettledInv, BareInv, [GatedNext]_allVars
  PROVE  BareInv'
<1>0. UNCHANGED <<guard, env, request, axes>>
  BY DEF GatedNext, Client, Start, Deliver, Lose, Agent, Inspect, RetryCheck, PreCheck, ReadTable,
         Before, Send, Wait, Recover, After, PostCheck, Guarded, allVars, worldVars, vars,
         domainVars, Command, execute, run
<1> SUFFICES ASSUME Deaf, Deaf'  PROVE BareInv'
  BY <1>0 DEF BareInv, Deaf, Calm, Axis
<1>1. /\ ~guard /\ env = {} /\ Axis("REFUND_ACK_LOST") /\ Settled
      /\ reply = "NONE" /\ outcome # "COMPLETED"
      /\ pc \in {"setup", "inspect", "send", "wait", "done"}
      /\ outcome \in {"OPEN", "COMPLETED", "ESCALATED"} /\ (outcome = "OPEN" <=> pc # "done")
  BY DEF BareInv, Deaf, Calm, SettledInv, TicketInv, TicketOK
<1>2. CASE UNCHANGED allVars
  <2>1. UNCHANGED <<vars, request, amount, reply, pc, outcome, attempt>>
    BY <1>0, <1>2 DEF allVars, agentVars, netVars
  <2>2. Tried(attempt)' <=> Tried(attempt)
    BY <2>1, AgentFrame DEF Tried
  <2> QED  BY <2>1, <2>2, AgentFrame DEF BareInv
<1>3. CASE Client \/ Deliver
  <2>1. UNCHANGED <<pc, outcome, amount, attempt>> /\ pc \in {"setup", "wait"}
    BY <1>1, <1>3 DEF Client, Deliver, agentVars, Settled
  <2>2. UNCHANGED reply
    BY <1>1, <1>3 DEF Client, Deliver, netVars
  <2> QED  BY <1>1, <2>1, <2>2 DEF BareInv
<1>4. CASE Start \/ Send
  BY <1>1, <1>4 DEF Start, Send, Goto, netVars, BareInv
<1>5. CASE Inspect
  <2>1. /\ UNCHANGED reply /\ UNCHANGED vars
        /\ \/ ~Decidable /\ Report("ESCALATED") /\ UNCHANGED amount
           \/ Goto("send")
    BY <1>1, <1>5 DEF Inspect, Unreadable, FirstCheck, netVars
  <2>2. ~Decidable => ~CanRefundOrder(request.order, amount)
    BY DEF Decidable, CanRefundOrder, REFUNDABLE_ORDER_STATES
  <2>3. CASE ~Decidable /\ Report("ESCALATED") /\ UNCHANGED amount
    <3>1. ~CanRefundOrder(request.order, amount)'
      BY <1>0, <2>1, <2>2, <2>3, AgentFrame
    <3> QED  BY <1>1, <2>1, <2>3, <3>1 DEF BareInv, Report
  <2>4. CASE Goto("send")
    BY <1>1, <1>5, <2>1, <2>4 DEF BareInv, Goto, Inspect
  <2> QED  BY <2>1, <2>3, <2>4
<1>6. CASE Wait
  <2>1. /\ pc = "wait" /\ reply' = "NONE" /\ UNCHANGED <<vars, amount, wire>>
        /\ ~Waiting /\ Result("TIMEOUT")
    BY <1>1, <1>6 DEF Wait, Answered, TimedOut, Disconnected, Sent
  <2>2. Tried(attempt)
    BY <1>1, <2>1 DEF Settled, Waiting
  <2>3. CASE attempt = max_attempts /\ Report("ESCALATED")
    <3>1. attempt' = max_attempts /\ Tried(attempt)'
      BY <1>0, <2>1, <2>2, <2>3, AgentFrame DEF Report, Tried
    <3> QED  BY <1>1, <2>1, <2>3, <3>1 DEF BareInv, Report
  <2>4. CASE pc' = FirstCheck /\ UNCHANGED outcome
    BY <1>1, <2>1, <2>4 DEF BareInv, FirstCheck
  <2> QED  BY <2>1, <2>3, <2>4 DEF Result, retryable
<1>7. ~(RetryCheck \/ PreCheck \/ ReadTable \/ Before \/ Recover \/ After \/ PostCheck \/ Lose)
  BY <1>1 DEF RetryCheck, PreCheck, ReadTable, Before, Recover, After, PostCheck, Guarded, Lose
<1> QED
  BY <1>2, <1>3, <1>4, <1>5, <1>6, <1>7 DEF GatedNext, Agent

\* Every attempt tried and none rejected: each of them paid out.
LEMMA AllPaid ==
  ASSUME TicketInv, \A k \in Attempts : \E r \in receipts : r.key = k /\ r.status = "SUCCEEDED"
  PROVE  Cardinality(TicketRefunds) = max_attempts
<1> DEFINE f == [i \in TicketRefunds |-> refunds[i].key]
<1>1. ServiceInv /\ TypeOK /\ epoch = 0
  BY DEF TicketInv, SandboxInv, TicketOK
<1>2. \A k \in Attempts : Succeeded("refund_order", k)
  BY <1>1 DEF TicketInv, TicketReceipts, Succeeded, existing
<1>3. \A k \in Attempts : \E i \in TicketRefunds : refunds[i].key = k
  <2>1. \A k \in Attempts : \E i \in DOMAIN refunds : refunds[i].key = k
    BY <1>1, <1>2, KeyFacts DEF ServiceInv, RefundsReceipted
  <2> QED  BY <2>1 DEF TicketRefunds
<1>4. f \in Surjection(TicketRefunds, Attempts) /\ f \in Injection(TicketRefunds, Attempts)
  <2>1. \A i \in TicketRefunds : refunds[i].key \in Attempts
    BY DEF TicketRefunds
  <2>2. \A i, j \in TicketRefunds : refunds[i].key = refunds[j].key => i = j
    BY <1>1 DEF TicketRefunds, ServiceInv, KeysUnique
  <2> QED  BY <1>3, <2>1, <2>2 DEF Surjection, Injection, IsInjective
<1>5. IsFiniteSet(Attempts) /\ Cardinality(Attempts) = max_attempts
  BY KeyFacts, FS_Interval DEF Attempts
<1> HIDE DEF f
<1> QED
  BY <1>4, <1>5, FS_Injection

\* RefundAgent without a gate: with every acknowledgement lost it never claims a refund, and
\* for any number of attempts it stops only when they are used up, each having paid out once
\* more, or when the order can give no more.
THEOREM BareAgentRepeats == GatedSpec => []BareRepeats
<1>1. GatedInit => BareInv
  BY DEF GatedInit, BareInv
<1>2. TicketInv /\ SettledInv /\ BareInv /\ [GatedNext]_allVars => BareInv'
  BY BareStep
<1>3. TicketInv /\ SettledInv /\ BareInv => BareRepeats
  <2> SUFFICES ASSUME TicketInv, SettledInv, BareInv, Deaf, outcome # "OPEN"
               PROVE  /\ outcome = "ESCALATED"
                      /\ \/ Cardinality(TicketRefunds) = max_attempts
                         \/ ~CanRefundOrder(request.order, amount)
    BY DEF BareRepeats, Deaf, Calm
  <2>1. outcome = "ESCALATED" /\ Settled
    BY DEF BareInv, TicketInv, TicketOK, SettledInv, Deaf
  <2>2. ASSUME CanRefundOrder(request.order, amount)
        PROVE  Cardinality(TicketRefunds) = max_attempts
    <3>1. attempt = max_attempts /\ Tried(attempt)
      BY <2>1, <2>2 DEF BareInv
    <3>2. \A k \in Attempts : Tried(k)
      <4>1. \A k \in Attempts : k = max_attempts \/ k < max_attempts
        BY KeyFacts DEF Attempts
      <4> QED  BY <2>1, <3>1, <4>1 DEF Settled
    <3>3. \A r \in receipts : r.key \in Attempts => r.status = "SUCCEEDED"
      <4>1. \A r \in receipts : r.status \in {"SUCCEEDED", "REJECTED"}
        BY DEF TicketInv, SandboxInv, ServiceInv, ReceiptsOK, Receipt
      <4> QED  BY <2>1, <2>2, <4>1 DEF Settled
    <3>4. \A k \in Attempts : \E r \in receipts : r.key = k /\ r.status = "SUCCEEDED"
      BY <3>2, <3>3 DEF Tried
    <3> QED  BY <3>4, AllPaid
  <2> QED  BY <2>1, <2>2
<1> QED
  BY <1>1, <1>2, <1>3, TicketInvariant, SettledInvariant, PTL DEF GatedSpec

-----------------------------------------------------------------------------
(* Behind the gate and without faults: what the gate saw is what there was. *)

\* The first n tables of a snapshot.
Part(n) == [i \in 1 .. n |-> snapshot[i]]

LEMMA SnapshotParts ==
  /\ Len(snapshot) = 5 /\ Part(5) = snapshot /\ Part(0) = <<>>
  /\ \A n \in 0 .. 4 : Len(Part(n)) = n /\ Append(Part(n), snapshot[n + 1]) = Part(n + 1)
<1>1. PICK s : s = snapshot
  OBVIOUS
<1>2. Len(s) = 5 /\ DOMAIN s = 1 .. 5 /\ s = [i \in 1 .. 5 |-> s[i]]
  <2>1. \A a, b, c, d, e :
          LET t == <<a, b, c, d, e>> IN Len(t) = 5 /\ DOMAIN t = 1 .. 5 /\ t = [i \in 1 .. 5 |-> t[i]]
    OBVIOUS
  <2> QED  BY <1>1, <2>1 DEF snapshot
<1>3. \A n : Part(n) = [i \in 1 .. n |-> s[i]]
  BY <1>1 DEF Part
<1>4. Part(0) = <<>>
  BY <1>3
<1>5. ASSUME NEW n \in 0 .. 4  PROVE Len(Part(n)) = n /\ Append(Part(n), s[n + 1]) = Part(n + 1)
  <2> DEFINE T == {s[i] : i \in 1 .. 5}
             p == [i \in 1 .. n |-> s[i]]
  <2>1. p \in Seq(T) /\ Len(p) = n
    OBVIOUS
  <2>2. s[n + 1] \in T
    OBVIOUS
  <2>3. Append(p, s[n + 1]) = [i \in 1 .. n + 1 |-> s[i]]
    <3> HIDE DEF T
    <3>1. /\ Append(p, s[n + 1]) = [i \in 1 .. n + 1 |-> IF i <= n THEN p[i] ELSE s[n + 1]]
      BY <2>1, <2>2
    <3> QED  BY <3>1
  <2> QED  BY <1>3, <2>1, <2>3
<1> QED
  BY <1>1, <1>2, <1>3, <1>4, <1>5

Reading == {"before", "after", "post_check"}
Written == {"send", "wait", "recover", "after", "post_check"}

Watched ==
  /\ IF pc \in Reading THEN \E n \in 0 .. 4 : reading = Part(n) ELSE reading = <<>>
  /\ pc \in Written => (before = snapshot <=> ~Succeeded("refund_order", attempt))
  /\ pc = "post_check" => after = snapshot
  /\ outcome = "ESCALATED" =>
       /\ ~Succeeded("refund_order", attempt)
       /\ ~(Decidable /\ CanRefundOrder(request.order, amount) /\ WithinRefundBudget)

WatchedInv == guard /\ Calm => Watched

\* A complete view is the snapshot, while it stays as it is.
LEMMA WholeView ==
  ASSUME NEW n \in 0 .. 4, reading = Part(n), Viewed
  PROVE  View = snapshot
<1>1. View = Append(Part(n), snapshot[5])
  BY SnapshotParts DEF View
<1>2. n = 4
  <2>1. Len(Append(Part(n), snapshot[5])) = n + 1
    <3>1. Part(n) \in Seq({snapshot[i] : i \in 1 .. 5} )
      BY DEF Part
    <3> QED  BY <3>1, SnapshotParts
  <2> QED  BY <1>1, <2>1, SnapshotParts DEF Viewed
<1>3. Append(Part(4), snapshot[5]) = Part(5)
  <2>1. 4 \in 0 .. 4 /\ 4 + 1 = 5
    OBVIOUS
  <2> QED  BY <2>1, SnapshotParts
<1> QED
  BY <1>1, <1>2, <1>3, SnapshotParts

\* An executed refund shows.
LEMMA RefundShows ==
  ASSUME TypeOK, NEW o \in DOMAIN orders, NEW a \in Nat \ {0}, NEW k, RefundOrder(o, a, k)
  PROVE  snapshot' # snapshot
<1>1. /\ DOMAIN orders' = DOMAIN orders
      /\ orders'[o].refunded = orders[o].refunded + a
      /\ orders[o].refunded \in Nat
  <2>1. orders[o] \in Order
    BY DEF TypeOK
  <2> QED  BY <2>1, RefundedRow DEF Order
<1>2. orders'[o].refunded # orders[o].refunded
  BY <1>1
<1>3. /\ snapshot[3][o]["refunded"] = orders[o].refunded
      /\ snapshot'[3][o]["refunded"] = orders'[o].refunded
  <2>1. /\ snapshot[3] = [p \in DOMAIN orders |-> ShownOrder(orders[p])]
        /\ snapshot'[3] = [p \in DOMAIN orders' |-> ShownOrder(orders'[p])]
    BY DEF snapshot
  <2> QED  BY <1>1, <2>1 DEF ShownOrder
<1> QED
  BY <1>2, <1>3

\* A step of the agent leaves the sandbox as it is.
LEMMA WatchFrame ==
  ASSUME UNCHANGED <<vars, worldVars, amount>>
  PROVE  /\ UNCHANGED <<snapshot, guard, env, request, receipts>> /\ \A n : Part(n)' = Part(n)
         /\ \A k : Succeeded("refund_order", k)' <=> Succeeded("refund_order", k)
         /\ CanRefundOrder(request.order, amount)' <=> CanRefundOrder(request.order, amount)
         /\ Decidable' <=> Decidable
         /\ WithinRefundBudget' <=> WithinRefundBudget
<1>1. UNCHANGED <<user, coupons, orders, memberships, entitlements, scenario, axes, receipts, epoch>>
  BY DEF vars, domainVars, serviceVars
<1>2. UNCHANGED <<guard, env, request>>
  BY DEF worldVars
<1>3. UNCHANGED snapshot
  BY <1>1 DEF snapshot
<1>4. \A n : Part(n)' = Part(n)
  BY <1>3 DEF Part
<1>5. \A k : Succeeded("refund_order", k)' <=> Succeeded("refund_order", k)
  BY SucceededUnchanged
<1>6. CanRefundOrder(request.order, amount)' <=> CanRefundOrder(request.order, amount)
  BY <1>2, AgentFrame
<1> QED
  BY <1>1, <1>2, <1>3, <1>4, <1>5, <1>6 DEF Decidable, WithinRefundBudget

\* The agent takes a result; an escalation needs a refund that was not possible.
LEMMA ResultWatched ==
  ASSUME TicketInv, NEW r, Result(r), UNCHANGED <<vars, worldVars, amount>>, reading' = <<>>,
         pc # "done", guard /\ Calm,
         r # "SUCCEEDED" =>
           /\ ~Succeeded("refund_order", attempt)
           /\ ~(Decidable /\ CanRefundOrder(request.order, amount) /\ WithinRefundBudget)
  PROVE  Watched'
<1>1. /\ pc' \in {"done", "retry_check"} /\ outcome = "OPEN"
      /\ outcome' = "ESCALATED" => r # "SUCCEEDED" /\ attempt' = attempt
  BY DEF Result, Report, FirstCheck, TicketInv, TicketOK
<1>2. Succeeded("refund_order", attempt)' => Succeeded("refund_order", attempt')
  BY WatchFrame DEF Succeeded, existing
<1> QED
  BY <1>1, WatchFrame, <1>2 DEF Watched, Reading, Written

\* The gateway goes on to its next step.
LEMMA GotoWatched ==
  ASSUME TicketInv, Watched, NEW next, Goto(next), UNCHANGED <<vars, worldVars, amount>>,
         pc # "done", next # "done", reading' = <<>>,
         next \in Written =>
           (before' = snapshot <=> ~Succeeded("refund_order", attempt)),
         next = "post_check" => after' = snapshot
  PROVE  Watched'
<1>1. pc' = next /\ attempt' = attempt /\ outcome' = outcome /\ outcome = "OPEN"
  BY DEF Goto, TicketInv, TicketOK
<1>2. Succeeded("refund_order", attempt)' <=> Succeeded("refund_order", attempt)
  BY <1>1, WatchFrame DEF Succeeded, existing
<1>3. \E n \in 0 .. 4 : reading' = Part(n)'
  BY SnapshotParts, WatchFrame
<1> QED
  BY <1>1, <1>2, <1>3, WatchFrame DEF Watched

\* Facts of the receipts of an attempt.
LEMMA Verdicts ==
  ASSUME TicketInv, SettledInv, Calm, NEW r \in receipts, r.key = attempt
  PROVE  /\ r.status = "SUCCEEDED" => Succeeded("refund_order", attempt)
         /\ r.status # "SUCCEEDED" => /\ ~Succeeded("refund_order", attempt)
                                      /\ ~CanRefundOrder(request.order, amount)
<1>1. attempt \in Attempts /\ r.action = "refund_order" /\ r.epoch = 0 /\ epoch = 0
  BY DEF TicketInv, TicketOK, TicketReceipts
<1>2. r.status # "SUCCEEDED" => r.status = "REJECTED"
  BY DEF TicketInv, SandboxInv, ServiceInv, ReceiptsOK, Receipt
<1>3. r.status # "SUCCEEDED" => ~Succeeded("refund_order", attempt)
  <2> SUFFICES ASSUME r.status # "SUCCEEDED", Succeeded("refund_order", attempt)  PROVE FALSE
    OBVIOUS
  <2>1. Unpaid(attempt)
    BY RejectedUnpaid
  <2> QED  BY <2>1 DEF Unpaid, Succeeded, existing
<1>4. r.status # "SUCCEEDED" => ~CanRefundOrder(request.order, amount)
  BY <1>1, <1>2 DEF SettledInv, Settled
<1> QED
  BY <1>1, <1>3, <1>4 DEF Succeeded, existing

LEMMA SentWatched ==
  ASSUME TicketInv, SettledInv, Watched, guard /\ Calm, NEW r \in receipts, r.key = attempt,
         Sent(from_receipt(r.status)), UNCHANGED <<vars, worldVars, amount, before, after>>,
         reading' = <<>>, pc \in {"wait", "recover"}
  PROVE  Watched'
<1>1. CASE r.status = "SUCCEEDED"
  <2>1. Goto("after")
    BY <1>1 DEF Sent, from_receipt
  <2> QED  BY <2>1, GotoWatched DEF Watched, Written
<1>2. CASE r.status # "SUCCEEDED"
  <2>1. Result("FAILED")
    BY <1>2 DEF Sent, from_receipt
  <2> QED  BY <1>2, <2>1, Verdicts, ResultWatched
<1> QED
  BY <1>1, <1>2

LEMMA GuardWatched ==
  ASSUME TicketInv, SettledInv, Watched, guard /\ Calm,
         RetryCheck \/ PreCheck \/ Before \/ Recover \/ After \/ PostCheck
  PROVE  Watched'
<1>1. UNCHANGED <<vars, worldVars, amount>> /\ reading' = <<>> /\ ~Unreadable /\ Settled
  BY DEF RetryCheck, PreCheck, Before, Recover, After, PostCheck, Guarded, netVars, Unreadable,
         Calm, SettledInv
<1>2. epoch = 0 /\ \A r \in receipts : r.epoch = 0
  BY DEF TicketInv, TicketOK, TicketReceipts
<1>3. pc \in Unsent => ~Tried(attempt) /\ ~Succeeded("refund_order", attempt)
  BY <1>1 DEF Settled, Tried, Succeeded, existing
<1>4. CASE RetryCheck
  <2>1. pc = "retry_check" /\ receipt_of(attempt) = {}
    BY <1>3, <1>4 DEF RetryCheck, Guarded, Unsent, receipt_of, Tried
  <2>2. Goto("pre_check")
    BY <1>1, <1>4, <2>1 DEF RetryCheck, Guarded
  <2> QED  BY <1>1, <2>1, <2>2, GotoWatched DEF Written
<1>5. CASE PreCheck
  <2>1. pc = "pre_check" /\ ~Succeeded("refund_order", attempt)
    BY <1>3, <1>5 DEF PreCheck, Guarded, Unsent
  <2>2. CASE amount = 0 /\ Result("UNKNOWN")
    <3>1. ~CanRefundOrder(request.order, amount)
      BY <2>2 DEF CanRefundOrder
    <3> QED  BY <1>1, <2>1, <2>2, <3>1, ResultWatched
  <2>3. CASE ~WithinRefundBudget /\ Result("REFUSED")
    BY <1>1, <2>1, <2>3, ResultWatched
  <2>4. CASE Goto("before")
    BY <1>1, <2>1, <2>4, GotoWatched DEF Written
  <2> QED  BY <1>1, <1>5, <2>2, <2>3, <2>4 DEF PreCheck, Guarded
<1>6. ASSUME pc \in Reading, Viewed  PROVE View = snapshot
  BY <1>6, WholeView DEF Watched
<1>7. CASE Before
  <2>1. pc = "before" /\ Viewed /\ before' = View /\ Goto("send")
    BY <1>1, <1>7 DEF Before, Guarded
  <2>2. before' = snapshot /\ ~Succeeded("refund_order", attempt)
    BY <1>3, <1>6, <2>1 DEF Reading, Unsent
  <2> QED  BY <1>1, <2>1, <2>2, GotoWatched
<1>8. CASE Recover
  <2>1. pc = "recover" /\ Tried(attempt) /\ UNCHANGED <<before, after>>
    BY <1>1, <1>8 DEF Recover, Guarded, Settled
  <2>2. receipt_of(attempt) # {}
    BY <1>2, <2>1 DEF Tried, receipt_of
  <2>3. PICK r \in receipt_of(attempt) : Sent(from_receipt(r.status))
    BY <1>1, <1>8, <2>2 DEF Recover, Guarded
  <2>4. r \in receipts /\ r.key = attempt
    BY DEF receipt_of
  <2> QED  BY <1>1, <2>1, <2>3, <2>4, SentWatched
<1>9. CASE After
  <2>1. pc = "after" /\ Viewed /\ after' = View /\ Goto("post_check") /\ UNCHANGED before
    BY <1>1, <1>9 DEF After, Guarded
  <2>2. after' = snapshot /\ (before = snapshot <=> ~Succeeded("refund_order", attempt))
    BY <1>6, <2>1 DEF Reading, Watched, Written
  <2> QED  BY <1>1, <2>1, <2>2, GotoWatched
<1>10. CASE PostCheck
  <2>1. /\ pc = "post_check" /\ Viewed
        /\ Result(IF View = after /\ View # before THEN "SUCCEEDED" ELSE "UNKNOWN")
    BY <1>1, <1>10 DEF PostCheck, Guarded
  <2>2. View = snapshot /\ after = snapshot /\ before # snapshot
    BY <1>6, <2>1 DEF Reading, Watched, Written, TicketInv, Heard
  <2>3. Result("SUCCEEDED")
    BY <2>1, <2>2
  <2> QED  BY <1>1, <2>1, <2>3, ResultWatched
<1> QED
  BY <1>4, <1>5, <1>7, <1>8, <1>9, <1>10

LEMMA WaitWatched ==
  ASSUME TicketInv, SettledInv, Watched, guard /\ Calm, Wait
  PROVE  Watched'
<1>1. /\ pc = "wait" /\ UNCHANGED <<vars, worldVars, amount, before, after, reading>>
      /\ reading = <<>>
  BY DEF Wait, viewVars, Watched, Reading
<1>2. CASE Answered
  <2>1. reply # "NONE" /\ Sent(from_receipt(reply))
    BY <1>2 DEF Answered
  <2>2. PICK r \in existing("refund_order", attempt) : r.status = reply
    BY <1>1, <2>1 DEF TicketInv, Heard
  <2>3. r \in receipts /\ r.key = attempt
    BY DEF existing
  <2> QED  BY <1>1, <2>1, <2>2, <2>3, SentWatched
<1>3. CASE TimedOut
  <2>1. Goto("recover")
    BY <1>3 DEF TimedOut, Sent
  <2> QED  BY <1>1, <2>1, GotoWatched DEF Watched, Written
<1>4. ~Disconnected
  BY DEF Disconnected, Calm
<1> QED
  BY <1>2, <1>3, <1>4 DEF Wait

LEMMA QuietWatched ==
  ASSUME TicketInv, Watched, guard /\ Calm, UNCHANGED allVars \/ ReadTable \/ Send \/ Start \/ Inspect
  PROVE  Watched'
<1>1. CASE UNCHANGED <<vars, worldVars, agentVars>>
  <2>1. UNCHANGED <<amount, pc, attempt, before, after, reading, outcome>>
    BY <1>1 DEF agentVars, viewVars
  <2>2. Succeeded("refund_order", attempt)' <=> Succeeded("refund_order", attempt)
    BY <1>1, <2>1, WatchFrame DEF Succeeded, existing
  <2> QED  BY <1>1, <2>1, <2>2, WatchFrame DEF Watched
<1>2. CASE ReadTable
  <2>1. /\ pc \in Reading /\ Len(reading) + 1 < 5
        /\ reading' = Append(reading, snapshot[Len(reading) + 1])
        /\ UNCHANGED <<vars, worldVars, amount, pc, attempt, before, after, outcome>>
    BY <1>2, SnapshotParts DEF ReadTable, Reading
  <2>2. PICK n \in 0 .. 4 : reading = Part(n)
    BY <2>1 DEF Watched
  <2>3. Len(reading) = n /\ n + 1 \in 0 .. 4 /\ reading' = Part(n + 1)
    BY <2>1, <2>2, SnapshotParts
  <2>4. Part(n + 1)' = Part(n + 1)
    BY <2>1, WatchFrame
  <2>5. \E k \in 0 .. 4 : reading' = Part(k)'
    BY <2>1, <2>3, WatchFrame
  <2>6. Succeeded("refund_order", attempt)' <=> Succeeded("refund_order", attempt)
    BY <2>1, WatchFrame DEF Succeeded, existing
  <2> QED  BY <2>1, <2>5, <2>6, WatchFrame DEF Watched
<1>3. CASE Send
  <2>1. /\ pc = "send" /\ Goto("wait") /\ reading = <<>>
        /\ UNCHANGED <<vars, worldVars, amount, before, after, reading>>
    BY <1>3 DEF Send, viewVars, Watched, Reading
  <2> QED  BY <2>1, GotoWatched DEF Watched, Written
<1>4. CASE Start
  <2>1. /\ pc = "setup" /\ Goto("inspect") /\ reading = <<>>
        /\ UNCHANGED <<vars, worldVars, amount, before, after, reading>>
    BY <1>4 DEF Start, viewVars, Watched, Reading
  <2> QED  BY <2>1, GotoWatched DEF Written
<1>5. CASE Inspect
  <2>1. /\ pc = "inspect" /\ reading' = <<>> /\ UNCHANGED <<vars, worldVars, attempt>>
        /\ \/ ~Decidable /\ pc' = "done" /\ UNCHANGED amount
           \/ pc' = "retry_check" /\ UNCHANGED outcome
    BY <1>5 DEF Inspect, viewVars, Watched, Reading, Unreadable, Calm, Report, Goto, FirstCheck
  <2>2. ~Succeeded("refund_order", attempt)
    BY <2>1 DEF TicketInv, TicketOK, TicketReceipts, Succeeded, existing
  <2>3. outcome = "OPEN" /\ ~Succeeded("refund_order", attempt)'
    BY <2>1, <2>2 DEF TicketInv, TicketOK, Succeeded, existing, vars, serviceVars
  <2>4. CASE ~Decidable /\ pc' = "done" /\ UNCHANGED amount
    <3>1. ~Decidable'
      BY <2>1, <2>4, WatchFrame
    <3> QED  BY <2>1, <2>3, <2>4, <3>1 DEF Watched, Reading, Written
  <2>5. CASE pc' = "retry_check" /\ UNCHANGED outcome
    BY <2>1, <2>3, <2>5 DEF Watched, Reading, Written
  <2> QED  BY <2>1, <2>4, <2>5
<1> QED
  BY <1>1, <1>2, <1>3, <1>4, <1>5 DEF allVars

LEMMA SandboxWatched ==
  ASSUME TicketInv, SettledInv, Watched, guard /\ Calm, Client \/ Deliver
  PROVE  Watched'
<1>1. UNCHANGED <<pc, attempt, before, after, reading, outcome>>
  BY DEF Client, Deliver, agentVars, viewVars
<1>2. CASE Client
  <2>1. pc = "setup" /\ outcome = "OPEN"
    BY <1>2 DEF Client, Calm, TicketInv, TicketOK
  <2> QED  BY <1>1, <2>1 DEF Watched, Reading, Written
<1>3. CASE Deliver
  <2>1. PICK m \in wire :
          /\ execute("refund_order", m.key, CanRefundOrder(request.order, m.amount),
                     RefundOrder(request.order, m.amount, m.key))
          /\ UNCHANGED <<worldVars, agentVars>>
    BY <1>3 DEF Deliver
  <2>2. /\ pc = "wait" /\ m.key = attempt /\ m.amount = amount /\ amount \in Nat
        /\ existing("refund_order", attempt) = {} /\ outcome = "OPEN"
    BY <2>1 DEF SettledInv, Settled, Tried, existing, TicketInv, TicketOK
  <2>3. before = snapshot /\ reading = <<>>
    BY <2>2 DEF Watched, Reading, Written, Succeeded
  <2>4. before = snapshot' <=> ~Succeeded("refund_order", attempt)'
    <3>1. CASE /\ CanRefundOrder(request.order, amount) /\ RefundOrder(request.order, amount, attempt)
               /\ Store("refund_order", attempt, "SUCCEEDED") /\ UNCHANGED epoch
      <4>1. Succeeded("refund_order", attempt)'
        <5> DEFINE x == [epoch |-> epoch, action |-> "refund_order", key |-> attempt,
                         status |-> "SUCCEEDED"]
        <5>1. /\ x \in receipts' /\ x.epoch = epoch /\ x.action = "refund_order"
              /\ x.key = attempt /\ x.status = "SUCCEEDED"
          BY <3>1 DEF Store
        <5> HIDE DEF x
        <5> QED  BY <1>1, <3>1, <5>1 DEF Succeeded, existing
      <4>2. request.order \in DOMAIN orders /\ amount \in Nat \ {0}
        BY <2>2, <3>1 DEF CanRefundOrder
      <4>3. snapshot' # snapshot
        BY <3>1, <4>2, RefundShows DEF TicketInv, SandboxInv
      <4> QED  BY <2>3, <4>1, <4>3
    <3>2. CASE UNCHANGED <<tables, epoch>> /\ Store("refund_order", attempt, "REJECTED")
      <4>1. snapshot' = snapshot
        BY <3>2 DEF tables, snapshot
      <4>2. ~Succeeded("refund_order", attempt)'
        BY <1>1, <2>2, <3>2 DEF Succeeded, existing, Store
      <4> QED  BY <2>3, <4>1, <4>2
    <3> QED  BY <2>1, <2>2, <3>1, <3>2 DEF execute
  <2> QED  BY <1>1, <2>2, <2>3, <2>4 DEF Watched, Reading
<1> QED
  BY <1>2, <1>3

LEMMA WatchedStep ==
  ASSUME TicketInv, SettledInv, WatchedInv, [GatedNext]_allVars
  PROVE  WatchedInv'
<1>1. UNCHANGED <<guard, env>>
  BY DEF GatedNext, Client, Start, Deliver, Lose, Agent, Inspect, RetryCheck, PreCheck, ReadTable,
         Before, Send, Wait, Recover, After, PostCheck, Guarded, allVars, worldVars
<1> SUFFICES ASSUME guard /\ Calm  PROVE Watched'
  BY <1>1 DEF WatchedInv, Calm
<1>2. Watched /\ ~Lose
  BY DEF WatchedInv, Lose, Calm
<1> QED
  BY <1>2, GuardWatched, WaitWatched, QuietWatched, SandboxWatched DEF GatedNext, Agent

\* RuntimeGate: without faults and other clients, acknowledgements lost or not, the gate stops a
\* ticket only if its refund was not possible, and then nothing was paid out.
THEOREM NothingBlockedFalsely == GatedSpec => []NoFalseBlock
<1>1. GatedInit => WatchedInv
  BY DEF GatedInit, WatchedInv, Watched, Reading, Written
<1>2. TicketInv /\ SettledInv /\ WatchedInv /\ [GatedNext]_allVars => WatchedInv'
  BY WatchedStep
<1>3. TicketInv /\ PromptInv /\ WatchedInv => NoFalseBlock
  <2> SUFFICES ASSUME TicketInv, PromptInv, WatchedInv, guard, env = {}, outcome = "ESCALATED"
               PROVE  /\ TicketRefunds = {}
                      /\ ~(Decidable /\ CanRefundOrder(request.order, amount) /\ WithinRefundBudget)
    BY DEF NoFalseBlock
  <2>1. Watched /\ OneAttempt
    BY DEF WatchedInv, Calm, PromptInv, Prompt
  <2>2. Cardinality(TicketRefunds) = 0
    BY <2>1, PaidOnce DEF Watched
  <2>3. IsFiniteSet(TicketRefunds)
    <3>1. Len(refunds) \in Nat /\ DOMAIN refunds = 1 .. Len(refunds)
      BY DEF TicketInv, SandboxInv, TypeOK
    <3>2. IsFiniteSet(1 .. Len(refunds)) /\ TicketRefunds \in SUBSET (1 .. Len(refunds))
      BY <3>1, FS_Interval DEF TicketRefunds
    <3> QED  BY <3>2, FS_Subset
  <2> QED  BY <2>1, <2>2, <2>3, FS_EmptySet DEF Watched
<1> QED
  BY <1>1, <1>2, <1>3, TicketInvariant, PromptInvariant, SettledInvariant, PTL DEF GatedSpec
===========================================================================
