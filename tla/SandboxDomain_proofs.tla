------------------------ MODULE SandboxDomain_proofs ------------------------
(***************************************************************************)
(* Proofs about the sandbox tables, for every set of runs, arguments and   *)
(* bounds: first the types, then memberships and entitlements, then orders *)
(* and coupons, then the points ledger; and about what the Oracle reads of *)
(* them: the money, the books and the evidence, then its verdicts.         *)
(***************************************************************************)
EXTENDS SandboxOracle, Sums_proofs, SequenceTheorems, TLAPS

\* Replacing one row of a table.
LEMMA UpdateRow ==
  ASSUME NEW S, NEW t \in Seq(S), NEW i \in DOMAIN t, NEW e \in S
  PROVE  /\ [t EXCEPT ![i] = e] \in Seq(S)
         /\ DOMAIN [t EXCEPT ![i] = e] = DOMAIN t
         /\ Len([t EXCEPT ![i] = e]) = Len(t)
         /\ [t EXCEPT ![i] = e][i] = e
         /\ \A j \in DOMAIN t : j # i => [t EXCEPT ![i] = e][j] = t[j]
  OBVIOUS

\* Writing a row that is not there changes nothing.
LEMMA UpdateNoRow ==
  ASSUME NEW S, NEW t \in Seq(S), NEW i, i \notin DOMAIN t, NEW e
  PROVE  [t EXCEPT ![i] = e] = t
  OBVIOUS

\* Adding a row to a table.
LEMMA AppendRow ==
  ASSUME NEW S, NEW t \in Seq(S), NEW e \in S
  PROVE  /\ DOMAIN Append(t, e) = DOMAIN t \cup {Len(t) + 1}
         /\ Append(t, e)[Len(t) + 1] = e
         /\ \A i \in DOMAIN t : i # Len(t) + 1 /\ Append(t, e)[i] = t[i]
  OBVIOUS

\* An event built by a handler is a well-formed row.
LEMMA EvType ==
  ASSUME NEW type \in BusinessEventType, NEW id \in Nat, NEW amount \in Nat, NEW k \in Keys
  PROVE  /\ Ev(type, id, amount, k) \in BusinessEvent
         /\ <<Ev(type, id, amount, k)>> \in Seq(BusinessEvent)
  BY DEF Ev, BusinessEvent

\* Appending well-formed events keeps the log well formed.
LEMMA EmitType ==
  ASSUME TypeOK, NEW new \in Seq(BusinessEvent), Emit(new)
  PROVE  events' \in Seq(BusinessEvent)
  BY DEF TypeOK, Emit

\* The points of an amount are a natural number.
LEMMA PointsForType ==
  ASSUME NEW amount \in Nat
  PROVE  points_for(amount) \in Nat
  BY UnitAssumption DEF points_for

\* Revocation targets and steps are natural numbers.
LEMMA RevokeType ==
  ASSUME NEW o \in Order, NEW refunded \in Nat, o.paid > 0
  PROVE  target_revoke(o, refunded) \in Nat /\ revoke_delta(o, refunded) \in Nat
<1>1. o.points \in Nat /\ o.paid \in Nat /\ o.ledgerRevoke \in Nat
  BY DEF Order
<1>2. o.points * refunded \in Nat
  BY <1>1
<1>3. (o.points * refunded) \div o.paid \in Nat
  BY <1>1, <1>2
<1>4. target_revoke(o, refunded) \in Nat
  BY <1>1, <1>3 DEF target_revoke
<1> QED
  BY <1>1, <1>4 DEF revoke_delta

\* The handlers preserve the types of the rows they write, one lemma per handler.
LEMMA CreateUserType ==
  ASSUME TypeOK, NEW b \in Balances, NEW k \in Keys, CreateUser(b, k), UNCHANGED run
  PROVE  TypeOK'
<1>1. user' \in User
  BY ArgumentsAssumption DEF CreateUser, User
<1>2. events' \in Seq(BusinessEvent)
  <2>1. <<Ev("USER_CREATED", 1, 0, k)>> \in Seq(BusinessEvent)
    BY EvType DEF BusinessEventType
  <2> QED  BY <2>1, EmitType DEF CreateUser
<1> QED
  BY <1>1, <1>2 DEF TypeOK, CreateUser, run

LEMMA IssueCouponType ==
  ASSUME TypeOK, NEW v \in Amounts, NEW t \in Amounts, NEW k \in Keys,
         IssueCoupon(v, t, k), UNCHANGED run
  PROVE  TypeOK'
<1>1. v \in Nat /\ t \in Nat /\ Len(coupons) + 1 \in Nat
  BY ArgumentsAssumption DEF TypeOK
<1>2. coupons' \in Seq(Coupon)
  BY <1>1 DEF IssueCoupon, TypeOK, Coupon, CouponStatus
<1>3. events' \in Seq(BusinessEvent)
  <2>1. <<Ev("COUPON_ISSUED", Len(coupons) + 1, 0, k)>> \in Seq(BusinessEvent)
    BY <1>1, EvType DEF BusinessEventType
  <2> QED  BY <2>1, EmitType DEF IssueCoupon
<1> QED
  BY <1>2, <1>3 DEF TypeOK, IssueCoupon, run

LEMMA CreateOrderType ==
  ASSUME TypeOK, NEW a \in Amounts, NEW k \in Keys, CreateOrder(a, k), UNCHANGED run
  PROVE  TypeOK'
<1>1. a \in Nat BY ArgumentsAssumption
<1>2. Len(orders)+1 \in Nat BY DEF TypeOK
<1>3. events' \in Seq(BusinessEvent)
  <2>1. <<Ev("ORDER_CREATED", Len(orders) + 1, 0, k)>> \in Seq(BusinessEvent)
     BY <1>2, EvType DEF BusinessEventType
  <2> QED BY <2>1, EmitType DEF CreateOrder
<1>4. orders' \in Seq(Order)
   BY <1>1 DEF CreateOrder, TypeOK, Order, OrderStatus
<1> QED BY <1>3, <1>4 DEF TypeOK, CreateOrder, run

LEMMA PayOrderType ==
  ASSUME TypeOK, NEW o \in DOMAIN orders, NEW k \in Keys,
         CanPayOrder(o), PayOrder(o, k), UNCHANGED run
  PROVE  TypeOK'
<1> DEFINE paid   == orders[o].original - orders[o].discount
           points == IF RefundPoints THEN points_for(paid) ELSE 0
           grant == orders[o].ledgerGrant + points
           c      == orders[o].coupon
           row == [orders[o] EXCEPT !.paid = paid, !.status = "PAID",
                                    !.points = points, !.ledgerGrant = grant]
<1>0. orders[o] \in Order /\ o \in Nat
  BY DEF TypeOK
<1>1. paid \in Nat /\ c \in Nat
  BY <1>0 DEF CanPayOrder, Order
<1>2. points \in Nat
  BY <1>1, PointsForType
<1>3. grant \in Nat
  BY <1>0, <1>2 DEF Order
<1>4. orders' = [orders EXCEPT ![o] = row]
  BY DEF PayOrder
<1>9. row \in Order
  <2> HIDE DEF paid, points, grant
  <2> QED BY <1>0, <1>1, <1>2, <1>3 DEF Order, OrderStatus
<1>5. orders' \in Seq(Order)
  <2> HIDE DEF row
  <2> QED BY <1>4, <1>9, UpdateRow DEF TypeOK
<1>10. user' = [user EXCEPT !.balance = user.balance - paid, !.points = user.points + points]
  BY DEF PayOrder
<1>6. user' \in User
  <2>1. user.balance - paid \in Int /\ user.points + points \in Int
    BY <1>1, <1>2 DEF TypeOK, User
  <2> DEFINE b == user.balance - paid  q == user.points + points
  <2> HIDE DEF b, q
  <2> QED BY <2>1, <1>10 DEF TypeOK, User, b, q
<1>7. coupons' \in Seq(Coupon)
  <2>1. CASE c = 0 BY <2>1 DEF PayOrder, TypeOK
  <2>2. CASE c # 0
    <3> DEFINE u == coupons[c].usage + 1
               crow == [coupons[c] EXCEPT !.status = "USED", !.reserved = 0, !.used = o, !.usage = u]
    <3>1. c \in DOMAIN coupons BY <2>2 DEF CanPayOrder, HoldsCoupon
    <3>2. coupons[c] \in Coupon BY <3>1 DEF TypeOK
    <3>3. u \in Nat BY <3>2 DEF Coupon
    <3>4. crow \in Coupon
       <4> HIDE DEF u
       <4> QED BY <1>0, <3>2, <3>3 DEF Coupon, CouponStatus
    <3>5. coupons' = [coupons EXCEPT ![c] = crow] BY <2>2 DEF PayOrder
    <3> HIDE DEF crow
    <3> QED BY <3>1, <3>4, <3>5, UpdateRow DEF TypeOK
  <2> QED BY <2>1, <2>2
<1>8. events' \in Seq(BusinessEvent)
  <2>1. /\ When(c # 0, <<Ev("COUPON_USED", c, 0, k)>>) \in Seq(BusinessEvent)
        /\ <<Ev("PAYMENT_CAPTURED", o, paid, k)>> \in Seq(BusinessEvent)
        /\ When(RefundPoints, <<Ev("POINTS_GRANTED", o, points, k)>>) \in Seq(BusinessEvent)
    <3> HIDE DEF paid, points, c
    <3>1. /\ <<Ev("COUPON_USED", c, 0, k)>> \in Seq(BusinessEvent)
          /\ <<Ev("PAYMENT_CAPTURED", o, paid, k)>> \in Seq(BusinessEvent)
          /\ <<Ev("POINTS_GRANTED", o, points, k)>> \in Seq(BusinessEvent)
      BY <1>0, <1>1, <1>2, EvType DEF BusinessEventType
    <3> QED BY <3>1 DEF When
  <2>2. Emit(When(c # 0, <<Ev("COUPON_USED", c, 0, k)>>)
          \o <<Ev("PAYMENT_CAPTURED", o, paid, k)>>
          \o When(RefundPoints, <<Ev("POINTS_GRANTED", o, points, k)>>))
     BY DEF PayOrder
  <2>3. When(c # 0, <<Ev("COUPON_USED", c, 0, k)>>)
          \o <<Ev("PAYMENT_CAPTURED", o, paid, k)>>
          \o When(RefundPoints, <<Ev("POINTS_GRANTED", o, points, k)>>) \in Seq(BusinessEvent)
     <3> HIDE DEF paid, points, c
     <3> QED BY <2>1
  <2> QED BY <2>3, <2>2, EmitType
<1> QED
  BY <1>5, <1>6, <1>7, <1>8 DEF TypeOK, PayOrder, run

LEMMA ApplyCouponType ==
  ASSUME TypeOK, NEW o \in DOMAIN orders, NEW c \in DOMAIN coupons, NEW k \in Keys,
         ApplyCoupon(o, c, k), UNCHANGED run
  PROVE  TypeOK'
<1> DEFINE discount == Lower(coupons[c].face, orders[o].original)
           row  == [orders[o] EXCEPT !.discount = discount, !.coupon = c]
           crow == [coupons[c] EXCEPT !.status = "RESERVED", !.reserved = o]
<1>1. orders[o] \in Order /\ coupons[c] \in Coupon /\ o \in Nat /\ c \in Nat
  BY DEF TypeOK
<1>2. discount \in Nat
  BY <1>1 DEF Order, Coupon, Lower
<1>3. row \in Order
  <2> HIDE DEF discount
  <2> QED  BY <1>1, <1>2 DEF Order
<1>4. crow \in Coupon
  BY <1>1 DEF Coupon, CouponStatus
<1>5. orders' = [orders EXCEPT ![o] = row] /\ coupons' = [coupons EXCEPT ![c] = crow]
  BY DEF ApplyCoupon
<1>6. orders' \in Seq(Order) /\ coupons' \in Seq(Coupon)
  <2> HIDE DEF row, crow
  <2> QED  BY <1>3, <1>4, <1>5, UpdateRow DEF TypeOK
<1>7. events' \in Seq(BusinessEvent)
  <2>1. <<Ev("COUPON_RESERVED", c, 0, k)>> \in Seq(BusinessEvent)
    BY <1>1, EvType DEF BusinessEventType
  <2> QED  BY <2>1, EmitType DEF ApplyCoupon
<1> QED
  BY <1>6, <1>7 DEF TypeOK, ApplyCoupon, run

LEMMA CancelOrderType ==
  ASSUME TypeOK, NEW o \in DOMAIN orders, NEW k \in Keys, CancelOrder(o, k), UNCHANGED run
  PROVE  TypeOK'
<1> DEFINE c       == orders[o].coupon
           restore == c # 0 /\ HoldsCoupon(o)
           row     == [orders[o] EXCEPT !.status = "CANCELLED"]
           crow    == [coupons[c] EXCEPT !.status = "RESTORED", !.reserved = 0]
<1>0. orders[o] \in Order /\ o \in Nat
  BY DEF TypeOK
<1>1. orders[o] \in Order /\ o \in Nat /\ c \in Nat
  BY <1>0 DEF Order
<1>2. row \in Order
  BY <1>1 DEF Order, OrderStatus
<1>3. orders' = [orders EXCEPT ![o] = row]
  BY DEF CancelOrder
<1>4. orders' \in Seq(Order)
  <2> HIDE DEF row
  <2> QED  BY <1>2, <1>3, UpdateRow DEF TypeOK
<1>5. coupons' \in Seq(Coupon)
  <2>1. CASE ~restore
    BY <2>1 DEF CancelOrder, TypeOK
  <2>2. CASE restore
    <3>1. c \in DOMAIN coupons /\ coupons[c] \in Coupon
      BY <2>2 DEF HoldsCoupon, TypeOK
    <3>2. crow \in Coupon
      BY <3>1 DEF Coupon, CouponStatus
    <3>3. coupons' = [coupons EXCEPT ![c] = crow]
      BY <2>2 DEF CancelOrder
    <3> HIDE DEF crow, c
    <3> QED  BY <3>1, <3>2, <3>3, UpdateRow DEF TypeOK
  <2> QED  BY <2>1, <2>2
<1>6. events' \in Seq(BusinessEvent)
  <2> DEFINE restored  == <<Ev("COUPON_RESTORED", c, 0, k)>>
             cancelled == <<Ev("ORDER_CANCELLED", o, 0, k)>>
  <2>1. restored \in Seq(BusinessEvent) /\ cancelled \in Seq(BusinessEvent)
    <3> HIDE DEF c
    <3> QED  BY <1>1, EvType DEF BusinessEventType
  <2>2. Emit(When(restore, restored) \o cancelled)
    BY DEF CancelOrder
  <2> HIDE DEF restored, cancelled, restore
  <2>3. When(restore, restored) \in Seq(BusinessEvent)
    BY <2>1 DEF When
  <2>4. When(restore, restored) \o cancelled \in Seq(BusinessEvent)
    BY <2>1, <2>3
  <2> QED  BY <2>2, <2>4, EmitType
<1> QED
  BY <1>4, <1>5, <1>6 DEF TypeOK, CancelOrder, run

LEMMA RefundOrderType ==
  ASSUME TypeOK, NEW o \in DOMAIN orders, NEW a \in Nat, NEW k \in Keys,
         CanRefundOrder(o, a), RefundOrder(o, a, k), UNCHANGED run
  PROVE  TypeOK'
<1> DEFINE refunded == orders[o].refunded + a
           full     == refunded >= orders[o].paid
           again    == RefundPoints /\ Axis("POINTS_GRANTED_AGAIN_ON_REFUND")
           extra    == IF again THEN points_for(a) ELSE 0
           delta    == IF RefundPoints /\ ~again THEN revoke_delta(orders[o], refunded) ELSE 0
           c        == orders[o].coupon
           restore  == Restores(o, full)
           status   == IF full THEN "REFUNDED" ELSE "PARTIALLY_REFUNDED"
           grant    == orders[o].ledgerGrant + extra
           revoke   == orders[o].ledgerRevoke + delta
           row      == [orders[o] EXCEPT !.refunded = refunded, !.status = status,
                                         !.ledgerGrant = grant, !.ledgerRevoke = revoke]
           crow     == [coupons[c] EXCEPT !.status = "AVAILABLE", !.used = 0]
<1>1. orders[o] \in Order /\ o \in Nat /\ a \in Nat
  BY ArgumentsAssumption DEF TypeOK
<1>2. /\ orders[o].refunded \in Nat /\ orders[o].paid \in Nat /\ c \in Nat
      /\ orders[o].ledgerGrant \in Nat /\ orders[o].ledgerRevoke \in Nat
  BY <1>1 DEF Order
<1>3. refunded \in Nat /\ orders[o].paid > 0
  BY <1>1, <1>2 DEF CanRefundOrder, refundable
<1>4. extra \in Nat /\ delta \in Nat
  <2>1. revoke_delta(orders[o], refunded) \in Nat
    <3> HIDE DEF refunded
    <3> QED  BY <1>1, <1>3, RevokeType
  <2> QED  BY <1>1, <2>1, PointsForType
<1>5. grant \in Nat /\ revoke \in Nat /\ status \in OrderStatus
  <2> HIDE DEF extra, delta, full
  <2> QED  BY <1>2, <1>4 DEF OrderStatus
<1>6. row \in Order
  <2> HIDE DEF refunded, grant, revoke, status
  <2> QED  BY <1>1, <1>3, <1>5 DEF Order
<1>7. orders' = [orders EXCEPT ![o] = row]
  BY DEF RefundOrder
<1>8. orders' \in Seq(Order)
  <2> HIDE DEF row
  <2> QED  BY <1>6, <1>7, UpdateRow DEF TypeOK
<1>9. user' \in User
  <2> DEFINE b == user.balance + a
             q == user.points + extra - delta
  <2>1. user' = [user EXCEPT !.balance = b, !.points = q]
    BY DEF RefundOrder
  <2>2. b \in Int /\ q \in Int
    <3> HIDE DEF extra, delta
    <3> QED  BY <1>1, <1>4 DEF TypeOK, User
  <2> HIDE DEF b, q
  <2> QED  BY <2>1, <2>2 DEF TypeOK, User
<1>10. coupons' \in Seq(Coupon)
  <2>1. CASE ~restore
    BY <2>1 DEF RefundOrder, TypeOK
  <2>2. CASE restore
    <3>1. coupons' = [coupons EXCEPT ![c] = crow]
      BY <2>2 DEF RefundOrder
    <3>2. CASE c \in DOMAIN coupons
      <4>1. coupons[c] \in Coupon
        BY <3>2 DEF TypeOK
      <4>2. crow \in Coupon
        <5> HIDE DEF c
        <5> QED  BY <4>1 DEF Coupon, CouponStatus
      <4> HIDE DEF crow, c
      <4> QED  BY <3>1, <3>2, <4>2, UpdateRow DEF TypeOK
    <3>3. CASE c \notin DOMAIN coupons
      <4> HIDE DEF crow, c
      <4> QED  BY <3>1, <3>3, UpdateNoRow DEF TypeOK
    <3> QED  BY <3>2, <3>3
  <2> QED  BY <2>1, <2>2
<1>11. refunds' \in Seq(Refund)
  BY <1>1 DEF RefundOrder, TypeOK, Refund
<1>12. events' \in Seq(BusinessEvent)
  <2> DEFINE issued   == <<Ev("REFUND_ISSUED", o, a, k)>>
             granted  == <<Ev("POINTS_GRANTED", o, extra, k)>>
             revoked  == <<Ev("POINTS_REVOKED", o, delta, k)>>
             restored == <<Ev("COUPON_RESTORED", c, 0, k)>>
  <2>1. /\ issued \in Seq(BusinessEvent) /\ granted \in Seq(BusinessEvent)
        /\ revoked \in Seq(BusinessEvent) /\ restored \in Seq(BusinessEvent)
    <3> HIDE DEF extra, delta, c
    <3> QED  BY <1>1, <1>2, <1>4, EvType DEF BusinessEventType
  <2>2. Emit(issued \o When(again, granted) \o When(delta > 0, revoked)
               \o When(restore, restored))
    BY DEF RefundOrder
  <2> HIDE DEF issued, granted, revoked, restored, again, delta, restore
  <2>3. /\ When(again, granted) \in Seq(BusinessEvent)
        /\ When(delta > 0, revoked) \in Seq(BusinessEvent)
        /\ When(restore, restored) \in Seq(BusinessEvent)
    BY <2>1 DEF When
  <2>4. issued \o When(again, granted) \o When(delta > 0, revoked) \o When(restore, restored)
          \in Seq(BusinessEvent)
    BY <2>1, <2>3
  <2> QED  BY <2>2, <2>4, EmitType
<1> QED
  BY <1>8, <1>9, <1>10, <1>11, <1>12 DEF TypeOK, RefundOrder, run

LEMMA RedeemPointsType ==
  ASSUME TypeOK, NEW p \in PointAmounts, NEW k \in Keys, RedeemPoints(p, k), UNCHANGED run
  PROVE  TypeOK'
<1>1. p \in Nat
  BY ArgumentsAssumption
<1>2. user' \in User /\ redeemed' \in Nat
  <2> DEFINE q == user.points - p
  <2>1. user' = [user EXCEPT !.points = q]
    BY DEF RedeemPoints
  <2>2. q \in Int /\ redeemed' \in Nat
    BY <1>1 DEF RedeemPoints, TypeOK, User
  <2> HIDE DEF q
  <2> QED  BY <2>1, <2>2 DEF TypeOK, User
<1>3. events' \in Seq(BusinessEvent)
  <2>1. <<Ev("POINTS_REDEEMED", 1, p, k)>> \in Seq(BusinessEvent)
    BY <1>1, EvType DEF BusinessEventType
  <2> QED  BY <2>1, EmitType DEF RedeemPoints
<1> QED
  BY <1>2, <1>3 DEF TypeOK, RedeemPoints, run

LEMMA ActivateMembershipType ==
  ASSUME TypeOK, NEW a \in Amounts, NEW q \in Quantities, NEW k \in Keys,
         ActivateMembership(a, q, k), UNCHANGED run
  PROVE  TypeOK'
<1>1. /\ a \in Nat /\ q \in Nat
      /\ Len(memberships) + 1 \in Nat /\ Len(entitlements) + 1 \in Nat
  BY ArgumentsAssumption DEF TypeOK
<1>2. user' \in User
  <2> DEFINE b == user.balance - a
  <2>1. user' = [user EXCEPT !.balance = b, !.membership = "ACTIVE"]
    BY DEF ActivateMembership
  <2>2. b \in Int
    BY <1>1 DEF TypeOK, User
  <2> HIDE DEF b
  <2> QED  BY <2>1, <2>2 DEF TypeOK, User
<1>3. memberships' \in Seq(Membership)
  BY <1>1 DEF ActivateMembership, TypeOK, Membership, MembershipStatus
<1>4. entitlements' \in Seq(Entitlement)
  BY <1>1 DEF ActivateMembership, TypeOK, Entitlement, EntitlementStatus
<1>5. events' \in Seq(BusinessEvent)
  <2> DEFINE e1 == Ev("MEMBERSHIP_ACTIVATED", Len(memberships) + 1, 0, k)
             e2 == Ev("ENTITLEMENT_GRANTED", Len(entitlements) + 1, q, k)
  <2>1. e1 \in BusinessEvent /\ e2 \in BusinessEvent
    BY <1>1, EvType DEF BusinessEventType
  <2>2. Emit(<<e1, e2>>)
    BY DEF ActivateMembership
  <2> HIDE DEF e1, e2
  <2>3. <<e1, e2>> \in Seq(BusinessEvent)
    BY <2>1
  <2> QED  BY <2>2, <2>3, EmitType
<1> QED
  BY <1>2, <1>3, <1>4, <1>5 DEF TypeOK, ActivateMembership, run

LEMMA ConsumeEntitlementType ==
  ASSUME TypeOK, NEW e \in DOMAIN entitlements, NEW q \in Quantities, NEW k \in Keys,
         ConsumeEntitlement(e, q, k), UNCHANGED run
  PROVE  TypeOK'
<1> DEFINE consumed == entitlements[e].consumed + q
           status   == IF consumed >= entitlements[e].granted
                       THEN "CONSUMED" ELSE "PARTIALLY_CONSUMED"
           row      == [entitlements[e] EXCEPT !.consumed = consumed, !.status = status]
<1>1. entitlements[e] \in Entitlement /\ e \in Nat /\ q \in Nat
  BY ArgumentsAssumption DEF TypeOK
<1>2. consumed \in Nat /\ status \in EntitlementStatus
  BY <1>1 DEF Entitlement, EntitlementStatus
<1>3. row \in Entitlement
  <2> HIDE DEF consumed, status
  <2> QED  BY <1>1, <1>2 DEF Entitlement
<1>4. entitlements' = [entitlements EXCEPT ![e] = row]
  BY DEF ConsumeEntitlement
<1>5. entitlements' \in Seq(Entitlement)
  <2> HIDE DEF row
  <2> QED  BY <1>3, <1>4, UpdateRow DEF TypeOK
<1>6. events' \in Seq(BusinessEvent)
  <2>1. <<Ev("ENTITLEMENT_CONSUMED", e, q, k)>> \in Seq(BusinessEvent)
    BY <1>1, EvType DEF BusinessEventType
  <2> QED  BY <2>1, EmitType DEF ConsumeEntitlement
<1> QED
  BY <1>5, <1>6 DEF TypeOK, ConsumeEntitlement, run

LEMMA CancelMembershipType ==
  ASSUME TypeOK, NEW m \in DOMAIN memberships, NEW refund \in BOOLEAN,
         NEW e \in DOMAIN entitlements, NEW k \in Keys,
         CancelMembership(m, refund, e, k), UNCHANGED run
  PROVE  TypeOK'
<1> DEFINE left   == available(entitlements[e])
           revoke == Revokes(e, refund)
           back   == refund_amount(m, refund)
           status == IF refund THEN "REFUNDED" ELSE "CANCELLED"
           type   == IF refund THEN "MEMBERSHIP_REFUNDED" ELSE "MEMBERSHIP_CANCELLED"
           mrow   == [memberships[m] EXCEPT !.status = status]
           gone   == entitlements[e].revoked + left
           erow   == [entitlements[e] EXCEPT !.revoked = gone, !.status = "REVOKED"]
<1>1. /\ memberships[m] \in Membership /\ entitlements[e] \in Entitlement
      /\ m \in Nat /\ e \in Nat
  BY DEF TypeOK
<1>2. /\ back \in Nat /\ left \in Int /\ status \in MembershipStatus
      /\ type \in BusinessEventType
  BY <1>1 DEF Membership, Entitlement, available, refund_amount, MembershipStatus,
              BusinessEventType
<1>3. user' \in User
  <2> DEFINE b == user.balance + back
  <2>1. user' = [user EXCEPT !.balance = b, !.membership = "INACTIVE"]
    BY DEF CancelMembership
  <2>2. b \in Int
    <3> HIDE DEF back
    <3> QED  BY <1>2 DEF TypeOK, User
  <2> HIDE DEF b
  <2> QED  BY <2>1, <2>2 DEF TypeOK, User
<1>4. memberships' \in Seq(Membership)
  <2>1. mrow \in Membership
    <3> HIDE DEF status
    <3> QED  BY <1>1, <1>2 DEF Membership
  <2>2. memberships' = [memberships EXCEPT ![m] = mrow]
    BY DEF CancelMembership
  <2> HIDE DEF mrow
  <2> QED  BY <2>1, <2>2, UpdateRow DEF TypeOK
<1>5. entitlements' \in Seq(Entitlement)
  <2>1. CASE ~revoke
    BY <2>1 DEF CancelMembership, TypeOK
  <2>2. CASE revoke
    <3>1. gone \in Nat
      <4>1. left > 0
        BY <2>2 DEF Revokes
      <4> HIDE DEF left
      <4> QED  BY <1>1, <1>2, <4>1 DEF Entitlement
    <3>2. erow \in Entitlement
      <4> HIDE DEF gone
      <4> QED  BY <1>1, <3>1 DEF Entitlement, EntitlementStatus
    <3>3. entitlements' = [entitlements EXCEPT ![e] = erow]
      BY <2>2 DEF CancelMembership
    <3> HIDE DEF erow
    <3> QED  BY <3>2, <3>3, UpdateRow DEF TypeOK
  <2> QED  BY <2>1, <2>2
<1>6. events' \in Seq(BusinessEvent)
  <2> DEFINE revoked == When(revoke, <<Ev("ENTITLEMENT_REVOKED", e, left, k)>>)
             ended   == <<Ev(type, m, back, k)>>
  <2>1. ended \in Seq(BusinessEvent)
    <3> HIDE DEF type, back
    <3> QED  BY <1>1, <1>2, EvType
  <2>2. revoked \in Seq(BusinessEvent)
    <3>1. CASE ~revoke
      BY <3>1 DEF When
    <3>2. CASE revoke
      <4>1. left \in Nat
        BY <1>2, <3>2 DEF Revokes
      <4>2. <<Ev("ENTITLEMENT_REVOKED", e, left, k)>> \in Seq(BusinessEvent)
        <5> HIDE DEF left
        <5> QED  BY <1>1, <4>1, EvType DEF BusinessEventType
      <4> QED  BY <3>2, <4>2 DEF When
    <3> QED  BY <3>1, <3>2
  <2>3. Emit(revoked \o ended)
    BY DEF CancelMembership
  <2> HIDE DEF revoked, ended
  <2>4. revoked \o ended \in Seq(BusinessEvent)
    BY <2>1, <2>2
  <2> QED  BY <2>3, <2>4, EmitType
<1> QED
  BY <1>3, <1>4, <1>5, <1>6 DEF TypeOK, CancelMembership, run

LEMMA DeleteStateType ==
  ASSUME TypeOK, DeleteState, UNCHANGED run
  PROVE  TypeOK'
  BY DEF TypeOK, DeleteState, run, NoUser, User

-----------------------------------------------------------------------------
LEMMA TypeStep ==
  ASSUME TypeOK, [Next]_domainVars
  PROVE  TypeOK'
<1>1. CASE UNCHANGED domainVars
  BY <1>1 DEF TypeOK, domainVars
<1>2. CASE Next
  <2>0. UNCHANGED run
    BY <1>2 DEF Next
  <2>1. CASE \E b \in Balances, k \in Keys : CanCreateUser(b) /\ CreateUser(b, k)
    BY <2>0, <2>1, CreateUserType
  <2>2. CASE OrderCommand
    BY <2>0, <2>2, ArgumentsAssumption, CreateOrderType, PayOrderType, CancelOrderType,
       RefundOrderType DEF OrderCommand
  <2>3. CASE CouponCommand
    BY <2>0, <2>3, IssueCouponType, ApplyCouponType DEF CouponCommand
  <2>4. CASE PointsCommand
    BY <2>0, <2>4, RedeemPointsType DEF PointsCommand
  <2>5. CASE MembershipCommand
    BY <2>0, <2>5, ActivateMembershipType, ConsumeEntitlementType, CancelMembershipType
       DEF MembershipCommand
  <2>6. CASE DeleteState
    BY <2>0, <2>6, DeleteStateType
  <2> QED  BY <1>2, <2>1, <2>2, <2>3, <2>4, <2>5, <2>6 DEF Next
<1> QED  BY <1>1, <1>2

LEMMA TypeInit == Init => TypeOK
<1> SUFFICES ASSUME Init  PROVE TypeOK
  OBVIOUS
<1>1. PICK r \in Runs : scenario = r.scenario /\ axes = r.axes
  BY DEF Init
<1>2. scenario \in Scenarios /\ axes \in Profiles(scenario)
  BY <1>1, RunsAssumption DEF RunSpace
<1> QED
  BY <1>2 DEF Init, EmptyTables, TypeOK, NoUser, User

\* Every row every handler writes is well formed, for any runs, arguments and bounds: money,
\* ledger sums, usage counts and entitlement quantities never leave the natural numbers.
THEOREM TypeCorrect == Spec => []TypeOK
<1>1. TypeOK /\ [Next]_domainVars => TypeOK'
  BY TypeStep
<1> QED
  BY <1>1, TypeInit, PTL DEF Spec

-----------------------------------------------------------------------------
(* Memberships and their entitlements. *)

\* A command that writes neither table nor the user's membership leaves the pairing alone.
LEMMA MembershipUnchanged ==
  ASSUME MembershipInv, UNCHANGED run, UNCHANGED <<memberships, entitlements>>,
         user'.exists, user'.membership = user.membership
  PROVE  MembershipInv'
  BY DEF MembershipInv, EntitlementLinks, EntitlementRow, OneActiveMembership, Axis, run

LEMMA CreateUserMembership ==
  ASSUME TypeOK, MembershipInv, UNCHANGED run, NEW b \in Balances, NEW k \in Keys,
         CanCreateUser(b), CreateUser(b, k)
  PROVE  MembershipInv'
<1>1. memberships = <<>> /\ entitlements = <<>>
  BY DEF TypeOK, MembershipInv, EntitlementLinks, CanCreateUser
<1>2. /\ memberships' = <<>> /\ entitlements' = <<>>
      /\ user'.exists /\ user'.membership = "INACTIVE"
  BY <1>1 DEF CreateUser
<1> QED
  BY <1>2 DEF MembershipInv, EntitlementLinks, OneActiveMembership

LEMMA ActivateMembershipMembership ==
  ASSUME TypeOK, MembershipInv, UNCHANGED run,
         NEW a \in Amounts, NEW q \in Quantities, NEW k \in Keys,
         CanActivateMembership(a, q), ActivateMembership(a, q, k)
  PROVE  MembershipInv'
<1>0. PICK n \in Nat : n = Len(memberships) + 1
  BY DEF TypeOK
<1> DEFINE mrow == [paid |-> a, status |-> "ACTIVE"]
           erow == [membership |-> n, granted |-> q, consumed |-> 0, revoked |-> 0,
                    status |-> "GRANTED"]
<1>1. /\ n = Len(entitlements) + 1
      /\ mrow \in Membership /\ erow \in Entitlement
  BY <1>0, ArgumentsAssumption
     DEF TypeOK, MembershipInv, EntitlementLinks, Membership, MembershipStatus, Entitlement,
         EntitlementStatus
<1>2. memberships' = Append(memberships, mrow) /\ entitlements' = Append(entitlements, erow)
  BY <1>0, <1>1 DEF ActivateMembership
<1>3. /\ mrow.status = "ACTIVE" /\ erow.membership = n /\ erow.granted = q /\ q > 0
      /\ erow.consumed = 0 /\ erow.revoked = 0 /\ erow.status = "GRANTED" /\ q \in Nat
  BY ArgumentsAssumption DEF CanActivateMembership
<1> HIDE DEF mrow, erow
<1>4. /\ DOMAIN memberships' = DOMAIN memberships \cup {n}
      /\ memberships'[n] = mrow
      /\ \A m \in DOMAIN memberships : m # n /\ memberships'[m] = memberships[m]
  BY <1>0, <1>1, <1>2, AppendRow DEF TypeOK
<1>5. /\ DOMAIN entitlements' = DOMAIN entitlements \cup {n}
      /\ entitlements'[n] = erow
      /\ \A e \in DOMAIN entitlements : e # n /\ entitlements'[e] = entitlements[e]
  BY <1>1, <1>2, AppendRow DEF TypeOK
<1>6. DOMAIN entitlements = DOMAIN memberships
  BY DEF TypeOK, MembershipInv, EntitlementLinks
<1>7. EntitlementRow(n)'
  BY <1>3, <1>4, <1>5 DEF EntitlementRow
<1>8. ASSUME NEW e \in DOMAIN entitlements  PROVE EntitlementRow(e)'
  <2>1. EntitlementRow(e)
    BY DEF MembershipInv, EntitlementLinks
  <2>2. entitlements'[e] = entitlements[e] /\ memberships'[e] = memberships[e]
    BY <1>4, <1>5, <1>6
  <2> QED  BY <2>1, <2>2 DEF EntitlementRow, Axis, run
<1>9. user'.exists /\ user'.membership = "ACTIVE"
  BY DEF ActivateMembership, CanActivateMembership, TypeOK, User
<1>10. Len(memberships') = Len(entitlements')
  BY <1>2 DEF TypeOK, MembershipInv, EntitlementLinks
<1>11. EntitlementLinks'
  BY <1>5, <1>7, <1>8, <1>9, <1>10 DEF EntitlementLinks
<1>12. \A m \in DOMAIN memberships : memberships[m].status # "ACTIVE"
  BY DEF MembershipInv, OneActiveMembership, CanActivateMembership
<1>13. OneActiveMembership'
  BY <1>3, <1>4, <1>9, <1>12 DEF OneActiveMembership
<1> QED
  BY <1>11, <1>13 DEF MembershipInv

LEMMA ConsumeEntitlementMembership ==
  ASSUME TypeOK, MembershipInv, UNCHANGED run,
         NEW e \in DOMAIN entitlements, NEW q \in Quantities, NEW k \in Keys,
         CanConsumeEntitlement(e, q), ConsumeEntitlement(e, q, k)
  PROVE  MembershipInv'
<1> DEFINE consumed == entitlements[e].consumed + q
           status   == IF consumed >= entitlements[e].granted
                       THEN "CONSUMED" ELSE "PARTIALLY_CONSUMED"
           row      == [entitlements[e] EXCEPT !.consumed = consumed, !.status = status]
<1>1. entitlements[e] \in Entitlement /\ q \in Nat /\ q > 0
  BY ArgumentsAssumption DEF TypeOK, CanConsumeEntitlement
<1>2. /\ entitlements[e].granted \in Nat /\ entitlements[e].consumed \in Nat
      /\ entitlements[e].revoked \in Nat /\ consumed \in Nat
  BY <1>1 DEF Entitlement
<1>3. /\ row.membership = entitlements[e].membership /\ row.granted = entitlements[e].granted
      /\ row.consumed = consumed /\ row.revoked = entitlements[e].revoked
      /\ row.status = status
  BY <1>1 DEF Entitlement
<1>4. entitlements' = [entitlements EXCEPT ![e] = row]
  BY DEF ConsumeEntitlement
<1>5. row \in Entitlement
  <2>1. status \in EntitlementStatus
    BY DEF EntitlementStatus
  <2> HIDE DEF consumed, status
  <2> QED  BY <1>1, <1>2, <2>1 DEF Entitlement
<1> HIDE DEF row
<1>6. entitlements[e].status \in {"GRANTED", "PARTIALLY_CONSUMED"}
  BY <1>1 DEF CanConsumeEntitlement, Entitlement, EntitlementStatus
<1>7. EntitlementRow(e)
  BY DEF MembershipInv, EntitlementLinks
<1>8. /\ entitlements[e].revoked = 0 /\ entitlements[e].consumed < entitlements[e].granted
      /\ entitlements[e].membership = e /\ entitlements[e].granted > 0
      /\ memberships[e].status # "ACTIVE" => Axis("ENTITLEMENT_LEFT_AFTER_REFUND")
      /\ memberships[e].status = "REFUNDED" => Axis("ENTITLEMENT_LEFT_AFTER_REFUND")
  BY <1>6, <1>7 DEF EntitlementRow
<1>9. ~Axis("ENTITLEMENT_OVERCONSUMPTION") => consumed <= entitlements[e].granted
  BY <1>1, <1>2, <1>8 DEF CanConsumeEntitlement, available
<1>10. /\ row.membership = e /\ row.granted > 0
       /\ row.status = "PARTIALLY_CONSUMED" => row.consumed < row.granted /\ row.revoked = 0
       /\ row.status = "CONSUMED" => row.revoked = 0 /\ row.consumed >= row.granted
       /\ row.status \in {"PARTIALLY_CONSUMED", "CONSUMED"}
       /\ ~Axis("ENTITLEMENT_OVERCONSUMPTION") => row.consumed <= row.granted
  BY <1>2, <1>3, <1>8, <1>9
<1>11. entitlements' \in Seq(Entitlement) /\ Len(entitlements') = Len(entitlements)
       /\ DOMAIN entitlements' = DOMAIN entitlements /\ entitlements'[e] = row
       /\ \A i \in DOMAIN entitlements : i # e => entitlements'[i] = entitlements[i]
  BY <1>4, <1>5, UpdateRow DEF TypeOK
<1>12. EntitlementRow(e)'
  BY <1>8, <1>10, <1>11 DEF EntitlementRow, ConsumeEntitlement, Axis, run
<1>13. \A i \in DOMAIN entitlements : i # e => EntitlementRow(i)'
  BY <1>11 DEF MembershipInv, EntitlementLinks, EntitlementRow, ConsumeEntitlement, Axis, run
<1>14. UNCHANGED <<user, memberships>>
  BY DEF ConsumeEntitlement
<1> QED
  BY <1>11, <1>12, <1>13, <1>14 DEF MembershipInv, EntitlementLinks, OneActiveMembership

LEMMA CancelMembershipMembership ==
  ASSUME TypeOK, MembershipInv, UNCHANGED run,
         NEW m \in DOMAIN memberships, NEW refund \in BOOLEAN,
         NEW e \in DOMAIN entitlements, NEW k \in Keys,
         CanCancelMembership(m, refund, e), CancelMembership(m, refund, e, k)
  PROVE  MembershipInv'
<1> DEFINE r      == entitlements[e]
           left   == available(r)
           gone   == r.revoked + left
           status == IF refund THEN "REFUNDED" ELSE "CANCELLED"
           mrow   == [memberships[m] EXCEPT !.status = status]
           row    == IF Revokes(e, refund)
                     THEN [r EXCEPT !.revoked = gone, !.status = "REVOKED"] ELSE r
<1>1. /\ r \in Entitlement /\ memberships[m] \in Membership
      /\ DOMAIN entitlements = DOMAIN memberships
  BY DEF TypeOK, MembershipInv, EntitlementLinks
<1>2. EntitlementRow(e) /\ e = m
  BY DEF MembershipInv, EntitlementLinks, EntitlementRow, CanCancelMembership
<1>3. r.granted \in Nat /\ r.consumed \in Nat /\ r.revoked \in Nat /\ left \in Int
  BY <1>1 DEF Entitlement, available
<1>4. mrow.status = status
  BY <1>1 DEF Membership
<1>5. memberships' = [memberships EXCEPT ![m] = mrow]
  BY DEF CancelMembership
<1>6. entitlements' = [entitlements EXCEPT ![e] = row]
  <2>1. CASE Revokes(e, refund)
    BY <2>1 DEF CancelMembership
  <2>2. CASE ~Revokes(e, refund)
    BY <2>2 DEF CancelMembership, TypeOK
  <2> QED  BY <2>1, <2>2
<1>7. /\ row.membership = r.membership /\ row.granted = r.granted
      /\ row.consumed = r.consumed
      /\ Revokes(e, refund) => row.revoked = gone /\ row.status = "REVOKED"
      /\ ~Revokes(e, refund) => row.revoked = r.revoked /\ row.status = r.status
  BY <1>1 DEF Entitlement
<1> HIDE DEF row, mrow
<1>8. /\ DOMAIN entitlements' = DOMAIN entitlements /\ Len(entitlements') = Len(entitlements)
      /\ entitlements'[e] = row
      /\ \A i \in DOMAIN entitlements : i # e => entitlements'[i] = entitlements[i]
  BY <1>6 DEF TypeOK
<1>9. /\ DOMAIN memberships' = DOMAIN memberships /\ Len(memberships') = Len(memberships)
      /\ memberships'[m] = mrow
      /\ \A i \in DOMAIN memberships : i # m => memberships'[i] = memberships[i]
  BY <1>5 DEF TypeOK
<1>10. /\ row.membership = e /\ row.granted > 0
       /\ row.status \in {"GRANTED", "PARTIALLY_CONSUMED"} =>
            row.consumed < row.granted /\ row.revoked = 0
       /\ row.status = "REVOKED" => available(row) = 0
       /\ row.status = "CONSUMED" => row.revoked = 0 /\ row.consumed >= row.granted
       /\ ~Axis("ENTITLEMENT_OVERCONSUMPTION") => row.consumed <= row.granted
  <2>1. CASE ~Revokes(e, refund)
    BY <1>2, <1>3, <1>7, <2>1 DEF EntitlementRow, available
  <2>2. CASE Revokes(e, refund)
    <3>1. available(row) = 0
      BY <1>3, <1>7, <2>2 DEF available
    <3> QED  BY <1>2, <1>3, <1>7, <2>2, <3>1 DEF EntitlementRow
  <2> QED  BY <2>1, <2>2
<1>11. ~Axis("ENTITLEMENT_LEFT_AFTER_REFUND") => row.status \in {"REVOKED", "CONSUMED"}
  <2>1. CASE Revokes(e, refund)
    BY <2>1, <1>7
  <2>2. CASE ~Revokes(e, refund) /\ ~Axis("ENTITLEMENT_LEFT_AFTER_REFUND")
    <3>1. ~(left > 0)
      BY <2>2 DEF Revokes
    <3>2. r.status \in {"REVOKED", "CONSUMED"}
      <4>1. r.status \in EntitlementStatus
        BY <1>1 DEF Entitlement
      <4> QED  BY <1>2, <1>3, <3>1, <4>1 DEF EntitlementRow, available, EntitlementStatus
    <3> QED  BY <2>2, <3>2, <1>7
  <2> QED  BY <2>1, <2>2
<1>12. /\ refund /\ ~Axis("FULL_REFUND_AFTER_CONSUMPTION")
       /\ ~Axis("ENTITLEMENT_LEFT_AFTER_REFUND")
       => row.consumed = 0 /\ row.status = "REVOKED"
  <2>1. refund /\ ~Axis("FULL_REFUND_AFTER_CONSUMPTION") => r.consumed = 0
    BY DEF CanCancelMembership
  <2> QED  BY <1>3, <1>7, <1>10, <1>11, <2>1
<1>13. EntitlementRow(e)'
  BY <1>2, <1>4, <1>8, <1>9, <1>10, <1>11, <1>12 DEF EntitlementRow, available, Axis, run
<1>14. \A i \in DOMAIN entitlements : i # e => EntitlementRow(i)'
  BY <1>2, <1>8, <1>9 DEF MembershipInv, EntitlementLinks, EntitlementRow, Axis, run
<1>15. user'.exists = user.exists /\ user'.membership = "INACTIVE"
  BY DEF CancelMembership, TypeOK, User
<1>16. EntitlementLinks'
  <2>1. user.exists
    BY DEF TypeOK, User, MembershipInv, EntitlementLinks
  <2> QED
    BY <1>8, <1>9, <1>13, <1>14, <1>15, <2>1 DEF MembershipInv, EntitlementLinks
<1>17. OneActiveMembership'
  <2>1. memberships'[m].status # "ACTIVE"
    BY <1>4, <1>9
  <2>2. \A i \in DOMAIN memberships : i # m => memberships'[i].status # "ACTIVE"
    BY <1>9 DEF MembershipInv, OneActiveMembership, CanCancelMembership
  <2> QED  BY <1>9, <1>15, <2>1, <2>2 DEF OneActiveMembership
<1> QED
  BY <1>16, <1>17 DEF MembershipInv

LEMMA MembershipStep ==
  ASSUME TypeOK, MembershipInv, Next
  PROVE  MembershipInv'
<1>0. UNCHANGED run /\ user \in User
  BY DEF Next, TypeOK
<1>1. CASE \E b \in Balances, k \in Keys : CanCreateUser(b) /\ CreateUser(b, k)
  BY <1>0, <1>1, CreateUserMembership
<1>2. CASE OrderCommand \/ CouponCommand \/ PointsCommand
  <2>1. UNCHANGED <<memberships, entitlements>> /\ user'.membership = user.membership
        /\ user'.exists = user.exists
    <3>1. CASE OrderCommand
      <4>1. ASSUME NEW b, NEW q, user' = [user EXCEPT !.balance = b, !.points = q]
            PROVE  user'.membership = user.membership /\ user'.exists = user.exists
        BY <1>0, <4>1 DEF User
      <4>2. ASSUME NEW o \in DOMAIN orders, NEW k \in Keys, PayOrder(o, k)
            PROVE  \E b, q : user' = [user EXCEPT !.balance = b, !.points = q]
        BY <4>2 DEF PayOrder
      <4>3. ASSUME NEW o \in DOMAIN orders, NEW a \in Amounts, NEW k \in Keys,
                   RefundOrder(o, a, k)
            PROVE  \E b, q : user' = [user EXCEPT !.balance = b, !.points = q]
        BY <4>3 DEF RefundOrder
      <4>4. \/ UNCHANGED user
            \/ \E b, q : user' = [user EXCEPT !.balance = b, !.points = q]
        BY <3>1, <4>2, <4>3 DEF OrderCommand, CreateOrder, CancelOrder
      <4>5. UNCHANGED <<memberships, entitlements>>
        <5>1. ASSUME NEW o \in DOMAIN orders, NEW k \in Keys, PayOrder(o, k)
              PROVE  UNCHANGED <<memberships, entitlements>>
          BY <5>1 DEF PayOrder
        <5>2. ASSUME NEW o \in DOMAIN orders, NEW a \in Amounts, NEW k \in Keys,
                     RefundOrder(o, a, k)
              PROVE  UNCHANGED <<memberships, entitlements>>
          BY <5>2 DEF RefundOrder
        <5> QED  BY <3>1, <5>1, <5>2 DEF OrderCommand, CreateOrder, CancelOrder
      <4> QED  BY <4>1, <4>4, <4>5
    <3>2. CASE CouponCommand \/ PointsCommand
      BY <1>0, <3>2
         DEF CouponCommand, IssueCoupon, ApplyCoupon, PointsCommand, RedeemPoints, User
    <3> QED  BY <1>2, <3>1, <3>2
  <2> QED
    BY <1>0, <2>1 DEF MembershipInv, EntitlementLinks, EntitlementRow, OneActiveMembership, Axis, run
<1>3. CASE MembershipCommand
  BY <1>0, <1>3, ActivateMembershipMembership, ConsumeEntitlementMembership,
     CancelMembershipMembership DEF MembershipCommand
<1>4. CASE DeleteState
  BY <1>4 DEF DeleteState, NoUser, MembershipInv, EntitlementLinks, OneActiveMembership
<1> QED
  BY <1>1, <1>2, <1>3, <1>4 DEF Next

\* Memberships and entitlements are paired and the statuses of both and of the user agree.
THEOREM MembershipInvariant == Spec => []MembershipInv
<1>1. Init => MembershipInv
  BY DEF Init, EmptyTables, NoUser, MembershipInv, EntitlementLinks, OneActiveMembership
<1>2. TypeOK /\ MembershipInv /\ [Next]_domainVars => MembershipInv'
  <2>1. ASSUME MembershipInv, UNCHANGED domainVars  PROVE MembershipInv'
    BY <2>1 DEF domainVars, MembershipInv, EntitlementLinks, EntitlementRow,
                OneActiveMembership, Axis
  <2> QED  BY <2>1, MembershipStep
<1> QED
  BY <1>1, <1>2, TypeCorrect, PTL DEF Spec

\* _activate_membership, _cancel_membership: the user's status column is ACTIVE exactly when
\* one membership row is, so no sequence of commands yields two memberships in force.
THEOREM OneMembershipActive == Spec => []OneActiveMembership
<1>1. MembershipInv => OneActiveMembership
  BY DEF MembershipInv
<1> QED
  BY <1>1, MembershipInvariant, PTL

\* _consume_entitlement, _cancel_membership: nothing is consumed beyond the grant, nothing is
\* left of an ended membership, and no refunded one was used, each unless its axis is set.
THEOREM EntitlementsAreSound == Spec => []EntitlementsSound
<1>1. TypeOK /\ MembershipInv => EntitlementsSound
  <2> SUFFICES ASSUME TypeOK, MembershipInv  PROVE EntitlementsSound
    OBVIOUS
  <2>1. ASSUME NEW e \in DOMAIN entitlements
        PROVE  /\ EntitlementRow(e) /\ entitlements[e] \in Entitlement
               /\ e \in DOMAIN memberships
    BY DEF TypeOK, MembershipInv, EntitlementLinks
  <2>2. ASSUME NEW e \in DOMAIN entitlements
        PROVE  /\ ~Axis("ENTITLEMENT_OVERCONSUMPTION") => available(entitlements[e]) >= 0
               /\ /\ ~Axis("ENTITLEMENT_OVERCONSUMPTION")
                  /\ ~Axis("ENTITLEMENT_LEFT_AFTER_REFUND")
                  /\ memberships[e].status # "ACTIVE"
                  => available(entitlements[e]) = 0
               /\ entitlements[e].membership = e
    BY <2>1 DEF EntitlementRow, available, Entitlement, EntitlementStatus
  <2>3. ASSUME NEW e \in DOMAIN entitlements
        PROVE  /\ ~Axis("FULL_REFUND_AFTER_CONSUMPTION")
               /\ ~Axis("ENTITLEMENT_LEFT_AFTER_REFUND")
               /\ memberships[e].status = "REFUNDED"
               => entitlements[e].consumed = 0
    BY <2>1 DEF EntitlementRow
  <2> QED  BY <2>1, <2>2, <2>3 DEF EntitlementsSound, Axis
<1> QED
  BY <1>1, TypeCorrect, MembershipInvariant, PTL

-----------------------------------------------------------------------------
(* What one order row says about money. *)

\* A row written in place is a row of the new table.
LEMMA WrittenRow ==
  ASSUME TypeOK', NEW o \in DOMAIN orders, NEW row, row = orders'[o],
         orders' = [orders EXCEPT ![o] = row]
  PROVE  row \in Order
<1>1. orders' \in Seq(Order)
  BY DEF TypeOK
<1>2. o \in DOMAIN orders'
  OBVIOUS
<1> QED
  BY <1>1, <1>2

MoneyOK(r) ==
  /\ ~Axis("REFUND_AGAINST_ORIGINAL") => r.refunded <= r.paid
  /\ r.status \in {"PENDING_PAYMENT", "CANCELLED"} => r.paid = 0 /\ r.refunded = 0
  /\ r.status = "PAID" => r.paid > 0 /\ r.refunded = 0
  /\ r.status = "PARTIALLY_REFUNDED" => 0 < r.refunded /\ r.refunded < r.paid
  /\ r.status = "REFUNDED" => r.refunded >= r.paid /\ r.paid > 0

LEMMA MoneyRows == RefundWithinPaid <=> \A o \in DOMAIN orders : MoneyOK(orders[o])
  BY DEF RefundWithinPaid, MoneyOK

\* The row that a handler on order o writes, and the rest of the table.
LEMMA MoneyUpdate ==
  ASSUME TypeOK, RefundWithinPaid, UNCHANGED run,
         NEW o \in DOMAIN orders, NEW row \in Order, MoneyOK(row),
         orders' = [orders EXCEPT ![o] = row]
  PROVE  RefundWithinPaid'
<1>1. \A p \in DOMAIN orders' : MoneyOK(orders'[p])
  BY MoneyRows, UpdateRow DEF TypeOK
<1> QED
  BY <1>1 DEF RefundWithinPaid, MoneyOK, Axis, run

\* A command that leaves the orders alone leaves their money alone.
LEMMA MoneyUnchanged ==
  ASSUME RefundWithinPaid, UNCHANGED run, UNCHANGED orders
  PROVE  RefundWithinPaid'
  BY DEF RefundWithinPaid, Axis, run

LEMMA CreateOrderMoney ==
  ASSUME TypeOK, RefundWithinPaid, UNCHANGED run, NEW a \in Amounts, NEW k \in Keys,
         CreateOrder(a, k)
  PROVE  RefundWithinPaid'
<1> DEFINE row == [original |-> a, discount |-> 0, paid |-> 0, refunded |-> 0, points |-> 0,
                   ledgerGrant |-> 0, ledgerRevoke |-> 0, status |-> "PENDING_PAYMENT",
                   coupon |-> 0]
<1>1. row \in Order
  BY ArgumentsAssumption DEF Order, OrderStatus
<1>2. MoneyOK(row)
  BY DEF MoneyOK
<1>3. orders' = Append(orders, row)
  BY DEF CreateOrder
<1> HIDE DEF row
<1>4. \A p \in DOMAIN orders' : MoneyOK(orders'[p])
  BY <1>1, <1>2, <1>3, MoneyRows, AppendRow DEF TypeOK
<1> QED
  BY <1>4 DEF RefundWithinPaid, MoneyOK, Axis, run

LEMMA PayOrderMoney ==
  ASSUME TypeOK, RefundWithinPaid, UNCHANGED run, NEW o \in DOMAIN orders, NEW k \in Keys,
         CanPayOrder(o), PayOrder(o, k)
  PROVE  RefundWithinPaid'
<1> DEFINE row == orders'[o]
<1>0. orders[o] \in Order /\ MoneyOK(orders[o])
  BY MoneyRows DEF TypeOK
<1>1. /\ orders' = [orders EXCEPT ![o] = row]
      /\ row.paid = orders[o].original - orders[o].discount
      /\ row.refunded = orders[o].refunded /\ row.status = "PAID"
  BY <1>0 DEF PayOrder, TypeOK, Order
<1>2. row \in Order
  <2>1. TypeOK'
    BY PayOrderType
  <2> QED  BY <1>1, <2>1, WrittenRow
<1>3. MoneyOK(row)
  <2> HIDE DEF row
  <2> QED  BY <1>0, <1>1 DEF CanPayOrder, MoneyOK, Order
<1> HIDE DEF row
<1> QED
  BY <1>1, <1>2, <1>3, MoneyUpdate

LEMMA ApplyCouponMoney ==
  ASSUME TypeOK, RefundWithinPaid, UNCHANGED run, NEW o \in DOMAIN orders,
         NEW c \in DOMAIN coupons, NEW k \in Keys, ApplyCoupon(o, c, k)
  PROVE  RefundWithinPaid'
<1> DEFINE row == orders'[o]
<1>0. orders[o] \in Order /\ MoneyOK(orders[o])
  BY MoneyRows DEF TypeOK
<1>1. /\ orders' = [orders EXCEPT ![o] = row]
      /\ row.paid = orders[o].paid /\ row.refunded = orders[o].refunded
      /\ row.status = orders[o].status
  BY <1>0 DEF ApplyCoupon, TypeOK, Order
<1>2. row \in Order
  <2>1. TypeOK'
    BY ApplyCouponType
  <2> QED  BY <1>1, <2>1, WrittenRow
<1>3. MoneyOK(row)
  <2> HIDE DEF row
  <2> QED  BY <1>0, <1>1 DEF MoneyOK
<1> HIDE DEF row
<1> QED
  BY <1>1, <1>2, <1>3, MoneyUpdate

LEMMA CancelOrderMoney ==
  ASSUME TypeOK, RefundWithinPaid, UNCHANGED run, NEW o \in DOMAIN orders, NEW k \in Keys,
         CanCancelOrder(o), CancelOrder(o, k)
  PROVE  RefundWithinPaid'
<1> DEFINE row == orders'[o]
<1>0. orders[o] \in Order /\ MoneyOK(orders[o])
  BY MoneyRows DEF TypeOK
<1>1. /\ orders' = [orders EXCEPT ![o] = row]
      /\ row.paid = orders[o].paid /\ row.refunded = orders[o].refunded
      /\ row.status = "CANCELLED"
  BY <1>0 DEF CancelOrder, TypeOK, Order
<1>2. row \in Order
  <2>1. TypeOK'
    BY CancelOrderType
  <2> QED  BY <1>1, <2>1, WrittenRow
<1>3. MoneyOK(row)
  <2> HIDE DEF row
  <2> QED  BY <1>0, <1>1 DEF CanCancelOrder, MoneyOK
<1> HIDE DEF row
<1> QED
  BY <1>1, <1>2, <1>3, MoneyUpdate

\* The refund is checked against what is left of the payment, or, under the axis, against the
\* whole payment; in both cases a full refund is recognised by the running total.
LEMMA RefundOrderMoney ==
  ASSUME TypeOK, RefundWithinPaid, UNCHANGED run, NEW o \in DOMAIN orders,
         NEW a \in Nat, NEW k \in Keys, CanRefundOrder(o, a), RefundOrder(o, a, k)
  PROVE  RefundWithinPaid'
<1> DEFINE row == orders'[o]
<1>0. orders[o] \in Order /\ MoneyOK(orders[o]) /\ a \in Nat
  BY MoneyRows, ArgumentsAssumption DEF TypeOK
<1>1. /\ orders' = [orders EXCEPT ![o] = row]
      /\ row.paid = orders[o].paid /\ row.refunded = orders[o].refunded + a
      /\ row.status = IF orders[o].refunded + a >= orders[o].paid
                      THEN "REFUNDED" ELSE "PARTIALLY_REFUNDED"
  BY <1>0 DEF RefundOrder, TypeOK, Order
<1>2. row \in Order
  <2>1. TypeOK'
    BY RefundOrderType
  <2> QED  BY <1>1, <2>1, WrittenRow
<1>3. MoneyOK(row)
  <2> DEFINE p == orders[o].paid
             r == orders[o].refunded
  <2>1. p \in Nat /\ r \in Nat /\ a > 0 /\ p > 0
    BY <1>0 DEF CanRefundOrder, MoneyOK, Order
  <2>2. ~Axis("REFUND_AGAINST_ORIGINAL") => r + a <= p
    BY <2>1 DEF CanRefundOrder, refundable
  <2>3. /\ row.paid = p /\ row.refunded = r + a
        /\ row.status = IF r + a >= p THEN "REFUNDED" ELSE "PARTIALLY_REFUNDED"
    BY <1>1
  <2> HIDE DEF row, p, r
  <2> QED  BY <2>1, <2>2, <2>3 DEF MoneyOK
<1> HIDE DEF row
<1> QED
  BY <1>1, <1>2, <1>3, MoneyUpdate

\* The money invariant over all commands.
LEMMA MoneyStep ==
  ASSUME TypeOK, RefundWithinPaid, Next
  PROVE  RefundWithinPaid'
<1>0. UNCHANGED run
  BY DEF Next
<1>1. CASE \E b \in Balances, k \in Keys : CanCreateUser(b) /\ CreateUser(b, k)
  BY <1>0, <1>1, MoneyUnchanged DEF CreateUser
<1>2. CASE OrderCommand
  BY <1>0, <1>2, ArgumentsAssumption, CreateOrderMoney, PayOrderMoney, CancelOrderMoney,
     RefundOrderMoney DEF OrderCommand
<1>3. CASE CouponCommand
  <2>1. CASE \E v \in Amounts, t \in Amounts, k \in Keys : IssueCoupon(v, t, k)
    BY <1>0, <2>1, MoneyUnchanged DEF IssueCoupon
  <2>2. CASE \E o \in DOMAIN orders, c \in DOMAIN coupons, k \in Keys : ApplyCoupon(o, c, k)
    BY <1>0, <2>2, ApplyCouponMoney
  <2> QED  BY <1>3, <2>1, <2>2 DEF CouponCommand
<1>4. CASE PointsCommand
  BY <1>0, <1>4, MoneyUnchanged DEF PointsCommand, RedeemPoints
<1>5. CASE MembershipCommand
  BY <1>0, <1>5, MoneyUnchanged
     DEF MembershipCommand, ActivateMembership, ConsumeEntitlement, CancelMembership
<1>6. CASE DeleteState
  BY <1>6 DEF DeleteState, RefundWithinPaid
<1> QED
  BY <1>1, <1>2, <1>3, <1>4, <1>5, <1>6 DEF Next

\* Whatever refunds a client sends, in whatever split and order, an order never gives back
\* more than it took, and its status tells how much of it is back.
THEOREM RefundsBounded == Spec => []RefundWithinPaid
<1>1. Init => RefundWithinPaid
  BY DEF Init, EmptyTables, RefundWithinPaid
<1>2. TypeOK /\ RefundWithinPaid /\ [Next]_domainVars => RefundWithinPaid'
  <2>1. ASSUME RefundWithinPaid, UNCHANGED domainVars  PROVE RefundWithinPaid'
    BY <2>1, MoneyUnchanged DEF domainVars, run
  <2> QED  BY <2>1, MoneyStep
<1> QED
  BY <1>1, <1>2, TypeCorrect, PTL DEF Spec

-----------------------------------------------------------------------------
(* Coupons: the orders' coupon column and the coupons' reserved and used columns agree. *)

CouponInv == TypeOK /\ RefundWithinPaid /\ CouponLinks /\ CouponUsedOnce

LEMMA CouponUnchanged ==
  ASSUME CouponLinks, CouponUsedOnce, UNCHANGED run, UNCHANGED <<orders, coupons>>
  PROVE  CouponLinks' /\ CouponUsedOnce'
  BY DEF CouponLinks, CouponUsedOnce, HoldsCoupon, Axis, run

LEMMA CreateOrderCoupon ==
  ASSUME CouponInv, UNCHANGED run, NEW a \in Amounts, NEW k \in Keys, CreateOrder(a, k)
  PROVE  CouponLinks' /\ CouponUsedOnce'
<1> DEFINE new == Len(orders) + 1
<1>1. /\ DOMAIN orders' = DOMAIN orders \cup {new}
      /\ orders'[new].coupon = 0
      /\ \A p \in DOMAIN orders : p # new /\ orders'[p] = orders[p]
      /\ coupons' = coupons
  <2> DEFINE row == [original |-> a, discount |-> 0, paid |-> 0, refunded |-> 0,
                     points |-> 0, ledgerGrant |-> 0, ledgerRevoke |-> 0,
                     status |-> "PENDING_PAYMENT", coupon |-> 0]
  <2>1. orders' = Append(orders, row) /\ row.coupon = 0 /\ coupons' = coupons
    BY DEF CreateOrder
  <2>2. row \in Order
    BY ArgumentsAssumption DEF Order, OrderStatus
  <2> HIDE DEF row
  <2> QED  BY <2>1, <2>2, AppendRow DEF CouponInv, TypeOK
<1> HIDE DEF new
<1>2. CouponLinks'
  BY <1>1 DEF CouponInv, CouponLinks, HoldsCoupon
<1>3. CouponUsedOnce'
  BY <1>1 DEF CouponInv, CouponUsedOnce, Axis, run
<1> QED
  BY <1>2, <1>3

LEMMA IssueCouponCoupon ==
  ASSUME CouponInv, UNCHANGED run, NEW v \in Amounts, NEW t \in Amounts, NEW k \in Keys,
         IssueCoupon(v, t, k)
  PROVE  CouponLinks' /\ CouponUsedOnce'
<1> DEFINE new == Len(coupons) + 1
<1>1. /\ DOMAIN coupons' = DOMAIN coupons \cup {new}
      /\ coupons'[new].status = "AVAILABLE" /\ coupons'[new].usage = 0
      /\ \A c \in DOMAIN coupons : c # new /\ coupons'[c] = coupons[c]
      /\ orders' = orders
  <2> DEFINE row == [face |-> v, threshold |-> t, status |-> "AVAILABLE", reserved |-> 0,
                     used |-> 0, usage |-> 0]
  <2>1. /\ coupons' = Append(coupons, row) /\ orders' = orders
        /\ row.status = "AVAILABLE" /\ row.usage = 0
    BY DEF IssueCoupon
  <2>2. row \in Coupon
    BY ArgumentsAssumption DEF Coupon, CouponStatus
  <2> HIDE DEF row
  <2> QED  BY <2>1, <2>2, AppendRow DEF CouponInv, TypeOK
<1> HIDE DEF new
<1>2. CouponLinks'
  BY <1>1 DEF CouponInv, CouponLinks, HoldsCoupon
<1>3. CouponUsedOnce'
  BY <1>1 DEF CouponInv, CouponUsedOnce, Axis, run
<1> QED
  BY <1>2, <1>3

\* The coupon was free, so no other pending or paid order names it.
LEMMA ApplyCouponCoupon ==
  ASSUME CouponInv, UNCHANGED run, NEW o \in DOMAIN orders, NEW c \in DOMAIN coupons,
         NEW k \in Keys, CanApplyCoupon(o, c), ApplyCoupon(o, c, k)
  PROVE  CouponLinks' /\ CouponUsedOnce'
<1>0. orders[o] \in Order /\ coupons[c] \in Coupon /\ o \in Nat /\ c \in Nat \ {0}
  BY DEF CouponInv, TypeOK
<1>1. /\ DOMAIN orders' = DOMAIN orders /\ DOMAIN coupons' = DOMAIN coupons
      /\ orders'[o].coupon = c /\ orders'[o].status = "PENDING_PAYMENT"
      /\ orders'[o].paid = orders[o].paid
      /\ coupons'[c].status = "RESERVED" /\ coupons'[c].reserved = o
      /\ coupons'[c].usage = coupons[c].usage
      /\ \A p \in DOMAIN orders : p # o => orders'[p] = orders[p]
      /\ \A d \in DOMAIN coupons : d # c => coupons'[d] = coupons[d]
  BY <1>0 DEF CanApplyCoupon, ApplyCoupon, CouponInv, TypeOK, Order, Coupon
<1>2. CouponLinks'
  BY <1>0, <1>1 DEF CouponInv, CouponLinks, HoldsCoupon, CanApplyCoupon
<1>3. CouponUsedOnce'
  <2>1. orders[o].paid = 0
    BY <1>0 DEF CouponInv, RefundWithinPaid, CanApplyCoupon
  <2> QED
    BY <1>0, <1>1, <2>1 DEF CouponInv, CouponUsedOnce, CanApplyCoupon, Axis, run
<1> QED
  BY <1>2, <1>3

\* The coupon is reserved for this order, so no other pending or paid order names it.
LEMMA PayOrderCoupon ==
  ASSUME CouponInv, UNCHANGED run, NEW o \in DOMAIN orders, NEW k \in Keys,
         CanPayOrder(o), PayOrder(o, k)
  PROVE  CouponLinks' /\ CouponUsedOnce'
<1> DEFINE c == orders[o].coupon
<1>0. orders[o] \in Order /\ o \in Nat
  BY DEF CouponInv, TypeOK
<1>1. /\ DOMAIN orders' = DOMAIN orders
      /\ orders'[o].coupon = c /\ orders'[o].status = "PAID"
      /\ orders'[o].paid = orders[o].original - orders[o].discount
      /\ \A p \in DOMAIN orders : p # o => orders'[p] = orders[p]
  BY <1>0 DEF PayOrder, CouponInv, TypeOK, Order
<1>2. orders'[o].paid > 0 /\ orders[o].paid = 0 /\ orders[o].status = "PENDING_PAYMENT"
  BY <1>0, <1>1 DEF CanPayOrder, CouponInv, RefundWithinPaid
<1>3. CASE c = 0
  <2>1. coupons' = coupons
    BY <1>3 DEF PayOrder
  <2>2. CouponLinks'
    BY <1>1, <1>2, <1>3, <2>1 DEF CouponInv, CouponLinks, HoldsCoupon
  <2>3. CouponUsedOnce'
    BY <1>1, <1>2, <1>3, <2>1 DEF CouponInv, CouponUsedOnce, Axis, run
  <2> QED  BY <2>2, <2>3
<1>4. CASE c # 0
  <2>0. c \in DOMAIN coupons /\ coupons[c].status = "RESERVED" /\ coupons[c].reserved = o
    BY <1>4 DEF CanPayOrder, HoldsCoupon
  <2>1. coupons[c] \in Coupon
    BY <2>0 DEF CouponInv, TypeOK
  <2>2. /\ DOMAIN coupons' = DOMAIN coupons
        /\ coupons'[c].status = "USED" /\ coupons'[c].used = o
        /\ coupons'[c].usage = coupons[c].usage + 1
        /\ \A d \in DOMAIN coupons : d # c => coupons'[d] = coupons[d]
    BY <1>4, <2>0, <2>1 DEF PayOrder, CouponInv, TypeOK, Coupon
  <2> HIDE DEF c
  <2>3. CouponLinks'
    BY <1>1, <1>2, <2>0, <2>2 DEF CouponInv, CouponLinks, HoldsCoupon
  <2>4. CouponUsedOnce'
    BY <1>1, <1>2, <2>0, <2>2 DEF CouponInv, CouponUsedOnce, Axis, run
  <2> QED  BY <2>3, <2>4
<1> QED
  BY <1>3, <1>4

LEMMA CancelOrderCoupon ==
  ASSUME CouponInv, UNCHANGED run, NEW o \in DOMAIN orders, NEW k \in Keys,
         CanCancelOrder(o), CancelOrder(o, k)
  PROVE  CouponLinks' /\ CouponUsedOnce'
<1> DEFINE c == orders[o].coupon
<1>0. orders[o] \in Order /\ o \in Nat
  BY DEF CouponInv, TypeOK
<1>1. /\ DOMAIN orders' = DOMAIN orders
      /\ orders'[o].coupon = c /\ orders'[o].status = "CANCELLED"
      /\ \A p \in DOMAIN orders : p # o => orders'[p] = orders[p]
  BY <1>0 DEF CancelOrder, CouponInv, TypeOK, Order
<1>2. orders[o].paid = 0 /\ orders[o].status = "PENDING_PAYMENT"
  BY DEF CanCancelOrder, CouponInv, RefundWithinPaid
<1>3. CASE ~(c # 0 /\ HoldsCoupon(o))
  <2>1. coupons' = coupons
    BY <1>3 DEF CancelOrder
  <2>2. CouponLinks'
    BY <1>1, <2>1 DEF CouponInv, CouponLinks, HoldsCoupon
  <2>3. CouponUsedOnce'
    BY <1>1, <1>2, <2>1 DEF CouponInv, CouponUsedOnce, Axis, run
  <2> QED  BY <2>2, <2>3
<1>4. CASE c # 0 /\ HoldsCoupon(o)
  <2>0. c \in DOMAIN coupons /\ coupons[c].status = "RESERVED" /\ coupons[c].reserved = o
    BY <1>4 DEF HoldsCoupon
  <2>1. coupons[c] \in Coupon
    BY <2>0 DEF CouponInv, TypeOK
  <2>2. /\ DOMAIN coupons' = DOMAIN coupons
        /\ coupons'[c].status = "RESTORED" /\ coupons'[c].usage = coupons[c].usage
        /\ \A d \in DOMAIN coupons : d # c => coupons'[d] = coupons[d]
    BY <1>4, <2>0, <2>1 DEF CancelOrder, CouponInv, TypeOK, Coupon
  <2> HIDE DEF c
  <2>3. CouponLinks'
    BY <1>1, <1>2, <2>0, <2>2 DEF CouponInv, CouponLinks, HoldsCoupon
  <2>4. CouponUsedOnce'
    BY <1>1, <1>2, <2>0, <2>2 DEF CouponInv, CouponUsedOnce, Axis, run
  <2> QED  BY <2>3, <2>4
<1> QED
  BY <1>3, <1>4

\* Only the order that spent the coupon can have it restored.
LEMMA RefundOrderCoupon ==
  ASSUME CouponInv, UNCHANGED run, NEW o \in DOMAIN orders, NEW a \in Nat,
         NEW k \in Keys, CanRefundOrder(o, a), RefundOrder(o, a, k)
  PROVE  CouponLinks' /\ CouponUsedOnce'
<1> DEFINE c       == orders[o].coupon
           full    == orders[o].refunded + a >= orders[o].paid
           restore == Restores(o, full)
<1>0. orders[o] \in Order /\ o \in Nat
  BY DEF CouponInv, TypeOK
<1>1. /\ DOMAIN orders' = DOMAIN orders
      /\ orders'[o].coupon = c /\ orders'[o].paid = orders[o].paid
      /\ orders'[o].status = IF full THEN "REFUNDED" ELSE "PARTIALLY_REFUNDED"
      /\ \A p \in DOMAIN orders : p # o => orders'[p] = orders[p]
  BY <1>0 DEF RefundOrder, CouponInv, TypeOK, Order
<1>2. orders[o].status \in {"PAID", "PARTIALLY_REFUNDED"}
  BY DEF CanRefundOrder
<1>3. c # 0 => c \in DOMAIN coupons /\ coupons[c].status = "USED" /\ coupons[c].used = o
  BY <1>2 DEF CouponInv, CouponLinks
<1>4. CASE ~restore
  <2>1. coupons' = coupons
    BY <1>4 DEF RefundOrder
  <2> HIDE DEF c, full
  <2>2. CouponLinks'
    BY <1>1, <1>2, <1>3, <2>1 DEF CouponInv, CouponLinks, HoldsCoupon, c
  <2>3. CouponUsedOnce'
    BY <1>1, <1>2, <2>1 DEF CouponInv, CouponUsedOnce, Axis, run, c
  <2> QED  BY <2>2, <2>3
<1>5. CASE restore
  <2>0. full /\ c # 0 /\ Axis("COUPON_RESTORED_ON_REFUND")
    BY <1>5 DEF Restores
  <2>1. coupons[c] \in Coupon
    BY <1>3, <2>0 DEF CouponInv, TypeOK
  <2>2. /\ DOMAIN coupons' = DOMAIN coupons
        /\ coupons'[c].status = "AVAILABLE"
        /\ \A d \in DOMAIN coupons : d # c => coupons'[d] = coupons[d]
    BY <1>3, <1>5, <2>0, <2>1 DEF RefundOrder, CouponInv, TypeOK, Coupon
  <2>3. CouponLinks'
    <3>1. orders'[o].status = "REFUNDED"
      BY <1>1, <2>0
    <3> HIDE DEF c, full
    <3> QED
      BY <1>1, <1>2, <1>3, <2>0, <2>2, <3>1 DEF CouponInv, CouponLinks, HoldsCoupon
  <2>4. CouponUsedOnce'
    BY <2>0 DEF CouponUsedOnce, Axis, run
  <2> QED  BY <2>3, <2>4
<1> QED
  BY <1>4, <1>5

LEMMA CouponStep ==
  ASSUME CouponInv, Next
  PROVE  CouponLinks' /\ CouponUsedOnce'
<1>0. UNCHANGED run
  BY DEF Next
<1>1. CASE \E b \in Balances, k \in Keys : CanCreateUser(b) /\ CreateUser(b, k)
  BY <1>0, <1>1, CouponUnchanged DEF CouponInv, CreateUser
<1>2. CASE OrderCommand
  BY <1>0, <1>2, ArgumentsAssumption, CreateOrderCoupon, PayOrderCoupon, CancelOrderCoupon,
     RefundOrderCoupon DEF OrderCommand
<1>3. CASE CouponCommand
  BY <1>0, <1>3, IssueCouponCoupon, ApplyCouponCoupon DEF CouponCommand
<1>4. CASE PointsCommand
  BY <1>0, <1>4, CouponUnchanged DEF CouponInv, PointsCommand, RedeemPoints
<1>5. CASE MembershipCommand
  BY <1>0, <1>5, CouponUnchanged
     DEF CouponInv, MembershipCommand, ActivateMembership, ConsumeEntitlement, CancelMembership
<1>6. CASE DeleteState
  BY <1>6 DEF DeleteState, CouponLinks, CouponUsedOnce
<1> QED
  BY <1>1, <1>2, <1>3, <1>4, <1>5, <1>6 DEF Next

LEMMA OrdersStep ==
  ASSUME TypeOK, OrdersInv, [Next]_domainVars
  PROVE  OrdersInv'
<1>1. ASSUME UNCHANGED domainVars  PROVE OrdersInv'
  BY <1>1, MoneyUnchanged, CouponUnchanged DEF OrdersInv, domainVars, run
<1>2. ASSUME Next  PROVE OrdersInv'
  BY <1>2, MoneyStep, CouponStep DEF OrdersInv, CouponInv
<1> QED
  BY <1>1, <1>2

LEMMA OrdersInit == Init => OrdersInv
  BY DEF Init, EmptyTables, OrdersInv, RefundWithinPaid, CouponLinks, CouponUsedOnce

\* The three order and coupon facts are inductive together, given the types.
THEOREM OrdersInvariant == Spec => []OrdersInv
<1>1. TypeOK /\ OrdersInv /\ [Next]_domainVars => OrdersInv'
  BY OrdersStep
<1> QED
  BY <1>1, OrdersInit, TypeCorrect, PTL DEF Spec

\* _apply_coupon, _pay_order, _cancel_order, _refund_order: a coupon is spent at most once, on
\* the one paid order that names it, in every run without the restoring axis.
THEOREM CouponsSpentOnce == Spec => []CouponUsedOnce
<1>1. OrdersInv => CouponUsedOnce
  BY DEF OrdersInv
<1> QED
  BY <1>1, OrdersInvariant, PTL

\* _pay_order's COUPON_STATE_INVALID cannot be raised, in any profile: no sequence of commands
\* on other orders takes a pending order's coupon from it.
THEOREM CouponsHeld == Spec => []PendingOrderHoldsItsCoupon
<1>1. OrdersInv => PendingOrderHoldsItsCoupon
  BY DEF OrdersInv, CouponLinks, PendingOrderHoldsItsCoupon
<1> QED
  BY <1>1, OrdersInvariant, PTL

\* A CANCELLED or REFUNDED order is never written again: every handler that writes an order
\* requires another status, and only a reset removes it.
THEOREM TerminalOrdersFrozen == Spec => TerminalOrderFrozen
<1> DEFINE Frozen == \A o \in DOMAIN orders :
                       orders[o].status \in {"CANCELLED", "REFUNDED"} =>
                         (user'.exists => o \in DOMAIN orders' /\ orders'[o] = orders[o])
<1>1. TypeOK /\ [Next]_domainVars => Frozen
  <2> SUFFICES ASSUME TypeOK, Next  PROVE Frozen
    BY DEF domainVars
  <2>1. CASE UNCHANGED orders
    BY <2>1
  <2>2. ASSUME NEW a \in Amounts, NEW k \in Keys, CreateOrder(a, k)  PROVE Frozen
    BY <2>2 DEF CreateOrder, TypeOK
  <2>3. ASSUME NEW o \in DOMAIN orders, NEW row,
               orders[o].status \notin {"CANCELLED", "REFUNDED"},
               orders' = [orders EXCEPT ![o] = row]
        PROVE  Frozen
    BY <2>3 DEF TypeOK
  <2>4. CASE OrderCommand
    <3>1. ASSUME NEW o \in DOMAIN orders, NEW k \in Keys, CanPayOrder(o), PayOrder(o, k)
          PROVE  Frozen
      <4>1. PICK row : orders' = [orders EXCEPT ![o] = row]
        BY <3>1 DEF PayOrder
      <4> QED  BY <2>3, <3>1, <4>1 DEF CanPayOrder
    <3>2. ASSUME NEW o \in DOMAIN orders, NEW k \in Keys, CanCancelOrder(o), CancelOrder(o, k)
          PROVE  Frozen
      <4>1. PICK row : orders' = [orders EXCEPT ![o] = row]
        BY <3>2 DEF CancelOrder
      <4> QED  BY <2>3, <3>2, <4>1 DEF CanCancelOrder
    <3>3. ASSUME NEW o \in DOMAIN orders, NEW a \in Amounts, NEW k \in Keys,
                 CanRefundOrder(o, a), RefundOrder(o, a, k)
          PROVE  Frozen
      <4>1. PICK row : orders' = [orders EXCEPT ![o] = row]
        BY <3>3 DEF RefundOrder
      <4> QED  BY <2>3, <3>3, <4>1 DEF CanRefundOrder
    <3> HIDE DEF Frozen
    <3> QED  BY <2>2, <2>4, <3>1, <3>2, <3>3 DEF OrderCommand
  <2>5. CASE CouponCommand
    BY <2>1, <2>3, <2>5 DEF CouponCommand, IssueCoupon, CanApplyCoupon, ApplyCoupon
  <2>6. CASE DeleteState
    BY <2>6 DEF DeleteState, NoUser
  <2> QED
    BY <2>1, <2>4, <2>5, <2>6
       DEF Next, CreateUser, PointsCommand, RedeemPoints, MembershipCommand,
           ActivateMembership, ConsumeEntitlement, CancelMembership
<1> QED
  BY <1>1, TypeCorrect, PTL DEF Spec, TerminalOrderFrozen

-----------------------------------------------------------------------------
(* The points ledger. *)

\* Rounding down is monotone, and a share of the whole is at most the whole.
LEMMA ShareMonotone ==
  ASSUME NEW p \in Nat, NEW d \in Nat, d > 0, NEW a \in Nat, NEW b \in Nat, a <= b
  PROVE  /\ (p * a) \div d <= (p * b) \div d
         /\ (p * d) \div d = p
         /\ (p * 0) \div d = 0
<1>1. p * a \in Nat /\ p * b \in Nat /\ p * a <= p * b
  OBVIOUS
<1>2. ASSUME NEW x \in Nat, NEW y \in Nat, x <= y  PROVE x \div d <= y \div d
  BY <1>2
<1> QED
  BY <1>1, <1>2

\* _revoke_points: the more of an order is refunded, the more of its points must be gone.
LEMMA TargetMonotone ==
  ASSUME NEW o \in Order, o.paid > 0, NEW a \in Nat, NEW b \in Nat, a <= b
  PROVE  /\ target_revoke(o, a) \in Nat /\ target_revoke(o, b) \in Nat
         /\ target_revoke(o, a) <= target_revoke(o, b)
         /\ target_revoke(o, 0) = 0
<1> DEFINE p == o.points  d == o.paid
<1>1. p \in Nat /\ d \in Nat /\ d > 0
  BY DEF Order
<1>2. target_revoke(o, a) \in Nat /\ target_revoke(o, b) \in Nat
  BY RevokeType
<1>3. target_revoke(o, a) <= target_revoke(o, b)
  <2>1. CASE a >= d
    BY <1>1, <2>1 DEF target_revoke
  <2>2. CASE ~(a >= d)
    <3>1. a <= d
      BY <1>1, <2>2
    <3>2. /\ (p * a) \div d <= (p * b) \div d
          /\ (p * a) \div d <= (p * d) \div d
          /\ (p * d) \div d = p
      <4> HIDE DEF p, d
      <4> QED  BY <1>1, <3>1, ShareMonotone
    <3>3. target_revoke(o, a) = (p * a) \div d
      BY <2>2 DEF target_revoke
    <3>4. target_revoke(o, b) \in {p, (p * b) \div d}
      BY DEF target_revoke
    <3> QED  BY <3>2, <3>3, <3>4
  <2> QED  BY <2>1, <2>2
<1>4. target_revoke(o, 0) = 0
  <2>1. (p * 0) \div d = 0
    <3> HIDE DEF p, d
    <3> QED  BY <1>1, ShareMonotone
  <2> QED  BY <1>1, <2>1 DEF target_revoke
<1> QED
  BY <1>2, <1>3, <1>4

\* _revoke_points: adding the step to what was revoked for `a` gives the target for `b`.
LEMMA RevokeReachesTarget ==
  ASSUME NEW o \in Order, o.paid > 0, NEW a \in Nat, NEW b \in Nat, a <= b,
         o.ledgerRevoke = target_revoke(o, a)
  PROVE  o.ledgerRevoke + revoke_delta(o, b) = target_revoke(o, b)
<1>1. /\ target_revoke(o, a) \in Nat /\ target_revoke(o, b) \in Nat
      /\ target_revoke(o, a) <= target_revoke(o, b)
  BY TargetMonotone
<1> QED
  BY <1>1 DEF revoke_delta

\* What one order row says about points.
PointsRow(r) ==
  /\ r.paid = 0 => r.points = 0 /\ r.ledgerGrant = 0 /\ r.ledgerRevoke = 0
  /\ ~RefundPoints => r.points = 0 /\ r.ledgerGrant = 0 /\ r.ledgerRevoke = 0
  /\ ~Axis("POINTS_GRANTED_AGAIN_ON_REFUND") =>
       /\ r.ledgerGrant = r.points
       /\ r.ledgerRevoke = IF r.paid = 0 THEN 0 ELSE target_revoke(r, r.refunded)

PointsRows == \A o \in DOMAIN orders : PointsRow(orders[o])

LEMMA PointsRowsSplit == PointsRows <=> PointsLinks /\ PointsRevokedExactly
  BY DEF PointsRows, PointsRow, PointsLinks, PointsRevokedExactly

\* The row that a handler on order o writes, and the rest of the table.
LEMMA PointsUpdate ==
  ASSUME TypeOK, PointsRows, UNCHANGED run,
         NEW o \in DOMAIN orders, NEW row \in Order, PointsRow(row),
         orders' = [orders EXCEPT ![o] = row]
  PROVE  PointsRows'
<1>1. \A p \in DOMAIN orders' : PointsRow(orders'[p])
  BY UpdateRow DEF TypeOK, PointsRows
<1> QED
  BY <1>1 DEF PointsRows, PointsRow, RefundPoints, Axis, run

LEMMA PointsUnchanged ==
  ASSUME PointsRows, UNCHANGED run, UNCHANGED orders
  PROVE  PointsRows'
  BY DEF PointsRows, PointsRow, RefundPoints, Axis, run

LEMMA CreateOrderPoints ==
  ASSUME TypeOK, PointsRows, UNCHANGED run, NEW a \in Amounts, NEW k \in Keys,
         CreateOrder(a, k)
  PROVE  PointsRows'
<1> DEFINE row == [original |-> a, discount |-> 0, paid |-> 0, refunded |-> 0, points |-> 0,
                   ledgerGrant |-> 0, ledgerRevoke |-> 0, status |-> "PENDING_PAYMENT",
                   coupon |-> 0]
<1>1. row \in Order
  BY ArgumentsAssumption DEF Order, OrderStatus
<1>2. PointsRow(row)
  BY DEF PointsRow
<1>3. orders' = Append(orders, row)
  BY DEF CreateOrder
<1> HIDE DEF row
<1>4. \A p \in DOMAIN orders' : PointsRow(orders'[p])
  BY <1>1, <1>2, <1>3, AppendRow DEF TypeOK, PointsRows
<1> QED
  BY <1>4 DEF PointsRows, PointsRow, RefundPoints, Axis, run

LEMMA ApplyCouponPoints ==
  ASSUME TypeOK, PointsRows, UNCHANGED run,
         NEW o \in DOMAIN orders, NEW c \in DOMAIN coupons, NEW k \in Keys,
         ApplyCoupon(o, c, k)
  PROVE  PointsRows'
<1> DEFINE row == orders'[o]
<1>1. orders[o] \in Order /\ PointsRow(orders[o])
  BY DEF TypeOK, PointsRows
<1>2. /\ orders' = [orders EXCEPT ![o] = row]
      /\ row.paid = orders[o].paid /\ row.refunded = orders[o].refunded
      /\ row.points = orders[o].points /\ row.ledgerGrant = orders[o].ledgerGrant
      /\ row.ledgerRevoke = orders[o].ledgerRevoke
  BY <1>1 DEF ApplyCoupon, TypeOK, Order
<1>3. row \in Order
  <2>1. TypeOK'
    BY ApplyCouponType
  <2> QED  BY <1>2, <2>1 DEF TypeOK
<1>4. PointsRow(row)
  <2> HIDE DEF row
  <2> QED  BY <1>1, <1>2 DEF PointsRow, target_revoke
<1> HIDE DEF row
<1> QED
  BY <1>2, <1>3, <1>4, PointsUpdate

LEMMA CancelOrderPoints ==
  ASSUME TypeOK, PointsRows, UNCHANGED run, NEW o \in DOMAIN orders, NEW k \in Keys,
         CancelOrder(o, k)
  PROVE  PointsRows'
<1> DEFINE row == orders'[o]
<1>1. orders[o] \in Order /\ PointsRow(orders[o])
  BY DEF TypeOK, PointsRows
<1>2. /\ orders' = [orders EXCEPT ![o] = row]
      /\ row.paid = orders[o].paid /\ row.refunded = orders[o].refunded
      /\ row.points = orders[o].points /\ row.ledgerGrant = orders[o].ledgerGrant
      /\ row.ledgerRevoke = orders[o].ledgerRevoke
  BY <1>1 DEF CancelOrder, TypeOK, Order
<1>3. row \in Order
  <2>1. TypeOK'
    BY CancelOrderType
  <2> QED  BY <1>2, <2>1 DEF TypeOK
<1>4. PointsRow(row)
  <2> HIDE DEF row
  <2> QED  BY <1>1, <1>2 DEF PointsRow, target_revoke
<1> HIDE DEF row
<1> QED
  BY <1>2, <1>3, <1>4, PointsUpdate

\* A payment grants the order's points once; nothing of it has been refunded.
LEMMA PayOrderPoints ==
  ASSUME TypeOK, RefundWithinPaid, PointsRows, UNCHANGED run,
         NEW o \in DOMAIN orders, NEW k \in Keys, CanPayOrder(o), PayOrder(o, k)
  PROVE  PointsRows'
<1> DEFINE row    == orders'[o]
           paid   == orders[o].original - orders[o].discount
           points == IF RefundPoints THEN points_for(paid) ELSE 0
<1>1. orders[o] \in Order /\ PointsRow(orders[o]) /\ MoneyOK(orders[o])
  BY MoneyRows DEF TypeOK, PointsRows
<1>2. /\ paid > 0 /\ paid \in Nat /\ points \in Nat
      /\ orders[o].paid = 0 /\ orders[o].refunded = 0
      /\ orders[o].ledgerGrant = 0 /\ orders[o].ledgerRevoke = 0
  <2>1. paid > 0 /\ paid \in Nat
    BY <1>1 DEF CanPayOrder, Order
  <2>2. points \in Nat
    BY <2>1, PointsForType
  <2> QED  BY <1>1, <2>1, <2>2 DEF CanPayOrder, PointsRow, MoneyOK
<1>3. /\ orders' = [orders EXCEPT ![o] = row]
      /\ row.paid = paid /\ row.refunded = orders[o].refunded
      /\ row.points = points /\ row.ledgerGrant = orders[o].ledgerGrant + points
      /\ row.ledgerRevoke = orders[o].ledgerRevoke
  BY <1>1 DEF PayOrder, TypeOK, Order
<1>4. row \in Order
  <2>1. TypeOK'
    BY PayOrderType
  <2> QED  BY <1>3, <2>1 DEF TypeOK
<1>5. ~RefundPoints => points = 0
  OBVIOUS
<1>6. PointsRow(row)
  <2> HIDE DEF row, paid, points
  <2>1. /\ row.paid > 0 /\ row.points = points /\ row.ledgerGrant = points
        /\ row.ledgerRevoke = 0 /\ row.refunded = 0
    BY <1>2, <1>3
  <2>2. target_revoke(row, row.refunded) = 0
    BY <1>4, <2>1, TargetMonotone
  <2> QED  BY <1>5, <2>1, <2>2 DEF PointsRow
<1> HIDE DEF row
<1> QED
  BY <1>3, <1>4, <1>6, PointsUpdate

\* A refund brings the ledger's sum to the target of the new total, whatever refunds came before.
LEMMA RefundOrderPoints ==
  ASSUME TypeOK, PointsRows, UNCHANGED run, NEW o \in DOMAIN orders,
         NEW a \in Nat, NEW k \in Keys, CanRefundOrder(o, a), RefundOrder(o, a, k)
  PROVE  PointsRows'
<1> DEFINE row      == orders'[o]
           refunded == orders[o].refunded + a
           again    == RefundPoints /\ Axis("POINTS_GRANTED_AGAIN_ON_REFUND")
           extra    == IF again THEN points_for(a) ELSE 0
           delta    == IF RefundPoints /\ ~again THEN revoke_delta(orders[o], refunded) ELSE 0
<1>1. orders[o] \in Order /\ PointsRow(orders[o]) /\ a \in Nat
  BY ArgumentsAssumption DEF TypeOK, PointsRows
<1>2. /\ orders[o].refunded \in Nat /\ orders[o].paid \in Nat /\ orders[o].paid > 0
      /\ refunded \in Nat /\ orders[o].refunded <= refunded
      /\ orders[o].ledgerGrant \in Nat /\ orders[o].ledgerRevoke \in Nat
  BY <1>1 DEF CanRefundOrder, refundable, Order
<1>3. /\ orders' = [orders EXCEPT ![o] = row]
      /\ row.paid = orders[o].paid /\ row.points = orders[o].points
      /\ row.refunded = refunded
      /\ row.ledgerGrant = orders[o].ledgerGrant + extra
      /\ row.ledgerRevoke = orders[o].ledgerRevoke + delta
  BY <1>1 DEF RefundOrder, TypeOK, Order
<1>4. row \in Order
  <2>1. TypeOK'
    BY RefundOrderType
  <2> QED  BY <1>3, <2>1, WrittenRow
<1>5. /\ ~RefundPoints => extra = 0 /\ delta = 0
      /\ ~Axis("POINTS_GRANTED_AGAIN_ON_REFUND") => extra = 0
      /\ RefundPoints /\ ~Axis("POINTS_GRANTED_AGAIN_ON_REFUND") =>
           delta = revoke_delta(orders[o], refunded)
  OBVIOUS
<1> HIDE DEF row, extra, delta, refunded, again
<1>6. target_revoke(row, refunded) = target_revoke(orders[o], refunded)
  BY <1>3 DEF target_revoke
<1>7. ASSUME ~Axis("POINTS_GRANTED_AGAIN_ON_REFUND")
      PROVE  row.ledgerRevoke = target_revoke(row, row.refunded)
  <2>1. orders[o].ledgerRevoke = target_revoke(orders[o], orders[o].refunded)
    BY <1>1, <1>2, <1>7 DEF PointsRow
  <2>2. orders[o].ledgerRevoke + revoke_delta(orders[o], refunded)
          = target_revoke(orders[o], refunded)
    BY <1>1, <1>2, <2>1, RevokeReachesTarget
  <2>3. CASE RefundPoints
    BY <1>3, <1>5, <1>6, <1>7, <2>2, <2>3
  <2>4. CASE ~RefundPoints
    <3>1. orders[o].points = 0 /\ orders[o].ledgerRevoke = 0 /\ delta = 0
      BY <1>1, <1>5, <2>4 DEF PointsRow
    <3>2. (0 * refunded) \div orders[o].paid = 0
      BY <1>2
    <3>3. target_revoke(orders[o], refunded) = 0
      BY <3>1, <3>2 DEF target_revoke
    <3> QED  BY <1>3, <1>6, <3>1, <3>3
  <2> QED  BY <2>3, <2>4
<1>8. PointsRow(row)
  BY <1>1, <1>2, <1>3, <1>5, <1>7 DEF PointsRow
<1> QED
  BY <1>3, <1>4, <1>8, PointsUpdate

LEMMA PointsStep ==
  ASSUME TypeOK, RefundWithinPaid, PointsRows, Next
  PROVE  PointsRows'
<1>0. UNCHANGED run
  BY DEF Next
<1>1. CASE \E b \in Balances, k \in Keys : CanCreateUser(b) /\ CreateUser(b, k)
  BY <1>0, <1>1, PointsUnchanged DEF CreateUser
<1>2. CASE OrderCommand
  BY <1>0, <1>2, ArgumentsAssumption, CreateOrderPoints, PayOrderPoints, CancelOrderPoints,
     RefundOrderPoints DEF OrderCommand
<1>3. CASE CouponCommand
  BY <1>0, <1>3, PointsUnchanged, ApplyCouponPoints DEF CouponCommand, IssueCoupon
<1>4. CASE PointsCommand
  BY <1>0, <1>4, PointsUnchanged DEF PointsCommand, RedeemPoints
<1>5. CASE MembershipCommand
  BY <1>0, <1>5, PointsUnchanged
     DEF MembershipCommand, ActivateMembership, ConsumeEntitlement, CancelMembership
<1>6. CASE DeleteState
  BY <1>6 DEF DeleteState, PointsRows
<1> QED
  BY <1>1, <1>2, <1>3, <1>4, <1>5, <1>6 DEF Next

\* The balance a handler leaves, and the profile it is judged under.
LEMMA BalanceUpdate ==
  ASSUME PointsNeverNegative, UNCHANGED run,
         ~Axis("POINTS_OVERREDEMPTION") /\ user.points >= 0 => user'.points >= 0
  PROVE  PointsNeverNegative'
  BY DEF PointsNeverNegative, Axis, run

LEMMA PayOrderBalance ==
  ASSUME TypeOK, PointsNeverNegative, UNCHANGED run, NEW o \in DOMAIN orders, NEW k \in Keys,
         CanPayOrder(o), PayOrder(o, k)
  PROVE  PointsNeverNegative'
<1> DEFINE paid   == orders[o].original - orders[o].discount
           points == IF RefundPoints THEN points_for(paid) ELSE 0
<1>1. user \in User /\ orders[o] \in Order
  BY DEF TypeOK
<1>2. points \in Nat
  <2>1. paid \in Nat
    BY <1>1 DEF CanPayOrder, Order
  <2> QED  BY <2>1, PointsForType
<1>3. user'.points = user.points + points
  BY <1>1 DEF PayOrder, User
<1> HIDE DEF points
<1> QED
  BY <1>1, <1>2, <1>3, BalanceUpdate DEF User

\* POINTS_ALREADY_REDEEMED: a refund that would take more points than there are is refused.
LEMMA RefundOrderBalance ==
  ASSUME TypeOK, PointsNeverNegative, UNCHANGED run, NEW o \in DOMAIN orders,
         NEW a \in Nat, NEW k \in Keys, CanRefundOrder(o, a), RefundOrder(o, a, k)
  PROVE  PointsNeverNegative'
<1> DEFINE refunded == orders[o].refunded + a
           again    == RefundPoints /\ Axis("POINTS_GRANTED_AGAIN_ON_REFUND")
           extra    == IF again THEN points_for(a) ELSE 0
           delta    == IF RefundPoints /\ ~again THEN revoke_delta(orders[o], refunded) ELSE 0
<1>1. user \in User /\ user.points \in Int /\ orders[o] \in Order /\ a \in Nat
  BY ArgumentsAssumption DEF TypeOK, User
<1>2. extra \in Nat /\ delta \in Nat
  <2>1. refunded \in Nat /\ orders[o].paid > 0
    BY <1>1 DEF CanRefundOrder, refundable, Order
  <2>2. revoke_delta(orders[o], refunded) \in Nat
    <3> HIDE DEF refunded
    <3> QED  BY <1>1, <2>1, RevokeType
  <2> QED  BY <1>1, <2>2, PointsForType
<1>3. user'.points = user.points + extra - delta
  BY <1>1 DEF RefundOrder, User
<1>4. delta = 0 \/ user.points >= delta
  BY DEF CanRefundOrder, Revocable
<1> HIDE DEF extra, delta
<1> QED
  BY <1>1, <1>2, <1>3, <1>4, BalanceUpdate

LEMMA RedeemPointsBalance ==
  ASSUME TypeOK, PointsNeverNegative, UNCHANGED run, NEW p \in PointAmounts, NEW k \in Keys,
         CanRedeemPoints(p), RedeemPoints(p, k)
  PROVE  PointsNeverNegative'
<1>1. user \in User /\ user.points \in Int /\ p \in Nat
  BY ArgumentsAssumption DEF TypeOK, User
<1>2. user'.points = user.points - p
  BY <1>1 DEF RedeemPoints, User
<1> QED
  BY <1>1, <1>2, BalanceUpdate DEF CanRedeemPoints

LEMMA BalanceStep ==
  ASSUME TypeOK, PointsNeverNegative, Next
  PROVE  PointsNeverNegative'
<1>0. UNCHANGED run /\ user \in User
  BY DEF Next, TypeOK
<1>1. ASSUME user'.points = user.points  PROVE PointsNeverNegative'
  BY <1>0, <1>1, BalanceUpdate
<1>2. CASE \E b \in Balances, k \in Keys : CanCreateUser(b) /\ CreateUser(b, k)
  BY <1>2 DEF CreateUser, PointsNeverNegative
<1>3. CASE OrderCommand
  BY <1>0, <1>1, <1>3, ArgumentsAssumption, PayOrderBalance, RefundOrderBalance
     DEF OrderCommand, CreateOrder, CancelOrder
<1>4. CASE CouponCommand
  BY <1>1, <1>4 DEF CouponCommand, IssueCoupon, ApplyCoupon
<1>5. CASE PointsCommand
  BY <1>0, <1>5, RedeemPointsBalance DEF PointsCommand
<1>6. CASE MembershipCommand
  BY <1>0, <1>1, <1>6
     DEF MembershipCommand, ActivateMembership, ConsumeEntitlement, CancelMembership, User
<1>7. CASE DeleteState
  BY <1>7 DEF DeleteState, NoUser, PointsNeverNegative
<1> QED
  BY <1>2, <1>3, <1>4, <1>5, <1>6, <1>7 DEF Next

\* The ledger sums, the order's points and the user's balance agree after every command.
THEOREM PointsInvariant == Spec => []PointsInv
<1>1. Init => PointsInv
  BY DEF Init, EmptyTables, NoUser, PointsInv, PointsLinks, PointsRevokedExactly,
         PointsNeverNegative
<1>2. TypeOK /\ OrdersInv /\ PointsInv /\ [Next]_domainVars => PointsInv'
  <2>1. ASSUME PointsInv, UNCHANGED domainVars  PROVE PointsInv'
    <3>1. PointsRows'
      BY <2>1, PointsRowsSplit, PointsUnchanged DEF PointsInv, domainVars, run
    <3>2. PointsNeverNegative'
      BY <2>1 DEF PointsInv, PointsNeverNegative, Axis, domainVars
    <3>3. (PointsRows <=> PointsLinks /\ PointsRevokedExactly)'
      BY PointsRowsSplit, PTL
    <3> QED  BY <3>1, <3>2, <3>3 DEF PointsInv
  <2>2. ASSUME TypeOK, OrdersInv, PointsInv, Next  PROVE PointsInv'
    <3>1. PointsRows'
      BY <2>2, PointsRowsSplit, PointsStep DEF OrdersInv, PointsInv
    <3>2. PointsNeverNegative'
      BY <2>2, BalanceStep DEF PointsInv
    <3>3. (PointsRows <=> PointsLinks /\ PointsRevokedExactly)'
      BY PointsRowsSplit, PTL
    <3> QED  BY <3>1, <3>2, <3>3 DEF PointsInv
  <2> QED  BY <2>1, <2>2
<1> QED
  BY <1>1, <1>2, TypeCorrect, OrdersInvariant, PTL DEF Spec

\* _pay_order, _refund_order, _revoke_points: in every run without the axis that grants points
\* again, an order's ledger shows the points it earned once and, after any split of refunds,
\* exactly the refunded share of them revoked, rounded down once.
THEOREM PointsRevokedOnce == Spec => []PointsRevokedExactly
<1>1. PointsInv => PointsRevokedExactly
  BY DEF PointsInv
<1> QED
  BY <1>1, PointsInvariant, PTL

\* _redeem_points, _revoke_points: the points balance is never negative unless over-redemption
\* is allowed.
THEOREM BalanceNeverNegative == Spec => []PointsNeverNegative
<1>1. PointsInv => PointsNeverNegative
  BY DEF PointsInv
<1> QED
  BY <1>1, PointsInvariant, PTL

\* All of it at once: the inductive invariant of the tables.
THEOREM TablesInvariant == Spec => []IInv
  BY TypeCorrect, OrdersInvariant, PointsInvariant, MembershipInvariant, PTL DEF IInv

-----------------------------------------------------------------------------
(* Conservation of money *)

\* The row numbers of a table are a finite set.
LEMMA RowsFinite ==
  ASSUME NEW S, NEW t \in Seq(S)
  PROVE  IsFiniteSet(DOMAIN t)
<1>1. DOMAIN t = 1 .. Len(t) /\ Len(t) \in Nat
  OBVIOUS
<1> QED
  BY <1>1, FS_Interval

\* Tables that were not written hold what they held.
LEMMA OrdersHeldType ==
  ASSUME TypeOK
  PROVE  SummableFunction(HeldByOrders) /\ SumFunction(HeldByOrders) \in Int
<1>1. ASSUME NEW o \in DOMAIN orders  PROVE orders[o].paid - orders[o].refunded \in Int
  <2>1. orders[o] \in Order
    BY DEF TypeOK
  <2> QED  BY <2>1 DEF Order
<1>2. IsFiniteSet(DOMAIN orders)
  BY RowsFinite DEF TypeOK
<1>3. SummableFunction(HeldByOrders)
  BY <1>1, <1>2 DEF SummableFunction, Summable, HeldByOrders
<1> QED
  BY <1>3, SumFunctionType

LEMMA MembershipsHeldType ==
  ASSUME TypeOK
  PROVE  SummableFunction(HeldByMemberships) /\ SumFunction(HeldByMemberships) \in Int
<1>1. ASSUME NEW m \in DOMAIN memberships
      PROVE  (IF memberships[m].status = "REFUNDED" THEN 0 ELSE memberships[m].paid) \in Int
  <2>1. memberships[m] \in Membership
    BY DEF TypeOK
  <2> QED  BY <2>1 DEF Membership
<1>2. IsFiniteSet(DOMAIN memberships)
  BY RowsFinite DEF TypeOK
<1>3. SummableFunction(HeldByMemberships)
  BY <1>1, <1>2 DEF SummableFunction, Summable, HeldByMemberships
<1> QED
  BY <1>3, SumFunctionType

\* An order's row is replaced.
LEMMA OrdersHeldUpdate ==
  ASSUME TypeOK, NEW o \in DOMAIN orders, NEW row \in Order,
         orders' = [orders EXCEPT ![o] = row]
  PROVE  SumFunction(HeldByOrders') = SumFunction(HeldByOrders)
            + ((row.paid - row.refunded) - (orders[o].paid - orders[o].refunded))
<1> DEFINE f == HeldByOrders
           e == HeldByOrders'
<1>1. DOMAIN orders' = DOMAIN orders /\ orders'[o] = row
      /\ \A j \in DOMAIN orders : j # o => orders'[j] = orders[j]
  BY UpdateRow DEF TypeOK
<1>2. /\ DOMAIN f = DOMAIN orders /\ DOMAIN e = DOMAIN orders
      /\ \A j \in DOMAIN orders : j # o => e[j] = f[j]
      /\ f[o] = orders[o].paid - orders[o].refunded
      /\ e[o] = row.paid - row.refunded
  BY <1>1 DEF HeldByOrders
<1>3. e[o] \in Int
  BY <1>2 DEF Order
<1>4. SummableFunction(f)
  BY OrdersHeldType
<1>5. SumFunction(e) = SumFunction(f) + (e[o] - f[o])
  <2> HIDE DEF e, f
  <2> QED  BY <1>2, <1>3, <1>4, SumFunctionUpdate
<1> QED
  BY <1>2, <1>5

\* A pending order is created.
LEMMA CreateOrderMoneyKept ==
  ASSUME TypeOK, NEW a \in Amounts, NEW k \in Keys, CreateOrder(a, k)
  PROVE  Wealth' = Wealth
<1> DEFINE row == [original |-> a, discount |-> 0, paid |-> 0,
                   refunded |-> 0, points |-> 0, ledgerGrant |-> 0,
                   ledgerRevoke |-> 0, status |-> "PENDING_PAYMENT", coupon |-> 0]
           f == HeldByOrders
           e == HeldByOrders'
           i == Len(orders) + 1
<1>1. row \in Order
  BY ArgumentsAssumption DEF Order, OrderStatus
<1>2. orders' = Append(orders, row) /\ row.paid = 0 /\ row.refunded = 0
  BY DEF CreateOrder
<1>3. /\ DOMAIN orders' = DOMAIN orders \cup {i} /\ orders'[i] = row
      /\ \A j \in DOMAIN orders : j # i /\ orders'[j] = orders[j]
  <2> HIDE DEF row
  <2> QED  BY <1>1, <1>2, AppendRow DEF TypeOK
<1> HIDE DEF row
<1>4. /\ DOMAIN f = DOMAIN orders /\ DOMAIN e = DOMAIN orders \cup {i} /\ i \notin DOMAIN f
      /\ \A j \in DOMAIN orders : e[j] = f[j]
      /\ e[i] = 0
  BY <1>2, <1>3 DEF HeldByOrders
<1>5. SummableFunction(f) /\ SumFunction(f) \in Int
  BY OrdersHeldType
<1>6. SumFunction(e) = SumFunction(f)
  <2> HIDE DEF e, f, i
  <2>1. SumFunction(e) = SumFunction(f) + e[i]
    BY <1>4, <1>5, SumFunctionExtend
  <2> QED  BY <1>4, <1>5, <2>1
<1>7. user' = user /\ HeldByMemberships' = HeldByMemberships
  BY DEF CreateOrder, HeldByMemberships
<1> QED
  BY <1>6, <1>7 DEF Wealth

\* The other orders' commands move between the user's balance and what an order holds.
LEMMA PayOrderMoneyKept ==
  ASSUME TypeOK, RefundWithinPaid, NEW o \in DOMAIN orders, NEW k \in Keys,
         CanPayOrder(o), PayOrder(o, k), TypeOK'
  PROVE  Wealth' = Wealth
<1> DEFINE paid == orders[o].original - orders[o].discount
           row  == orders'[o]
<1>1. orders[o] \in Order /\ orders[o].paid = 0 /\ orders[o].refunded = 0 /\ paid \in Nat
  <2>1. orders[o] \in Order
    BY DEF TypeOK
  <2>2. orders[o].paid = 0 /\ orders[o].refunded = 0
    BY DEF RefundWithinPaid, CanPayOrder
  <2>3. paid \in Nat
    BY <2>1 DEF CanPayOrder, Order
  <2> QED  BY <2>1, <2>2, <2>3
<1>2. /\ orders' = [orders EXCEPT ![o] = row]
      /\ row.paid = paid /\ row.refunded = orders[o].refunded
  BY <1>1 DEF PayOrder, TypeOK, Order
<1>3. row \in Order
  BY <1>2 DEF TypeOK
<1>4. SumFunction(HeldByOrders') = SumFunction(HeldByOrders) + paid
  <2>1. SumFunction(HeldByOrders') = SumFunction(HeldByOrders)
            + ((row.paid - row.refunded) - (orders[o].paid - orders[o].refunded))
    <3> HIDE DEF row
    <3> QED  BY <1>2, <1>3, OrdersHeldUpdate
  <2> QED  BY <1>1, <1>2, <2>1
<1>5. user'.balance = user.balance - paid /\ user.balance \in Int
  BY DEF PayOrder, TypeOK, User
<1>6. HeldByMemberships' = HeldByMemberships
  BY DEF PayOrder, HeldByMemberships
<1> HIDE DEF paid
<1> QED
  BY <1>1, <1>4, <1>5, <1>6, OrdersHeldType, MembershipsHeldType DEF Wealth

LEMMA RefundOrderMoneyKept ==
  ASSUME TypeOK, NEW o \in DOMAIN orders, NEW a \in Nat, NEW k \in Keys,
         RefundOrder(o, a, k), TypeOK'
  PROVE  Wealth' = Wealth
<1> DEFINE row == orders'[o]
<1>1. orders[o] \in Order
  BY DEF TypeOK
<1>2. /\ orders' = [orders EXCEPT ![o] = row]
      /\ row.paid = orders[o].paid /\ row.refunded = orders[o].refunded + a
  BY <1>1 DEF RefundOrder, TypeOK, Order
<1>3. row \in Order
  BY <1>2 DEF TypeOK
<1>4. SumFunction(HeldByOrders') = SumFunction(HeldByOrders) - a
  <2>1. SumFunction(HeldByOrders') = SumFunction(HeldByOrders)
            + ((row.paid - row.refunded) - (orders[o].paid - orders[o].refunded))
    <3> HIDE DEF row
    <3> QED  BY <1>2, <1>3, OrdersHeldUpdate
  <2>2. orders[o].paid \in Nat /\ orders[o].refunded \in Nat
    BY <1>1 DEF Order
  <2> QED  BY <1>2, <2>1, <2>2, OrdersHeldType
<1>5. user'.balance = user.balance + a /\ user.balance \in Int
  BY DEF RefundOrder, TypeOK, User
<1>6. HeldByMemberships' = HeldByMemberships
  BY DEF RefundOrder, HeldByMemberships
<1> QED
  BY <1>4, <1>5, <1>6, OrdersHeldType, MembershipsHeldType DEF Wealth

\* Cancelling an order and reserving a coupon for it write neither of its two amounts.
LEMMA OtherOrderMoneyKept ==
  ASSUME TypeOK, NEW o \in DOMAIN orders, NEW row \in Order,
         orders' = [orders EXCEPT ![o] = row],
         row.paid = orders[o].paid, row.refunded = orders[o].refunded,
         UNCHANGED <<user, memberships>>
  PROVE  Wealth' = Wealth
<1>1. row.paid \in Nat /\ row.refunded \in Nat
  BY DEF Order
<1>2. SumFunction(HeldByOrders') = SumFunction(HeldByOrders)
        + ((row.paid - row.refunded) - (orders[o].paid - orders[o].refunded))
  BY OrdersHeldUpdate
<1>3. SumFunction(HeldByOrders') = SumFunction(HeldByOrders)
  BY <1>1, <1>2, OrdersHeldType
<1>4. HeldByMemberships' = HeldByMemberships
  BY DEF HeldByMemberships
<1> QED
  BY <1>3, <1>4 DEF Wealth

LEMMA CancelOrderMoneyKept ==
  ASSUME TypeOK, NEW o \in DOMAIN orders, NEW k \in Keys, CancelOrder(o, k), TypeOK'
  PROVE  Wealth' = Wealth
<1> DEFINE row == orders'[o]
<1>1. orders[o] \in Order
  BY DEF TypeOK
<1>2. /\ orders' = [orders EXCEPT ![o] = row]
      /\ row.paid = orders[o].paid /\ row.refunded = orders[o].refunded
  BY <1>1 DEF CancelOrder, TypeOK, Order
<1>3. row \in Order /\ UNCHANGED <<user, memberships>>
  BY <1>2 DEF TypeOK, CancelOrder
<1> HIDE DEF row
<1> QED
  BY <1>2, <1>3, OtherOrderMoneyKept

LEMMA ApplyCouponMoneyKept ==
  ASSUME TypeOK, NEW o \in DOMAIN orders, NEW c \in DOMAIN coupons, NEW k \in Keys,
         ApplyCoupon(o, c, k), TypeOK'
  PROVE  Wealth' = Wealth
<1> DEFINE row == orders'[o]
<1>1. orders[o] \in Order
  BY DEF TypeOK
<1>2. /\ orders' = [orders EXCEPT ![o] = row]
      /\ row.paid = orders[o].paid /\ row.refunded = orders[o].refunded
  BY <1>1 DEF ApplyCoupon, TypeOK, Order
<1>3. row \in Order /\ UNCHANGED <<user, memberships>>
  BY <1>2 DEF TypeOK, ApplyCoupon
<1> HIDE DEF row
<1> QED
  BY <1>2, <1>3, OtherOrderMoneyKept

\* A membership is bought, and ends with or without its price going back.
LEMMA ActivateMembershipMoneyKept ==
  ASSUME TypeOK, NEW a \in Amounts, NEW q \in Quantities, NEW k \in Keys,
         ActivateMembership(a, q, k)
  PROVE  Wealth' = Wealth
<1> DEFINE row == [paid |-> a, status |-> "ACTIVE"]
           f == HeldByMemberships
           e == HeldByMemberships'
           i == Len(memberships) + 1
<1>1. row \in Membership /\ a \in Nat
  BY ArgumentsAssumption DEF Membership, MembershipStatus
<1>2. memberships' = Append(memberships, row) /\ row.paid = a /\ row.status # "REFUNDED"
  BY DEF ActivateMembership
<1>3. /\ DOMAIN memberships' = DOMAIN memberships \cup {i} /\ memberships'[i] = row
      /\ \A j \in DOMAIN memberships : j # i /\ memberships'[j] = memberships[j]
  <2> HIDE DEF row
  <2> QED  BY <1>1, <1>2, AppendRow DEF TypeOK
<1> HIDE DEF row
<1>4. /\ DOMAIN f = DOMAIN memberships /\ DOMAIN e = DOMAIN memberships \cup {i}
      /\ i \notin DOMAIN f
      /\ \A j \in DOMAIN memberships : e[j] = f[j]
      /\ e[i] = a
  BY <1>2, <1>3 DEF HeldByMemberships
<1>5. SummableFunction(f) /\ SumFunction(f) \in Int
  BY MembershipsHeldType
<1>6. SumFunction(e) = SumFunction(f) + a
  <2> HIDE DEF e, f, i
  <2>1. SumFunction(e) = SumFunction(f) + e[i]
    <3>1. e[i] \in Int /\ DOMAIN e = DOMAIN f \cup {i} /\ \A j \in DOMAIN f : e[j] = f[j]
      BY <1>1, <1>4
    <3> QED  BY <1>4, <1>5, <3>1, SumFunctionExtend
  <2> QED  BY <1>4, <1>5, <2>1
<1>7. user'.balance = user.balance - a /\ user.balance \in Int
  BY DEF ActivateMembership, TypeOK, User
<1>8. HeldByOrders' = HeldByOrders
  BY DEF ActivateMembership, HeldByOrders
<1> QED
  BY <1>1, <1>5, <1>6, <1>7, <1>8, OrdersHeldType DEF Wealth

LEMMA CancelMembershipMoneyKept ==
  ASSUME TypeOK, NEW m \in DOMAIN memberships, NEW refund \in BOOLEAN,
         NEW x \in DOMAIN entitlements, NEW k \in Keys,
         CanCancelMembership(m, refund, x), CancelMembership(m, refund, x, k)
  PROVE  Wealth' = Wealth
<1> DEFINE status == IF refund THEN "REFUNDED" ELSE "CANCELLED"
           row == [memberships[m] EXCEPT !.status = status]
           f == HeldByMemberships
           e == HeldByMemberships'
           back == refund_amount(m, refund)
<1>1. memberships[m] \in Membership /\ memberships[m].status = "ACTIVE"
  BY DEF TypeOK, CanCancelMembership
<1>2. /\ memberships' = [memberships EXCEPT ![m] = row]
      /\ row.paid = memberships[m].paid /\ row.status = status /\ row \in Membership
  BY <1>1 DEF CancelMembership, Membership, MembershipStatus
<1>3. /\ DOMAIN memberships' = DOMAIN memberships /\ memberships'[m] = row
      /\ \A j \in DOMAIN memberships : j # m => memberships'[j] = memberships[j]
  <2> HIDE DEF row
  <2> QED  BY <1>2, UpdateRow DEF TypeOK
<1>4. memberships[m].paid \in Nat /\ back = IF refund THEN memberships[m].paid ELSE 0
  BY <1>1 DEF Membership, refund_amount
<1> HIDE DEF row
<1>5. /\ DOMAIN f = DOMAIN memberships /\ DOMAIN e = DOMAIN memberships
      /\ \A j \in DOMAIN memberships : j # m => e[j] = f[j]
      /\ f[m] = memberships[m].paid
      /\ e[m] = IF refund THEN 0 ELSE memberships[m].paid
  BY <1>1, <1>2, <1>3 DEF HeldByMemberships
<1>6. SummableFunction(f) /\ SumFunction(f) \in Int
  BY MembershipsHeldType
<1>7. SumFunction(e) = SumFunction(f) - back
  <2> HIDE DEF e, f
  <2>1. SumFunction(e) = SumFunction(f) + (e[m] - f[m])
    BY <1>4, <1>5, <1>6, SumFunctionUpdate
  <2> HIDE DEF back
  <2> QED  BY <1>4, <1>5, <1>6, <2>1
<1>8. user'.balance = user.balance + back /\ user.balance \in Int
  BY DEF CancelMembership, TypeOK, User
<1>9. HeldByOrders' = HeldByOrders /\ back \in Nat
  BY <1>4 DEF CancelMembership, HeldByOrders
<1> HIDE DEF back
<1> QED
  BY <1>6, <1>7, <1>8, <1>9, OrdersHeldType DEF Wealth

\* The commands that touch no money.
LEMMA NoMoneyMoved ==
  ASSUME UNCHANGED <<orders, memberships>>, user'.balance = user.balance
  PROVE  Wealth' = Wealth
  BY DEF Wealth, HeldByOrders, HeldByMemberships

LEMMA MoneyConservedStep ==
  ASSUME TypeOK, RefundWithinPaid, [Next]_domainVars, TypeOK', user.exists, user'.exists
  PROVE  Wealth' = Wealth
<1>1. CASE UNCHANGED domainVars
  BY <1>1, NoMoneyMoved DEF domainVars
<1>2. CASE \E b \in Balances, k \in Keys : CanCreateUser(b) /\ CreateUser(b, k)
  BY <1>2 DEF CanCreateUser
<1>3. CASE OrderCommand
  BY <1>3, ArgumentsAssumption, CreateOrderMoneyKept, PayOrderMoneyKept, CancelOrderMoneyKept,
     RefundOrderMoneyKept DEF OrderCommand
<1>4. CASE CouponCommand
  BY <1>4, NoMoneyMoved, ApplyCouponMoneyKept DEF CouponCommand, IssueCoupon
<1>5. CASE PointsCommand
  BY <1>5, NoMoneyMoved DEF PointsCommand, RedeemPoints, TypeOK, User
<1>6. CASE MembershipCommand
  BY <1>6, ActivateMembershipMoneyKept, NoMoneyMoved, CancelMembershipMoneyKept
     DEF MembershipCommand, ConsumeEntitlement
<1>7. CASE DeleteState
  BY <1>7 DEF DeleteState, NoUser
<1> QED
  BY <1>1, <1>2, <1>3, <1>4, <1>5, <1>6, <1>7 DEF Next

\* What the user owns, in the account, in orders and in memberships, is the same after every
\* command, in every profile and for any number of orders and memberships.
THEOREM MoneyIsConserved == Spec => MoneyConserved
<1>1. TypeOK /\ TypeOK' /\ RefundWithinPaid /\ [Next]_domainVars
        => [user.exists /\ user'.exists => Wealth' = Wealth]_domainVars
  BY MoneyConservedStep
<1> QED
  BY <1>1, TypeCorrect, RefundsBounded, PTL DEF Spec, MoneyConserved

-----------------------------------------------------------------------------
(* Totals over the event log *)

Selected(s, type, id) == {i \in DOMAIN s : s[i].type = type /\ s[i].id = id}
TotalOf(s, type, id) == SumFunctionOnSet([i \in DOMAIN s |-> s[i].amount], Selected(s, type, id))
Gain(e, type, id) == IF e.type = type /\ e.id = id THEN e.amount ELSE 0

LEMMA EventTotalIs ==
  ASSUME NEW type, NEW id
  PROVE  EventTotal(type, id) = TotalOf(events, type, id)
  BY DEF EventTotal, TotalOf, EventAmounts, EventsOf, Selected

LEMMA TotalSummable ==
  ASSUME NEW s \in Seq(BusinessEvent), NEW type, NEW id
  PROVE  /\ Summable([i \in DOMAIN s |-> s[i].amount], Selected(s, type, id))
         /\ TotalOf(s, type, id) \in Int
<1> DEFINE f == [i \in DOMAIN s |-> s[i].amount]
           S == Selected(s, type, id)
<1>1. IsFiniteSet(S) /\ S \subseteq DOMAIN s
  BY RowsFinite, FS_Subset DEF Selected
<1>2. ASSUME NEW i \in S  PROVE f[i] \in Int
  <2>1. i \in DOMAIN s /\ s[i] \in BusinessEvent
    BY <1>1
  <2> QED  BY <2>1 DEF BusinessEvent
<1>3. Summable(f, S)
  <2> HIDE DEF f, S
  <2> QED  BY <1>1, <1>2 DEF Summable
<1>4. SumFunctionOnSet(f, S) \in Int
  <2> HIDE DEF f, S
  <2> QED  BY <1>3, SumType
<1> QED
  BY <1>3, <1>4 DEF TotalOf

\* One event more.
LEMMA SelectedAppend ==
  ASSUME NEW s \in Seq(BusinessEvent), NEW e \in BusinessEvent, NEW type, NEW id
  PROVE  /\ Selected(Append(s, e), type, id)
              = IF e.type = type /\ e.id = id THEN Selected(s, type, id) \cup {Len(s) + 1}
                ELSE Selected(s, type, id)
         /\ IsFiniteSet(Selected(s, type, id)) /\ Len(s) + 1 \notin Selected(s, type, id)
<1> DEFINE t == Append(s, e)
           S == Selected(s, type, id)
           T == Selected(t, type, id)
           x == Len(s) + 1
<1>1. /\ DOMAIN t = DOMAIN s \cup {x} /\ t[x] = e /\ x \notin DOMAIN s
      /\ \A i \in DOMAIN s : t[i] = s[i]
  BY AppendRow
<1> HIDE DEF t, x
<1>2. \A i : i \in T <=> i \in S \/ (i = x /\ e.type = type /\ e.id = id)
  BY <1>1 DEF Selected
<1>3. x \notin S /\ IsFiniteSet(S)
  BY <1>1, RowsFinite, FS_Subset DEF Selected
<1>4. T = IF e.type = type /\ e.id = id THEN S \cup {x} ELSE S
  <2> HIDE DEF S, T
  <2> QED  BY <1>2
<1> QED
  BY <1>3, <1>4 DEF t, x

LEMMA TotalAppend ==
  ASSUME NEW s \in Seq(BusinessEvent), NEW e \in BusinessEvent, NEW type, NEW id
  PROVE  TotalOf(Append(s, e), type, id) = TotalOf(s, type, id) + Gain(e, type, id)
<1> DEFINE f == [i \in DOMAIN s |-> s[i].amount]
           S == Selected(s, type, id)
           t == Append(s, e)
           g == [i \in DOMAIN t |-> t[i].amount]
           T == Selected(t, type, id)
           x == Len(s) + 1
<1>1. /\ DOMAIN t = DOMAIN s \cup {x} /\ t[x] = e /\ x \notin DOMAIN s
      /\ \A i \in DOMAIN s : t[i] = s[i]
  BY AppendRow
<1>2. Summable(f, S) /\ SumFunctionOnSet(f, S) \in Int
  BY TotalSummable DEF TotalOf
<1> HIDE DEF t, x
<1>3. S \subseteq DOMAIN s /\ x \notin S /\ \A i \in S : g[i] = f[i]
  BY <1>1 DEF Selected
<1>4. T = IF e.type = type /\ e.id = id THEN S \cup {x} ELSE S
  BY SelectedAppend DEF t, x
<1>5. g[x] = e.amount /\ e.amount \in Int
  BY <1>1 DEF BusinessEvent
<1> HIDE DEF f, g, S, T
<1>6. Summable(g, S) /\ SumFunctionOnSet(g, S) = SumFunctionOnSet(f, S)
  BY <1>2, <1>3, SumSame DEF Summable
<1>7. SumFunctionOnSet(g, T) = SumFunctionOnSet(f, S) + Gain(e, type, id)
  <2>1. CASE e.type = type /\ e.id = id
    BY <1>3, <1>4, <1>5, <1>6, <2>1, SumAdd DEF Gain
  <2>2. CASE ~(e.type = type /\ e.id = id)
    BY <1>2, <1>4, <1>6, <2>2 DEF Gain
  <2> QED  BY <2>1, <2>2
<1> QED
  BY <1>7 DEF TotalOf, f, g, S, T, t

LEMMA TotalOne ==
  ASSUME NEW s \in Seq(BusinessEvent), NEW e \in BusinessEvent, NEW type, NEW id
  PROVE  /\ s \o <<e>> \in Seq(BusinessEvent)
         /\ TotalOf(s \o <<e>>, type, id) = TotalOf(s, type, id) + Gain(e, type, id)
<1>1. s \o <<e>> = Append(s, e) /\ Append(s, e) \in Seq(BusinessEvent)
  OBVIOUS
<1> DEFINE t == s \o <<e>>
<1>2. t = Append(s, e) /\ TotalOf(Append(s, e), type, id) = TotalOf(s, type, id) + Gain(e, type, id)
  BY <1>1, TotalAppend
<1> QED
  BY <1>1, <1>2

LEMMA TotalWhen ==
  ASSUME NEW s \in Seq(BusinessEvent), NEW e \in BusinessEvent, NEW type, NEW id,
         NEW cond \in BOOLEAN
  PROVE  /\ s \o When(cond, <<e>>) \in Seq(BusinessEvent)
         /\ TotalOf(s \o When(cond, <<e>>), type, id)
              = TotalOf(s, type, id) + (IF cond THEN Gain(e, type, id) ELSE 0)
<1>1. CASE cond
  BY <1>1, TotalOne DEF When
<1>2. CASE ~cond
  <2>1. When(cond, <<e>>) = << >> /\ s \o << >> = s
    BY <1>2 DEF When
  <2>2. TotalOf(s, type, id) \in Int
    BY TotalSummable
  <2> DEFINE t == s \o When(cond, <<e>>)
  <2>3. t = s
    BY <2>1
  <2>4. t \in Seq(BusinessEvent) /\ TotalOf(t, type, id)
          = TotalOf(s, type, id) + (IF cond THEN Gain(e, type, id) ELSE 0)
    <3> HIDE DEF t
    <3> QED  BY <1>2, <2>2, <2>3
  <2> QED  BY <2>4
<1> QED
  BY <1>1, <1>2

\* The types of the events a command appends.
EmitsOnly(types) ==
  \E new \in Seq(BusinessEvent) : Emit(new) /\ \A i \in DOMAIN new : new[i].type \in types

\* Events of other types leave the totals alone.
LEMMA QuietLog ==
  ASSUME TypeOK, NEW types, EmitsOnly(types), NEW type, type \notin types, NEW id
  PROVE  EventsOf(type, id)' = EventsOf(type, id) /\ EventTotal(type, id)' = EventTotal(type, id)
<1>0. PICK new \in Seq(BusinessEvent) : Emit(new) /\ \A i \in DOMAIN new : new[i].type \in types
  BY DEF EmitsOnly
<1>1. /\ events \in Seq(BusinessEvent) /\ events' = events \o new
      /\ DOMAIN events \subseteq DOMAIN events'
      /\ \A i \in DOMAIN events : events'[i] = events[i]
      /\ \A i \in DOMAIN events' : i \notin DOMAIN events => events'[i].type # type
  <2>1. events \in Seq(BusinessEvent) /\ events' = events \o new
    BY <1>0 DEF TypeOK, Emit
  <2>2. /\ DOMAIN events = 1 .. Len(events) /\ DOMAIN new = 1 .. Len(new)
        /\ DOMAIN events' = 1 .. (Len(events) + Len(new))
        /\ Len(events) \in Nat /\ Len(new) \in Nat
        /\ \A i \in DOMAIN events' :
             events'[i] = IF i <= Len(events) THEN events[i] ELSE new[i - Len(events)]
    BY <2>1
  <2> QED  BY <1>0, <2>1, <2>2
<1>2. EventsOf(type, id)' = EventsOf(type, id)
  <2>1. \A i : i \in EventsOf(type, id)' <=> i \in EventsOf(type, id)
    BY <1>1 DEF EventsOf
  <2> DEFINE A == EventsOf(type, id)'
             B == EventsOf(type, id)
  <2>2. A \subseteq B /\ B \subseteq A
    BY <2>1
  <2> HIDE DEF A, B
  <2>3. A = B
    BY <2>2
  <2> QED  BY <2>3 DEF A, B
<1> DEFINE f == EventAmounts
           e == EventAmounts'
           S == EventsOf(type, id)
<1>3. Summable(f, S)
  <2>1. Summable([i \in DOMAIN events |-> events[i].amount], Selected(events, type, id))
    BY <1>1, TotalSummable
  <2> QED  BY <2>1 DEF EventAmounts, EventsOf, Selected
<1>4. \A i \in S : e[i] = f[i]
  BY <1>1 DEF EventAmounts, EventsOf
<1>5. SumFunctionOnSet(e, S) = SumFunctionOnSet(f, S)
  <2> HIDE DEF e, f, S
  <2> QED  BY <1>3, <1>4, SumSame
<1> QED
  BY <1>2, <1>5 DEF EventTotal

\* Sequences of events of given types.
OnlyEvents(types) == {s \in Seq(BusinessEvent) : \A i \in DOMAIN s : s[i].type \in types}

LEMMA OneOnly ==
  ASSUME NEW types, NEW type \in types \cap BusinessEventType,
         NEW id \in Nat, NEW amount \in Nat, NEW k \in Keys
  PROVE  <<Ev(type, id, amount, k)>> \in OnlyEvents(types)
<1> DEFINE e == Ev(type, id, amount, k)
<1>1. e \in BusinessEvent /\ e.type \in types
  BY EvType DEF Ev
<1> HIDE DEF e
<1>2. <<e>> \in OnlyEvents(types)
  BY <1>1 DEF OnlyEvents
<1> QED
  BY <1>2 DEF e

LEMMA WhenOnly ==
  ASSUME NEW types, NEW cond, NEW es, cond => es \in OnlyEvents(types)
  PROVE  When(cond, es) \in OnlyEvents(types)
  BY DEF When, OnlyEvents

LEMMA ConcatOnly ==
  ASSUME NEW types, NEW s \in OnlyEvents(types), NEW t \in OnlyEvents(types)
  PROVE  s \o t \in OnlyEvents(types)
<1>1. s \in Seq(BusinessEvent) /\ t \in Seq(BusinessEvent)
  BY DEF OnlyEvents
<1>2. /\ s \o t \in Seq(BusinessEvent) /\ DOMAIN (s \o t) = 1 .. (Len(s) + Len(t))
      /\ \A i \in 1 .. (Len(s) + Len(t)) :
           (s \o t)[i] = IF i <= Len(s) THEN s[i] ELSE t[i - Len(s)]
  BY <1>1
<1>3. /\ DOMAIN s = 1 .. Len(s) /\ DOMAIN t = 1 .. Len(t) /\ Len(s) \in Nat /\ Len(t) \in Nat
      /\ \A i \in DOMAIN s : s[i].type \in types
      /\ \A i \in DOMAIN t : t[i].type \in types
  BY <1>1 DEF OnlyEvents
<1>4. ASSUME NEW i \in 1 .. (Len(s) + Len(t))  PROVE (s \o t)[i].type \in types
  <2>1. CASE i <= Len(s)
    BY <1>2, <1>3, <2>1
  <2>2. CASE ~(i <= Len(s))
    <3>1. i - Len(s) \in 1 .. Len(t) /\ (s \o t)[i] = t[i - Len(s)]
      BY <1>2, <1>3, <2>2
    <3> QED  BY <1>3, <3>1
  <2> QED  BY <2>1, <2>2
<1> DEFINE r == s \o t
<1>5. r \in Seq(BusinessEvent) /\ \A i \in DOMAIN r : r[i].type \in types
  BY <1>2, <1>4
<1> HIDE DEF r
<1>6. r \in OnlyEvents(types)
  BY <1>5 DEF OnlyEvents
<1> QED
  BY <1>6 DEF r

LEMMA EmitOnly ==
  ASSUME NEW types, NEW new \in OnlyEvents(types), Emit(new)
  PROVE  EmitsOnly(types)
  BY DEF OnlyEvents, EmitsOnly

\* What each command appends to the log.
LEMMA CreateUserEmits ==
  ASSUME NEW b, NEW k \in Keys, CreateUser(b, k)
  PROVE  EmitsOnly({"USER_CREATED"})
  BY OneOnly, EmitOnly DEF CreateUser, BusinessEventType

LEMMA IssueCouponEmits ==
  ASSUME TypeOK, NEW v, NEW t, NEW k \in Keys, IssueCoupon(v, t, k)
  PROVE  EmitsOnly({"COUPON_ISSUED"})
<1>1. Len(coupons) + 1 \in Nat
  BY DEF TypeOK
<1> QED
  BY <1>1, OneOnly, EmitOnly DEF IssueCoupon, BusinessEventType

LEMMA CreateOrderEmits ==
  ASSUME TypeOK, NEW a, NEW k \in Keys, CreateOrder(a, k)
  PROVE  EmitsOnly({"ORDER_CREATED"})
<1>1. Len(orders) + 1 \in Nat
  BY DEF TypeOK
<1> QED
  BY <1>1, OneOnly, EmitOnly DEF CreateOrder, BusinessEventType

LEMMA ApplyCouponEmits ==
  ASSUME TypeOK, NEW o, NEW c \in DOMAIN coupons, NEW k \in Keys, ApplyCoupon(o, c, k)
  PROVE  EmitsOnly({"COUPON_RESERVED"})
<1>1. c \in Nat
  BY DEF TypeOK
<1> QED
  BY <1>1, OneOnly, EmitOnly DEF ApplyCoupon, BusinessEventType

LEMMA OrderCoupon ==
  ASSUME TypeOK, NEW o \in DOMAIN orders
  PROVE  orders[o] \in Order /\ o \in Nat /\ orders[o].coupon \in Nat
<1>1. orders[o] \in Order /\ o \in Nat
  BY DEF TypeOK
<1> QED
  BY <1>1 DEF Order

LEMMA CancelOrderEmits ==
  ASSUME TypeOK, NEW o \in DOMAIN orders, NEW k \in Keys, CancelOrder(o, k)
  PROVE  EmitsOnly({"COUPON_RESTORED", "ORDER_CANCELLED"})
<1> DEFINE types == {"COUPON_RESTORED", "ORDER_CANCELLED"}
           c == orders[o].coupon
           s == <<Ev("COUPON_RESTORED", c, 0, k)>>
           t == <<Ev("ORDER_CANCELLED", o, 0, k)>>
           restore == c # 0 /\ HoldsCoupon(o)
<1>1. s \in OnlyEvents(types) /\ t \in OnlyEvents(types)
  <2>1. c \in Nat /\ o \in Nat
    BY OrderCoupon
  <2> HIDE DEF c
  <2> QED  BY <2>1, OneOnly DEF BusinessEventType
<1>2. Emit(When(restore, s) \o t)
  BY DEF CancelOrder
<1> HIDE DEF s, t, restore
<1> QED
  BY <1>1, <1>2, WhenOnly, ConcatOnly, EmitOnly

LEMMA RedeemPointsEmits ==
  ASSUME NEW p \in PointAmounts, NEW k \in Keys, RedeemPoints(p, k)
  PROVE  EmitsOnly({"POINTS_REDEEMED"})
<1>1. p \in Nat
  BY ArgumentsAssumption
<1> QED
  BY <1>1, OneOnly, EmitOnly DEF RedeemPoints, BusinessEventType

LEMMA ActivateMembershipEmits ==
  ASSUME TypeOK, NEW a, NEW q \in Quantities, NEW k \in Keys, ActivateMembership(a, q, k)
  PROVE  EmitsOnly({"MEMBERSHIP_ACTIVATED", "ENTITLEMENT_GRANTED"})
<1> DEFINE e1 == Ev("MEMBERSHIP_ACTIVATED", Len(memberships) + 1, 0, k)
           e2 == Ev("ENTITLEMENT_GRANTED", Len(entitlements) + 1, q, k)
<1>1. e1 \in BusinessEvent /\ e2 \in BusinessEvent
  <2>1. Len(memberships) + 1 \in Nat /\ Len(entitlements) + 1 \in Nat /\ q \in Nat
    BY ArgumentsAssumption DEF TypeOK
  <2> QED  BY <2>1, EvType DEF BusinessEventType
<1>2. e1.type = "MEMBERSHIP_ACTIVATED" /\ e2.type = "ENTITLEMENT_GRANTED"
  BY DEF Ev
<1>3. Emit(<<e1, e2>>)
  BY DEF ActivateMembership
<1> HIDE DEF e1, e2
<1>4. <<e1, e2>> \in OnlyEvents({"MEMBERSHIP_ACTIVATED", "ENTITLEMENT_GRANTED"})
  BY <1>1, <1>2 DEF OnlyEvents
<1> QED
  BY <1>3, <1>4, EmitOnly

LEMMA ConsumeEntitlementEmits ==
  ASSUME TypeOK, NEW e \in DOMAIN entitlements, NEW q \in Quantities, NEW k \in Keys,
         ConsumeEntitlement(e, q, k)
  PROVE  EmitsOnly({"ENTITLEMENT_CONSUMED"})
<1>1. q \in Nat /\ e \in Nat
  BY ArgumentsAssumption DEF TypeOK
<1> QED
  BY <1>1, OneOnly, EmitOnly DEF ConsumeEntitlement, BusinessEventType

LEMMA CancelMembershipEmits ==
  ASSUME TypeOK, NEW m \in DOMAIN memberships, NEW refund \in BOOLEAN,
         NEW e \in DOMAIN entitlements, NEW k \in Keys, CancelMembership(m, refund, e, k)
  PROVE  EmitsOnly({"ENTITLEMENT_REVOKED", "MEMBERSHIP_REFUNDED", "MEMBERSHIP_CANCELLED"})
<1> DEFINE types == {"ENTITLEMENT_REVOKED", "MEMBERSHIP_REFUNDED", "MEMBERSHIP_CANCELLED"}
           left  == available(entitlements[e])
           back  == refund_amount(m, refund)
           type  == IF refund THEN "MEMBERSHIP_REFUNDED" ELSE "MEMBERSHIP_CANCELLED"
           revoke == Revokes(e, refund)
           s     == <<Ev("ENTITLEMENT_REVOKED", e, left, k)>>
           t     == <<Ev(type, m, back, k)>>
<1>1. /\ memberships[m] \in Membership /\ entitlements[e] \in Entitlement
      /\ m \in Nat /\ e \in Nat
  BY DEF TypeOK
<1>2. back \in Nat /\ type \in types \cap BusinessEventType
  BY <1>1 DEF Membership, refund_amount, BusinessEventType
<1>3. revoke => left \in Nat
  BY <1>1 DEF Revokes, available, Entitlement
<1>4. revoke => s \in OnlyEvents(types)
  <2> HIDE DEF left, revoke
  <2> QED  BY <1>1, <1>3, OneOnly DEF BusinessEventType
<1>5. t \in OnlyEvents(types)
  <2> HIDE DEF type, back, types
  <2> QED  BY <1>1, <1>2, OneOnly
<1>6. Emit(When(revoke, s) \o t)
  BY DEF CancelMembership
<1> HIDE DEF s, t, revoke
<1> QED
  BY <1>4, <1>5, <1>6, WhenOnly, ConcatOnly, EmitOnly

LEMMA PayOrderEmits ==
  ASSUME TypeOK, NEW o \in DOMAIN orders, NEW k \in Keys, CanPayOrder(o), PayOrder(o, k)
  PROVE  EmitsOnly({"COUPON_USED", "PAYMENT_CAPTURED", "POINTS_GRANTED"})
<1> DEFINE types == {"COUPON_USED", "PAYMENT_CAPTURED", "POINTS_GRANTED"}
           paid == orders[o].original - orders[o].discount
           points == IF RefundPoints THEN points_for(paid) ELSE 0
           c == orders[o].coupon
           s == <<Ev("COUPON_USED", c, 0, k)>>
           t == <<Ev("PAYMENT_CAPTURED", o, paid, k)>>
           u == <<Ev("POINTS_GRANTED", o, points, k)>>
<1>1. orders[o] \in Order /\ o \in Nat /\ c \in Nat
  BY OrderCoupon
<1>2. paid \in Nat
  BY <1>1 DEF CanPayOrder, Order
<1>3. points \in Nat
  BY <1>2, PointsForType
<1>4. s \in OnlyEvents(types) /\ t \in OnlyEvents(types) /\ u \in OnlyEvents(types)
  <2> HIDE DEF c, paid, points
  <2> QED  BY <1>1, <1>2, <1>3, OneOnly DEF BusinessEventType
<1>5. Emit(When(c # 0, s) \o t \o When(RefundPoints, u))
  BY DEF PayOrder
<1> HIDE DEF s, t, u, c
<1>6. When(c # 0, s) \o t \in OnlyEvents(types) /\ When(RefundPoints, u) \in OnlyEvents(types)
  BY <1>4, WhenOnly, ConcatOnly
<1> QED
  BY <1>5, <1>6, ConcatOnly, EmitOnly

LEMMA RefundOrderEmits ==
  ASSUME TypeOK, NEW o \in DOMAIN orders, orders[o].paid > 0, NEW a \in Nat, NEW k \in Keys,
         RefundOrder(o, a, k)
  PROVE  EmitsOnly({"REFUND_ISSUED", "POINTS_GRANTED", "POINTS_REVOKED", "COUPON_RESTORED"})
<1> DEFINE types == {"REFUND_ISSUED", "POINTS_GRANTED", "POINTS_REVOKED", "COUPON_RESTORED"}
           refunded == orders[o].refunded + a
           again    == RefundPoints /\ Axis("POINTS_GRANTED_AGAIN_ON_REFUND")
           extra    == IF again THEN points_for(a) ELSE 0
           delta    == IF RefundPoints /\ ~again THEN revoke_delta(orders[o], refunded) ELSE 0
           c        == orders[o].coupon
           restore  == Restores(o, refunded >= orders[o].paid)
           s == <<Ev("REFUND_ISSUED", o, a, k)>>
           t == <<Ev("POINTS_GRANTED", o, extra, k)>>
           u == <<Ev("POINTS_REVOKED", o, delta, k)>>
           v == <<Ev("COUPON_RESTORED", c, 0, k)>>
<1>1. orders[o] \in Order /\ o \in Nat /\ c \in Nat
  BY OrderCoupon
<1>2. extra \in Nat /\ delta \in Nat
  <2>1. refunded \in Nat
    BY <1>1 DEF Order
  <2>2. points_for(a) \in Nat
    BY PointsForType
  <2>3. revoke_delta(orders[o], refunded) \in Nat
    <3> HIDE DEF refunded
    <3> QED  BY <1>1, <2>1, RevokeType
  <2> HIDE DEF again, refunded
  <2> QED  BY <2>2, <2>3
<1>3. /\ s \in OnlyEvents(types) /\ t \in OnlyEvents(types)
      /\ u \in OnlyEvents(types) /\ v \in OnlyEvents(types)
  <2> HIDE DEF c, extra, delta
  <2> QED  BY <1>1, <1>2, OneOnly DEF BusinessEventType
<1>4. Emit(s \o When(again, t) \o When(delta > 0, u) \o When(restore, v))
  BY DEF RefundOrder
<1> HIDE DEF s, t, u, v, again, delta, restore
<1>5. /\ When(again, t) \in OnlyEvents(types) /\ When(delta > 0, u) \in OnlyEvents(types)
      /\ When(restore, v) \in OnlyEvents(types)
  BY <1>3, WhenOnly
<1>6. s \o When(again, t) \in OnlyEvents(types)
  BY <1>3, <1>5, ConcatOnly
<1>7. s \o When(again, t) \o When(delta > 0, u) \in OnlyEvents(types)
  BY <1>5, <1>6, ConcatOnly
<1>8. s \o When(again, t) \o When(delta > 0, u) \o When(restore, v) \in OnlyEvents(types)
  BY <1>5, <1>7, ConcatOnly
<1> QED
  BY <1>4, <1>8, EmitOnly

-----------------------------------------------------------------------------
(* The books *)

\* What the order's row says; of an order not created yet, nothing.
Book(o) == IF o \in DOMAIN orders THEN orders[o]
           ELSE [refunded |-> 0, ledgerGrant |-> 0, ledgerRevoke |-> 0]
RefundTotal(o) == SumFunctionOnSet(RefundAmounts, RefundsOf(o))

\* The rows and events of an order number agree, whether the order is there or not: a new
\* order finds nothing booked under its number.
BooksOf(o) ==
  /\ RefundTotal(o) = Book(o).refunded
  /\ EventTotal("REFUND_ISSUED", o) = Book(o).refunded
  /\ EventTotal("POINTS_GRANTED", o) = Book(o).ledgerGrant
  /\ EventTotal("POINTS_REVOKED", o) = Book(o).ledgerRevoke

PointsBook == user.points + redeemed = SumFunction(LedgerNet)
NothingWithoutUser == ~user.exists => user.points = 0 /\ orders = <<>>

BooksInv == (\A o \in Nat : BooksOf(o)) /\ PointsBook /\ NothingWithoutUser

Booked == {"REFUND_ISSUED", "POINTS_GRANTED", "POINTS_REVOKED"}

LEMMA LedgerNetType ==
  ASSUME TypeOK
  PROVE  SummableFunction(LedgerNet) /\ SumFunction(LedgerNet) \in Int
<1>1. ASSUME NEW o \in DOMAIN orders  PROVE orders[o].ledgerGrant - orders[o].ledgerRevoke \in Int
  <2>1. orders[o] \in Order
    BY DEF TypeOK
  <2> QED  BY <2>1 DEF Order
<1>2. IsFiniteSet(DOMAIN orders)
  BY RowsFinite DEF TypeOK
<1>3. SummableFunction(LedgerNet)
  BY <1>1, <1>2 DEF SummableFunction, Summable, LedgerNet
<1> QED
  BY <1>3, SumFunctionType

LEMMA LedgerNetUpdate ==
  ASSUME TypeOK, NEW o \in DOMAIN orders, NEW row \in Order,
         orders' = [orders EXCEPT ![o] = row]
  PROVE  SumFunction(LedgerNet') = SumFunction(LedgerNet)
           + ((row.ledgerGrant - row.ledgerRevoke)
              - (orders[o].ledgerGrant - orders[o].ledgerRevoke))
<1> DEFINE f == LedgerNet
           e == LedgerNet'
<1>1. DOMAIN orders' = DOMAIN orders /\ orders'[o] = row
      /\ \A j \in DOMAIN orders : j # o => orders'[j] = orders[j]
  BY UpdateRow DEF TypeOK
<1>2. /\ DOMAIN f = DOMAIN orders /\ DOMAIN e = DOMAIN orders
      /\ \A j \in DOMAIN orders : j # o => e[j] = f[j]
      /\ f[o] = orders[o].ledgerGrant - orders[o].ledgerRevoke
      /\ e[o] = row.ledgerGrant - row.ledgerRevoke
  BY <1>1 DEF LedgerNet
<1>3. e[o] \in Int
  BY <1>2 DEF Order
<1>4. SummableFunction(f)
  BY LedgerNetType
<1>5. SumFunction(e) = SumFunction(f) + (e[o] - f[o])
  <2> HIDE DEF e, f
  <2> QED  BY <1>2, <1>3, <1>4, SumFunctionUpdate
<1> QED
  BY <1>2, <1>5

LEMMA BookUpdate ==
  ASSUME TypeOK, NEW o \in DOMAIN orders, NEW row \in Order,
         orders' = [orders EXCEPT ![o] = row]
  PROVE  /\ Book(o) = orders[o] /\ Book(o)' = row
         /\ \A j : j # o => Book(j)' = Book(j)
<1>1. DOMAIN orders' = DOMAIN orders /\ orders'[o] = row
      /\ \A j \in DOMAIN orders : j # o => orders'[j] = orders[j]
  BY UpdateRow DEF TypeOK
<1> QED
  BY <1>1 DEF Book

\* A command whose events are about something else and that writes no amount of an order.
LEMMA QuietBooks ==
  ASSUME TypeOK, BooksInv, UNCHANGED refunds,
         NEW types, EmitsOnly(types), types \cap Booked = {},
         \A o \in Nat : /\ Book(o)'.refunded = Book(o).refunded
                        /\ Book(o)'.ledgerGrant = Book(o).ledgerGrant
                        /\ Book(o)'.ledgerRevoke = Book(o).ledgerRevoke
  PROVE  (\A o \in Nat : BooksOf(o))'
<1> SUFFICES ASSUME NEW o \in Nat  PROVE BooksOf(o)'
  OBVIOUS
<1>1. ASSUME NEW type \in Booked  PROVE EventTotal(type, o)' = EventTotal(type, o)
  BY QuietLog
<1>2. RefundTotal(o)' = RefundTotal(o)
  BY DEF RefundTotal, RefundAmounts, RefundsOf
<1>3. BooksOf(o)
  BY DEF BooksInv
<1> QED
  BY <1>1, <1>2, <1>3 DEF BooksOf, Booked

\* The commands that leave the orders alone.
LEMMA OrdersUntouched ==
  ASSUME TypeOK, BooksInv, UNCHANGED <<refunds, orders>>,
         NEW types, EmitsOnly(types), types \cap Booked = {},
         user'.points + redeemed' = user.points + redeemed,
         \/ user'.exists = TRUE
         \/ user'.exists = user.exists /\ user'.points = user.points
  PROVE  BooksInv'
<1>1. (\A o \in Nat : BooksOf(o))'
  BY QuietBooks DEF Book
<1>2. PointsBook'
  <2>1. LedgerNet' = LedgerNet
    BY DEF LedgerNet
  <2> QED  BY <2>1 DEF BooksInv, PointsBook
<1> QED
  BY <1>1, <1>2 DEF BooksInv, NothingWithoutUser

LEMMA CreateUserBooks ==
  ASSUME TypeOK, BooksInv, NEW b \in Balances, NEW k \in Keys, CanCreateUser(b), CreateUser(b, k)
  PROVE  BooksInv'
<1>1. user.points = 0 /\ user'.points = 0 /\ user'.exists = TRUE
  BY DEF BooksInv, NothingWithoutUser, CanCreateUser, CreateUser
<1>2. {"USER_CREATED"} \cap Booked = {}
  BY DEF Booked
<1> QED
  BY <1>1, <1>2, CreateUserEmits, OrdersUntouched DEF CreateUser

LEMMA IssueCouponBooks ==
  ASSUME TypeOK, BooksInv, NEW v, NEW t, NEW k \in Keys, IssueCoupon(v, t, k)
  PROVE  BooksInv'
<1>1. {"COUPON_ISSUED"} \cap Booked = {}
  BY DEF Booked
<1> QED
  BY <1>1, IssueCouponEmits, OrdersUntouched DEF IssueCoupon

LEMMA RedeemPointsBooks ==
  ASSUME TypeOK, BooksInv, NEW p \in PointAmounts, NEW k \in Keys,
         CanRedeemPoints(p), RedeemPoints(p, k)
  PROVE  BooksInv'
<1>1. p \in Nat
  BY ArgumentsAssumption
<1>2. user'.points = user.points - p /\ redeemed' = redeemed + p /\ user'.exists = TRUE
  BY DEF RedeemPoints, CanRedeemPoints, TypeOK, User
<1>3. user.points \in Int /\ redeemed \in Nat
  BY DEF TypeOK, User
<1>4. user'.points + redeemed' = user.points + redeemed
  BY <1>1, <1>2, <1>3
<1>5. {"POINTS_REDEEMED"} \cap Booked = {}
  BY DEF Booked
<1> QED
  BY <1>2, <1>4, <1>5, RedeemPointsEmits, OrdersUntouched DEF RedeemPoints

LEMMA ActivateMembershipBooks ==
  ASSUME TypeOK, BooksInv, NEW a, NEW q \in Quantities, NEW k \in Keys,
         ActivateMembership(a, q, k)
  PROVE  BooksInv'
<1>1. user'.points = user.points /\ user'.exists = user.exists
  BY DEF ActivateMembership, TypeOK, User
<1>2. {"MEMBERSHIP_ACTIVATED", "ENTITLEMENT_GRANTED"} \cap Booked = {}
  BY DEF Booked
<1> QED
  BY <1>1, <1>2, ActivateMembershipEmits, OrdersUntouched DEF ActivateMembership

LEMMA ConsumeEntitlementBooks ==
  ASSUME TypeOK, BooksInv, NEW e \in DOMAIN entitlements, NEW q \in Quantities, NEW k \in Keys,
         ConsumeEntitlement(e, q, k)
  PROVE  BooksInv'
<1>1. {"ENTITLEMENT_CONSUMED"} \cap Booked = {}
  BY DEF Booked
<1> QED
  BY <1>1, ConsumeEntitlementEmits, OrdersUntouched DEF ConsumeEntitlement

LEMMA CancelMembershipBooks ==
  ASSUME TypeOK, BooksInv, NEW m \in DOMAIN memberships, NEW refund \in BOOLEAN,
         NEW e \in DOMAIN entitlements, NEW k \in Keys, CancelMembership(m, refund, e, k)
  PROVE  BooksInv'
<1>1. user'.points = user.points /\ user'.exists = user.exists
  BY DEF CancelMembership, TypeOK, User
<1>2. {"ENTITLEMENT_REVOKED", "MEMBERSHIP_REFUNDED", "MEMBERSHIP_CANCELLED"} \cap Booked = {}
  BY DEF Booked
<1> QED
  BY <1>1, <1>2, CancelMembershipEmits, OrdersUntouched DEF CancelMembership

\* A new order starts with empty books.
LEMMA CreateOrderBooks ==
  ASSUME TypeOK, BooksInv, NEW a \in Amounts, NEW k \in Keys,
         CanCreateOrder(a), CreateOrder(a, k)
  PROVE  BooksInv'
<1> DEFINE row == [original |-> a, discount |-> 0, paid |-> 0,
                   refunded |-> 0, points |-> 0, ledgerGrant |-> 0,
                   ledgerRevoke |-> 0, status |-> "PENDING_PAYMENT", coupon |-> 0]
           f == LedgerNet
           e == LedgerNet'
           i == Len(orders) + 1
<1>1. row \in Order
  BY ArgumentsAssumption DEF Order, OrderStatus
<1>2. /\ orders' = Append(orders, row)
      /\ row.refunded = 0 /\ row.ledgerGrant = 0 /\ row.ledgerRevoke = 0
  BY DEF CreateOrder
<1>3. /\ DOMAIN orders' = DOMAIN orders \cup {i} /\ orders'[i] = row
      /\ \A j \in DOMAIN orders : j # i /\ orders'[j] = orders[j]
  <2> HIDE DEF row
  <2> QED  BY <1>1, <1>2, AppendRow DEF TypeOK
<1> HIDE DEF row
<1>4. /\ DOMAIN f = DOMAIN orders /\ DOMAIN e = DOMAIN orders \cup {i} /\ i \notin DOMAIN f
      /\ \A j \in DOMAIN orders : e[j] = f[j]
      /\ e[i] = 0
  BY <1>2, <1>3 DEF LedgerNet
<1>5. SummableFunction(f) /\ SumFunction(f) \in Int
  BY LedgerNetType
<1>6. SumFunction(e) = SumFunction(f)
  <2> HIDE DEF e, f, i
  <2>1. SumFunction(e) = SumFunction(f) + e[i]
    BY <1>4, <1>5, SumFunctionExtend
  <2> QED  BY <1>4, <1>5, <2>1
<1>7. PointsBook'
  BY <1>6 DEF BooksInv, PointsBook, CreateOrder
<1>8. {"ORDER_CREATED"} \cap Booked = {}
  BY DEF Booked
<1>10. \A o \in Nat : /\ Book(o)'.refunded = Book(o).refunded
                      /\ Book(o)'.ledgerGrant = Book(o).ledgerGrant
                      /\ Book(o)'.ledgerRevoke = Book(o).ledgerRevoke
  BY <1>2, <1>3 DEF Book
<1>11. (\A o \in Nat : BooksOf(o))'
  BY <1>8, <1>10, CreateOrderEmits, QuietBooks DEF CreateOrder
<1>12. NothingWithoutUser'
  BY DEF NothingWithoutUser, CanCreateOrder, CreateOrder
<1> QED
  BY <1>7, <1>11, <1>12 DEF BooksInv

\* A command that rewrites an order's row, but none of its amounts.
LEMMA OrderRowBooks ==
  ASSUME TypeOK, BooksInv, NEW o \in DOMAIN orders, NEW row \in Order,
         orders' = [orders EXCEPT ![o] = row], row.refunded = orders[o].refunded,
         row.ledgerGrant = orders[o].ledgerGrant, row.ledgerRevoke = orders[o].ledgerRevoke,
         UNCHANGED <<refunds, user, redeemed>>,
         NEW types, EmitsOnly(types), types \cap Booked = {}
  PROVE  BooksInv'
<1>1. \A j \in Nat : /\ Book(j)'.refunded = Book(j).refunded
                     /\ Book(j)'.ledgerGrant = Book(j).ledgerGrant
                     /\ Book(j)'.ledgerRevoke = Book(j).ledgerRevoke
  BY BookUpdate
<1>2. (\A j \in Nat : BooksOf(j))'
  BY <1>1, QuietBooks
<1>3. PointsBook'
  <2>1. row.ledgerGrant \in Nat /\ row.ledgerRevoke \in Nat
    BY DEF Order
  <2>2. SumFunction(LedgerNet') = SumFunction(LedgerNet)
           + ((row.ledgerGrant - row.ledgerRevoke)
              - (orders[o].ledgerGrant - orders[o].ledgerRevoke))
    BY LedgerNetUpdate
  <2>3. SumFunction(LedgerNet') = SumFunction(LedgerNet)
    BY <2>1, <2>2, LedgerNetType
  <2> QED  BY <2>3 DEF BooksInv, PointsBook
<1>4. NothingWithoutUser'
  <2>1. user.exists
    BY DEF BooksInv, NothingWithoutUser
  <2> QED  BY <2>1 DEF NothingWithoutUser
<1> QED
  BY <1>2, <1>3, <1>4 DEF BooksInv

LEMMA ApplyCouponBooks ==
  ASSUME TypeOK, BooksInv, NEW o \in DOMAIN orders, NEW c \in DOMAIN coupons, NEW k \in Keys,
         ApplyCoupon(o, c, k), TypeOK'
  PROVE  BooksInv'
<1> DEFINE row == orders'[o]
<1>1. orders[o] \in Order
  BY DEF TypeOK
<1>2. /\ orders' = [orders EXCEPT ![o] = row] /\ row.refunded = orders[o].refunded
      /\ row.ledgerGrant = orders[o].ledgerGrant /\ row.ledgerRevoke = orders[o].ledgerRevoke
  BY <1>1 DEF ApplyCoupon, TypeOK, Order
<1>3. row \in Order
  BY <1>2 DEF TypeOK
<1>4. {"COUPON_RESERVED"} \cap Booked = {}
  BY DEF Booked
<1> HIDE DEF row
<1> QED
  BY <1>2, <1>3, <1>4, ApplyCouponEmits, OrderRowBooks DEF ApplyCoupon

LEMMA CancelOrderBooks ==
  ASSUME TypeOK, BooksInv, NEW o \in DOMAIN orders, NEW k \in Keys, CancelOrder(o, k), TypeOK'
  PROVE  BooksInv'
<1> DEFINE row == orders'[o]
<1>1. orders[o] \in Order
  BY DEF TypeOK
<1>2. /\ orders' = [orders EXCEPT ![o] = row] /\ row.refunded = orders[o].refunded
      /\ row.ledgerGrant = orders[o].ledgerGrant /\ row.ledgerRevoke = orders[o].ledgerRevoke
  BY <1>1 DEF CancelOrder, TypeOK, Order
<1>3. row \in Order
  BY <1>2 DEF TypeOK
<1>4. {"COUPON_RESTORED", "ORDER_CANCELLED"} \cap Booked = {}
  BY DEF Booked
<1> HIDE DEF row
<1> QED
  BY <1>2, <1>3, <1>4, CancelOrderEmits, OrderRowBooks DEF CancelOrder

LEMMA LogConcat ==
  ASSUME NEW s \in Seq(BusinessEvent), NEW t \in Seq(BusinessEvent), NEW u \in Seq(BusinessEvent)
  PROVE  s \o (t \o u) = (s \o t) \o u
  BY ConcatAssociative, SMTT(40)

\* What the events of a payment add to the totals.
LEMMA PayOrderTotals ==
  ASSUME TypeOK, NEW o \in DOMAIN orders, NEW k \in Keys, CanPayOrder(o), PayOrder(o, k),
         NEW points, points = (IF RefundPoints THEN points_for(orders[o].original - orders[o].discount) ELSE 0),
         NEW j \in Nat
  PROVE  /\ EventTotal("REFUND_ISSUED", j)' = EventTotal("REFUND_ISSUED", j)
         /\ EventTotal("POINTS_REVOKED", j)' = EventTotal("POINTS_REVOKED", j)
         /\ EventTotal("POINTS_GRANTED", j)' = EventTotal("POINTS_GRANTED", j)
                                                 + (IF j = o THEN points ELSE 0)
<1> DEFINE paid == orders[o].original - orders[o].discount
           c  == orders[o].coupon
           used == c # 0
           e1 == Ev("COUPON_USED", c, 0, k)
           e2 == Ev("PAYMENT_CAPTURED", o, paid, k)
           e3 == Ev("POINTS_GRANTED", o, points, k)
           s1 == events \o When(used, <<e1>>)
           s2 == s1 \o <<e2>>
           s3 == s2 \o When(RefundPoints, <<e3>>)
<1>1. orders[o] \in Order /\ o \in Nat /\ c \in Nat
  <2>1. orders[o] \in Order /\ o \in Nat
    BY DEF TypeOK
  <2> QED  BY <2>1 DEF Order
<1>2. paid \in Nat
  BY <1>1 DEF CanPayOrder, Order
<1>3. points \in Nat
  <2> HIDE DEF paid
  <2> QED  BY <1>2, PointsForType DEF paid
<1>4. e1 \in BusinessEvent /\ e2 \in BusinessEvent /\ e3 \in BusinessEvent
  <2> HIDE DEF c, paid
  <2> QED  BY <1>1, <1>2, <1>3, EvType DEF BusinessEventType
<1>5. events' = events \o (When(used, <<e1>>) \o <<e2>> \o When(RefundPoints, <<e3>>))
  BY DEF PayOrder, Emit
<1>6. /\ e1.type = "COUPON_USED" /\ e2.type = "PAYMENT_CAPTURED"
      /\ e3.type = "POINTS_GRANTED" /\ e3.id = o /\ e3.amount = points
  BY DEF Ev
<1>7. used \in BOOLEAN /\ RefundPoints \in BOOLEAN /\ (~RefundPoints => points = 0)
  BY DEF RefundPoints
<1>8. events \in Seq(BusinessEvent)
  BY DEF TypeOK
<1> HIDE DEF e1, e2, e3, used
<1>9. /\ When(used, <<e1>>) \in Seq(BusinessEvent) /\ <<e2>> \in Seq(BusinessEvent)
      /\ When(RefundPoints, <<e3>>) \in Seq(BusinessEvent)
  BY <1>4 DEF When
<1>10. events' = s3
  <2> DEFINE w1 == When(used, <<e1>>)
             w2 == <<e2>>
             w3 == When(RefundPoints, <<e3>>)
  <2>1. /\ w1 \in Seq(BusinessEvent) /\ w2 \in Seq(BusinessEvent) /\ w3 \in Seq(BusinessEvent)
        /\ events' = events \o ((w1 \o w2) \o w3)
    BY <1>5, <1>9
  <2> HIDE DEF w1, w2, w3
  <2> DEFINE x == w1 \o w2
  <2>2. x \in Seq(BusinessEvent) /\ events \o x = (events \o w1) \o w2
    <3>1. x \in Seq(BusinessEvent)
      BY <1>8, <2>1
    <3>2. events \o x = (events \o w1) \o w2
      BY <1>8, <2>1, LogConcat, ZenonT(40)
    <3> QED  BY <3>1, <3>2
  <2>3. events' = events \o (x \o w3)
    BY <2>1
  <2> HIDE DEF x
  <2>4. events \o (x \o w3) = (events \o x) \o w3
    BY <1>8, <2>1, <2>2, LogConcat, ZenonT(40)
  <2> QED  BY <2>2, <2>3, <2>4, Zenon DEF w1, w2, w3
<1>11. /\ s1 \in Seq(BusinessEvent) /\ s2 \in Seq(BusinessEvent)
  BY <1>4, <1>7, <1>8, TotalWhen, TotalOne
<1>12. ASSUME NEW type
       PROVE  EventTotal(type, j)' = EventTotal(type, j) + (IF used THEN Gain(e1, type, j) ELSE 0)
                + Gain(e2, type, j) + (IF RefundPoints THEN Gain(e3, type, j) ELSE 0)
  <2>1. TotalOf(s1, type, j) = TotalOf(events, type, j) + (IF used THEN Gain(e1, type, j) ELSE 0)
    BY <1>4, <1>7, <1>8, TotalWhen
  <2>2. TotalOf(s2, type, j) = TotalOf(s1, type, j) + Gain(e2, type, j)
    <3> HIDE DEF s1
    <3> QED  BY <1>4, <1>11, TotalOne
  <2>3. TotalOf(s3, type, j) = TotalOf(s2, type, j) + (IF RefundPoints THEN Gain(e3, type, j) ELSE 0)
    <3> HIDE DEF s1, s2
    <3> QED  BY <1>4, <1>7, <1>11, TotalWhen
  <2>4. TotalOf(events, type, j)' = TotalOf(s3, type, j)
    <3> HIDE DEF s3
    <3> QED  BY <1>10 DEF TotalOf, Selected
  <2>5. EventTotal(type, j)' = TotalOf(events, type, j)' /\ EventTotal(type, j) = TotalOf(events, type, j)
    BY EventTotalIs DEF EventTotal, TotalOf, EventAmounts, EventsOf, Selected
  <2> HIDE DEF s1, s2, s3
  <2> QED  BY <2>1, <2>2, <2>3, <2>4, <2>5
<1>13. \A type \in Booked : EventTotal(type, j) \in Int
  BY <1>8, TotalSummable, EventTotalIs
<1> QED
  BY <1>3, <1>6, <1>7, <1>12, <1>13 DEF Gain, Booked

LEMMA PayOrderBooks ==
  ASSUME TypeOK, BooksInv, NEW o \in DOMAIN orders, NEW k \in Keys,
         CanPayOrder(o), PayOrder(o, k), TypeOK'
  PROVE  BooksInv'
<1> DEFINE points == IF RefundPoints THEN points_for(orders[o].original - orders[o].discount) ELSE 0
           row    == orders'[o]
<1>1. orders[o] \in Order /\ o \in Nat
  BY DEF TypeOK
<1>2. points \in Nat
  <2>1. orders[o].original - orders[o].discount \in Nat
    BY <1>1 DEF CanPayOrder, Order
  <2> QED  BY <2>1, PointsForType
<1>3. /\ orders' = [orders EXCEPT ![o] = row] /\ row.refunded = orders[o].refunded
      /\ row.ledgerGrant = orders[o].ledgerGrant + points
      /\ row.ledgerRevoke = orders[o].ledgerRevoke
  BY <1>1 DEF PayOrder, TypeOK, Order
<1>4. row \in Order
  BY <1>3 DEF TypeOK
<1>5. user'.points = user.points + points /\ user'.exists = user.exists /\ UNCHANGED <<refunds, redeemed>>
  BY DEF PayOrder, TypeOK, User
<1>6. \A j \in Nat :
         /\ EventTotal("REFUND_ISSUED", j)' = EventTotal("REFUND_ISSUED", j)
         /\ EventTotal("POINTS_REVOKED", j)' = EventTotal("POINTS_REVOKED", j)
         /\ EventTotal("POINTS_GRANTED", j)' = EventTotal("POINTS_GRANTED", j)
                                                 + (IF j = o THEN points ELSE 0)
  BY PayOrderTotals
<1> HIDE DEF points, row
<1>7. orders[o].ledgerGrant \in Nat /\ orders[o].ledgerRevoke \in Nat
  BY <1>1 DEF Order
<1>8. ASSUME NEW j \in Nat  PROVE BooksOf(j)'
  <2>1. RefundTotal(j)' = RefundTotal(j)
    BY <1>5 DEF RefundTotal, RefundAmounts, RefundsOf
  <2>2. Book(o) = orders[o] /\ Book(o)' = row /\ (j # o => Book(j)' = Book(j))
    BY <1>3, <1>4, BookUpdate
  <2>3. BooksOf(j)
    BY DEF BooksInv
  <2>4. EventTotal("POINTS_GRANTED", j) \in Int
    BY TotalSummable, EventTotalIs DEF TypeOK
  <2>5. CASE j = o
    BY <1>3, <1>6, <2>1, <2>2, <2>3, <2>5 DEF BooksOf
  <2>6. CASE j # o
    BY <1>6, <2>1, <2>2, <2>3, <2>4, <2>6 DEF BooksOf
  <2> QED  BY <2>5, <2>6
<1>9. PointsBook'
  <2>1. SumFunction(LedgerNet') = SumFunction(LedgerNet)
           + ((row.ledgerGrant - row.ledgerRevoke)
              - (orders[o].ledgerGrant - orders[o].ledgerRevoke))
    BY <1>3, <1>4, LedgerNetUpdate
  <2>2. SumFunction(LedgerNet') = SumFunction(LedgerNet) + points
    BY <1>2, <1>3, <1>7, <2>1, LedgerNetType
  <2>3. user.points \in Int /\ redeemed \in Nat
    BY DEF TypeOK, User
  <2> QED  BY <1>2, <1>5, <2>2, <2>3, LedgerNetType DEF BooksInv, PointsBook
<1>10. NothingWithoutUser'
  <2>1. user.exists
    BY DEF BooksInv, NothingWithoutUser
  <2> QED  BY <1>5, <2>1 DEF NothingWithoutUser
<1> QED
  BY <1>8, <1>9, <1>10 DEF BooksInv

\* A Refund row more.
LEMMA RefundTotalAppend ==
  ASSUME TypeOK, NEW row \in Refund, refunds' = Append(refunds, row), NEW j
  PROVE  /\ RefundTotal(j) \in Int
         /\ RefundTotal(j)' = RefundTotal(j) + (IF row.order = j THEN row.amount ELSE 0)
<1> DEFINE f == RefundAmounts
           g == RefundAmounts'
           S == RefundsOf(j)
           T == RefundsOf(j)'
           x == Len(refunds) + 1
<1>1. /\ DOMAIN refunds' = DOMAIN refunds \cup {x} /\ refunds'[x] = row /\ x \notin DOMAIN refunds
      /\ \A i \in DOMAIN refunds : refunds'[i] = refunds[i]
  BY AppendRow DEF TypeOK
<1>2. Summable(f, S)
  <2>1. IsFiniteSet(S) /\ S \subseteq DOMAIN refunds
    BY RowsFinite, FS_Subset DEF RefundsOf, TypeOK
  <2>2. ASSUME NEW i \in S  PROVE f[i] \in Int
    <3>1. i \in DOMAIN refunds /\ refunds[i] \in Refund
      BY <2>1 DEF TypeOK
    <3> QED  BY <3>1 DEF Refund, RefundAmounts
  <2> HIDE DEF f, S
  <2> QED  BY <2>1, <2>2 DEF Summable
<1> HIDE DEF x
<1>3. S \subseteq DOMAIN refunds /\ x \notin S /\ \A i \in S : g[i] = f[i]
  BY <1>1 DEF RefundsOf, RefundAmounts
<1>4. T = IF row.order = j THEN S \cup {x} ELSE S
  <2>1. \A i : i \in T <=> i \in S \/ (i = x /\ row.order = j)
    BY <1>1 DEF RefundsOf
  <2> HIDE DEF S, T
  <2> QED  BY <2>1
<1>5. g[x] = row.amount /\ row.amount \in Int
  BY <1>1 DEF Refund, RefundAmounts
<1>6. RefundTotal(j) = SumFunctionOnSet(f, S) /\ RefundTotal(j)' = SumFunctionOnSet(g, T)
  BY DEF RefundTotal
<1> HIDE DEF f, g, S, T
<1>7. Summable(g, S) /\ SumFunctionOnSet(g, S) = SumFunctionOnSet(f, S)
      /\ SumFunctionOnSet(f, S) \in Int
  BY <1>2, <1>3, SumSame, SumType DEF Summable
<1>8. CASE row.order = j
  BY <1>3, <1>4, <1>5, <1>6, <1>7, <1>8, SumAdd
<1>9. CASE row.order # j
  BY <1>4, <1>6, <1>7, <1>9
<1> QED
  BY <1>8, <1>9

\* What the events of a refund add to the totals.
LEMMA RefundOrderTotals ==
  ASSUME TypeOK, NEW o \in DOMAIN orders, NEW a \in Nat, NEW k \in Keys,
         NEW extra \in Nat, NEW delta \in Nat, NEW again \in BOOLEAN, NEW restore \in BOOLEAN,
         ~again => extra = 0,
         Emit(<<Ev("REFUND_ISSUED", o, a, k)>>
              \o When(again, <<Ev("POINTS_GRANTED", o, extra, k)>>)
              \o When(delta > 0, <<Ev("POINTS_REVOKED", o, delta, k)>>)
              \o When(restore, <<Ev("COUPON_RESTORED", orders[o].coupon, 0, k)>>)),
         NEW j \in Nat
  PROVE  /\ EventTotal("REFUND_ISSUED", j)' = EventTotal("REFUND_ISSUED", j)
                                                + (IF j = o THEN a ELSE 0)
         /\ EventTotal("POINTS_GRANTED", j)' = EventTotal("POINTS_GRANTED", j)
                                                 + (IF j = o THEN extra ELSE 0)
         /\ EventTotal("POINTS_REVOKED", j)' = EventTotal("POINTS_REVOKED", j)
                                                 + (IF j = o THEN delta ELSE 0)
<1> DEFINE c  == orders[o].coupon
           revoke == delta > 0
           e1 == Ev("REFUND_ISSUED", o, a, k)
           e2 == Ev("POINTS_GRANTED", o, extra, k)
           e3 == Ev("POINTS_REVOKED", o, delta, k)
           e4 == Ev("COUPON_RESTORED", c, 0, k)
           s1 == events \o <<e1>>
           s2 == s1 \o When(again, <<e2>>)
           s3 == s2 \o When(revoke, <<e3>>)
           s4 == s3 \o When(restore, <<e4>>)
<1>1. o \in Nat /\ c \in Nat
  <2>1. orders[o] \in Order /\ o \in Nat
    BY DEF TypeOK
  <2> QED  BY <2>1 DEF Order
<1>2. /\ e1 \in BusinessEvent /\ e2 \in BusinessEvent /\ e3 \in BusinessEvent
      /\ e4 \in BusinessEvent
  <2> HIDE DEF c
  <2> QED  BY <1>1, EvType DEF BusinessEventType
<1>3. events' = events \o (<<e1>> \o When(again, <<e2>>) \o When(revoke, <<e3>>)
                             \o When(restore, <<e4>>))
  BY DEF Emit
<1>4. /\ e1.type = "REFUND_ISSUED" /\ e1.id = o /\ e1.amount = a
      /\ e2.type = "POINTS_GRANTED" /\ e2.id = o /\ e2.amount = extra
      /\ e3.type = "POINTS_REVOKED" /\ e3.id = o /\ e3.amount = delta
      /\ e4.type = "COUPON_RESTORED"
  BY DEF Ev
<1>5. events \in Seq(BusinessEvent) /\ revoke \in BOOLEAN /\ (~revoke => delta = 0)
  BY DEF TypeOK
<1> HIDE DEF e1, e2, e3, e4, revoke
<1>6. /\ <<e1>> \in Seq(BusinessEvent) /\ When(again, <<e2>>) \in Seq(BusinessEvent)
      /\ When(revoke, <<e3>>) \in Seq(BusinessEvent) /\ When(restore, <<e4>>) \in Seq(BusinessEvent)
  BY <1>2 DEF When
<1>7. events' = s4
  <2> DEFINE w1 == <<e1>>
             w2 == When(again, <<e2>>)
             w3 == When(revoke, <<e3>>)
             w4 == When(restore, <<e4>>)
  <2>1. /\ w1 \in Seq(BusinessEvent) /\ w2 \in Seq(BusinessEvent)
        /\ w3 \in Seq(BusinessEvent) /\ w4 \in Seq(BusinessEvent)
    BY <1>6
  <2>2. events' = events \o (((w1 \o w2) \o w3) \o w4)
    BY <1>3
  <2> HIDE DEF w1, w2, w3, w4
  <2> DEFINE x == w1 \o w2
             y == x \o w3
  <2>3. x \in Seq(BusinessEvent) /\ events \o x = (events \o w1) \o w2
    <3>1. x \in Seq(BusinessEvent)
      BY <1>5, <2>1
    <3>2. events \o x = (events \o w1) \o w2
      BY <1>5, <2>1, LogConcat, ZenonT(40)
    <3> QED  BY <3>1, <3>2
  <2>4. events' = events \o (y \o w4)
    BY <2>2
  <2> HIDE DEF x
  <2>5. y \in Seq(BusinessEvent) /\ events \o y = (events \o x) \o w3
    <3>1. y \in Seq(BusinessEvent)
      BY <1>5, <2>1, <2>3
    <3>2. events \o y = (events \o x) \o w3
      BY <1>5, <2>1, <2>3, LogConcat, ZenonT(40)
    <3> QED  BY <3>1, <3>2
  <2> HIDE DEF y
  <2>6. events \o (y \o w4) = (events \o y) \o w4
    BY <1>5, <2>1, <2>5, LogConcat, ZenonT(40)
  <2> QED  BY <2>3, <2>4, <2>5, <2>6, Zenon DEF w1, w2, w3, w4
<1>8. s1 \in Seq(BusinessEvent) /\ s2 \in Seq(BusinessEvent) /\ s3 \in Seq(BusinessEvent)
  BY <1>2, <1>5, TotalWhen, TotalOne
<1>9. ASSUME NEW type
      PROVE  EventTotal(type, j)' = EventTotal(type, j) + Gain(e1, type, j)
               + (IF again THEN Gain(e2, type, j) ELSE 0)
               + (IF revoke THEN Gain(e3, type, j) ELSE 0)
               + (IF restore THEN Gain(e4, type, j) ELSE 0)
  <2>1. TotalOf(s1, type, j) = TotalOf(events, type, j) + Gain(e1, type, j)
    BY <1>2, <1>5, TotalOne
  <2>2. TotalOf(s2, type, j) = TotalOf(s1, type, j) + (IF again THEN Gain(e2, type, j) ELSE 0)
    <3> HIDE DEF s1
    <3> QED  BY <1>2, <1>8, TotalWhen
  <2>3. TotalOf(s3, type, j) = TotalOf(s2, type, j) + (IF revoke THEN Gain(e3, type, j) ELSE 0)
    <3> HIDE DEF s1, s2
    <3> QED  BY <1>2, <1>5, <1>8, TotalWhen
  <2>4. TotalOf(s4, type, j) = TotalOf(s3, type, j) + (IF restore THEN Gain(e4, type, j) ELSE 0)
    <3> HIDE DEF s1, s2, s3
    <3> QED  BY <1>2, <1>8, TotalWhen
  <2>5. TotalOf(events, type, j)' = TotalOf(s4, type, j)
    <3> HIDE DEF s4
    <3> QED  BY <1>7 DEF TotalOf, Selected
  <2>6. EventTotal(type, j)' = TotalOf(events, type, j)' /\ EventTotal(type, j) = TotalOf(events, type, j)
    BY EventTotalIs DEF EventTotal, TotalOf, EventAmounts, EventsOf, Selected
  <2> HIDE DEF s1, s2, s3, s4
  <2> QED  BY <2>1, <2>2, <2>3, <2>4, <2>5, <2>6
<1>10. \A type \in Booked : EventTotal(type, j) \in Int
  BY <1>5, TotalSummable, EventTotalIs
<1> HIDE DEF s1, s2, s3, s4
<1>11. EventTotal("REFUND_ISSUED", j)' = EventTotal("REFUND_ISSUED", j) + (IF j = o THEN a ELSE 0)
  BY <1>4, <1>9, <1>10 DEF Gain, Booked
<1>12. EventTotal("POINTS_GRANTED", j)' = EventTotal("POINTS_GRANTED", j)
                                            + (IF again /\ j = o THEN extra ELSE 0)
  BY <1>4, <1>9, <1>10 DEF Gain, Booked
<1>13. EventTotal("POINTS_REVOKED", j)' = EventTotal("POINTS_REVOKED", j)
                                            + (IF j = o THEN delta ELSE 0)
  BY <1>4, <1>5, <1>9, <1>10 DEF Gain, Booked
<1> QED
  BY <1>11, <1>12, <1>13

LEMMA RefundOrderBooks ==
  ASSUME TypeOK, BooksInv, NEW o \in DOMAIN orders, NEW a \in Nat, NEW k \in Keys,
         CanRefundOrder(o, a), RefundWithinPaid, RefundOrder(o, a, k), TypeOK'
  PROVE  BooksInv'
<1> DEFINE refunded == orders[o].refunded + a
           again    == RefundPoints /\ Axis("POINTS_GRANTED_AGAIN_ON_REFUND")
           extra    == IF again THEN points_for(a) ELSE 0
           delta    == IF RefundPoints /\ ~again THEN revoke_delta(orders[o], refunded) ELSE 0
           restore  == Restores(o, refunded >= orders[o].paid)
           row      == orders'[o]
           rrow     == [order |-> o, amount |-> a, key |-> k]
<1>1. orders[o] \in Order /\ o \in Nat
  BY DEF TypeOK
<1>2. extra \in Nat /\ delta \in Nat /\ again \in BOOLEAN /\ restore \in BOOLEAN
  <2>1. orders[o].paid > 0
    BY <1>1 DEF CanRefundOrder, RefundWithinPaid, Order
  <2>2. refunded \in Nat
    BY <1>1 DEF Order
  <2>3. points_for(a) \in Nat
    BY PointsForType
  <2>4. revoke_delta(orders[o], refunded) \in Nat
    <3> HIDE DEF refunded
    <3> QED  BY <1>1, <2>1, <2>2, RevokeType
  <2>5. again \in BOOLEAN /\ restore \in BOOLEAN
    BY DEF Restores, RefundPoints, Promotion, Axis
  <2> HIDE DEF again, refunded
  <2> QED  BY <2>3, <2>4, <2>5
<1>3. /\ orders' = [orders EXCEPT ![o] = row] /\ row.refunded = refunded
      /\ row.ledgerGrant = orders[o].ledgerGrant + extra
      /\ row.ledgerRevoke = orders[o].ledgerRevoke + delta
  BY <1>1 DEF RefundOrder, TypeOK, Order
<1>4. row \in Order
  BY <1>3, WrittenRow
<1>5. user'.points = user.points + extra - delta /\ user'.exists = user.exists /\ UNCHANGED redeemed
  BY DEF RefundOrder, TypeOK, User
<1>6. Emit(<<Ev("REFUND_ISSUED", o, a, k)>>
           \o When(again, <<Ev("POINTS_GRANTED", o, extra, k)>>)
           \o When(delta > 0, <<Ev("POINTS_REVOKED", o, delta, k)>>)
           \o When(restore, <<Ev("COUPON_RESTORED", orders[o].coupon, 0, k)>>))
  BY DEF RefundOrder
<1>7. refunds' = Append(refunds, rrow) /\ rrow \in Refund /\ rrow.order = o /\ rrow.amount = a
  BY <1>1 DEF RefundOrder, Refund
<1>8. ~again => extra = 0
  OBVIOUS
<1>9. orders[o].refunded \in Nat /\ orders[o].ledgerGrant \in Nat /\ orders[o].ledgerRevoke \in Nat
  BY <1>1 DEF Order
<1> HIDE DEF again, extra, delta, restore, row, rrow
<1>10. \A j \in Nat :
         /\ EventTotal("REFUND_ISSUED", j)' = EventTotal("REFUND_ISSUED", j)
                                                + (IF j = o THEN a ELSE 0)
         /\ EventTotal("POINTS_GRANTED", j)' = EventTotal("POINTS_GRANTED", j)
                                                 + (IF j = o THEN extra ELSE 0)
         /\ EventTotal("POINTS_REVOKED", j)' = EventTotal("POINTS_REVOKED", j)
                                                 + (IF j = o THEN delta ELSE 0)
  BY <1>2, <1>6, <1>8, RefundOrderTotals
<1>11. ASSUME NEW j \in Nat  PROVE BooksOf(j)'
  <2>1. RefundTotal(j) \in Int /\ RefundTotal(j)' = RefundTotal(j) + (IF o = j THEN a ELSE 0)
    BY <1>7, RefundTotalAppend
  <2>2. Book(o) = orders[o] /\ Book(o)' = row /\ (j # o => Book(j)' = Book(j))
    BY <1>3, <1>4, BookUpdate
  <2>3. BooksOf(j)
    BY DEF BooksInv
  <2>4. \A type \in Booked : EventTotal(type, j) \in Int
    BY TotalSummable, EventTotalIs DEF TypeOK
  <2>5. CASE j = o
    BY <1>3, <1>10, <2>1, <2>2, <2>3, <2>5 DEF BooksOf
  <2>6. CASE j # o
    BY <1>10, <2>1, <2>2, <2>3, <2>4, <2>6 DEF BooksOf, Booked
  <2> QED  BY <2>5, <2>6
<1>12. PointsBook'
  <2>1. SumFunction(LedgerNet') = SumFunction(LedgerNet)
           + ((row.ledgerGrant - row.ledgerRevoke)
              - (orders[o].ledgerGrant - orders[o].ledgerRevoke))
    BY <1>3, <1>4, LedgerNetUpdate
  <2>2. SumFunction(LedgerNet') = SumFunction(LedgerNet) + (extra - delta)
    BY <1>2, <1>3, <1>9, <2>1, LedgerNetType
  <2>3. user.points \in Int /\ redeemed \in Nat
    BY DEF TypeOK, User
  <2> QED  BY <1>2, <1>5, <2>2, <2>3, LedgerNetType DEF BooksInv, PointsBook
<1>13. NothingWithoutUser'
  <2>1. user.exists
    BY DEF BooksInv, NothingWithoutUser
  <2> QED  BY <1>5, <2>1 DEF NothingWithoutUser
<1> QED
  BY <1>11, <1>12, <1>13 DEF BooksInv

LEMMA DeleteStateBooks ==
  ASSUME DeleteState
  PROVE  BooksInv'
<1>1. ASSUME NEW o \in Nat  PROVE BooksOf(o)'
  <2>1. refunds' = <<>> /\ events' = <<>> /\ orders' = <<>>
    BY DEF DeleteState
  <2>2. RefundsOf(o)' = {} /\ \A type : EventsOf(type, o)' = {}
    BY <2>1 DEF RefundsOf, EventsOf
  <2>3. RefundTotal(o)' = 0 /\ \A type : EventTotal(type, o)' = 0
    BY <2>2, SumEmpty DEF RefundTotal, EventTotal
  <2>4. Book(o)' = [refunded |-> 0, ledgerGrant |-> 0, ledgerRevoke |-> 0]
    BY <2>1 DEF Book
  <2> QED  BY <2>3, <2>4 DEF BooksOf
<1>2. PointsBook'
  <2>1. DOMAIN LedgerNet' = {}
    BY DEF DeleteState, LedgerNet
  <2>2. SumFunction(LedgerNet') = 0
    BY <2>1, SumEmpty DEF SumFunction
  <2> QED  BY <2>2 DEF PointsBook, DeleteState, NoUser
<1>3. NothingWithoutUser'
  BY DEF NothingWithoutUser, DeleteState, NoUser
<1> QED
  BY <1>1, <1>2, <1>3 DEF BooksInv

LEMMA BooksInit == Init => BooksInv
<1> SUFFICES ASSUME Init  PROVE BooksInv
  OBVIOUS
<1>1. ASSUME NEW o \in Nat  PROVE BooksOf(o)
  <2>1. refunds = <<>> /\ events = <<>> /\ orders = <<>>
    BY DEF Init, EmptyTables
  <2>2. RefundsOf(o) = {} /\ \A type : EventsOf(type, o) = {}
    BY <2>1 DEF RefundsOf, EventsOf
  <2>3. RefundTotal(o) = 0 /\ \A type : EventTotal(type, o) = 0
    BY <2>2, SumEmpty DEF RefundTotal, EventTotal
  <2>4. Book(o) = [refunded |-> 0, ledgerGrant |-> 0, ledgerRevoke |-> 0]
    BY <2>1 DEF Book
  <2> QED  BY <2>3, <2>4 DEF BooksOf
<1>2. PointsBook
  <2>1. DOMAIN LedgerNet = {}
    BY DEF Init, EmptyTables, LedgerNet
  <2>2. SumFunction(LedgerNet) = 0
    BY <2>1, SumEmpty DEF SumFunction
  <2> QED  BY <2>2 DEF PointsBook, Init, EmptyTables, NoUser
<1>3. NothingWithoutUser
  BY DEF NothingWithoutUser, Init, EmptyTables, NoUser
<1> QED
  BY <1>1, <1>2, <1>3 DEF BooksInv

LEMMA BooksUnchanged ==
  ASSUME BooksInv, UNCHANGED domainVars
  PROVE  BooksInv'
<1>1. /\ orders' = orders /\ refunds' = refunds /\ events' = events
      /\ user' = user /\ redeemed' = redeemed
  BY DEF domainVars
<1>2. ASSUME NEW o \in Nat, BooksOf(o)  PROVE BooksOf(o)'
  BY <1>1, <1>2 DEF BooksOf, Book, RefundTotal, RefundAmounts, RefundsOf, EventTotal,
                    EventAmounts, EventsOf
<1>3. PointsBook'
  BY <1>1 DEF BooksInv, PointsBook, LedgerNet
<1>4. NothingWithoutUser'
  BY <1>1 DEF BooksInv, NothingWithoutUser
<1> QED
  BY <1>2, <1>3, <1>4 DEF BooksInv

LEMMA BooksStep ==
  ASSUME TypeOK, RefundWithinPaid, BooksInv, [Next]_domainVars, TypeOK'
  PROVE  BooksInv'
<1>1. CASE UNCHANGED domainVars
  BY <1>1, BooksUnchanged
<1>2. CASE \E b \in Balances, k \in Keys : CanCreateUser(b) /\ CreateUser(b, k)
  BY <1>2, CreateUserBooks
<1>3. CASE OrderCommand
  BY <1>3, ArgumentsAssumption, CreateOrderBooks, PayOrderBooks, CancelOrderBooks,
     RefundOrderBooks DEF OrderCommand
<1>4. CASE CouponCommand
  BY <1>4, IssueCouponBooks, ApplyCouponBooks DEF CouponCommand
<1>5. CASE PointsCommand
  BY <1>5, RedeemPointsBooks DEF PointsCommand
<1>6. CASE MembershipCommand
  BY <1>6, ActivateMembershipBooks, ConsumeEntitlementBooks, CancelMembershipBooks
     DEF MembershipCommand
<1>7. CASE DeleteState
  BY <1>7, DeleteStateBooks
<1> QED
  BY <1>1, <1>2, <1>3, <1>4, <1>5, <1>6, <1>7 DEF Next

\* Refund rows, events and the points ledger tell the same story under every order number,
\* created or not, and the user's points are what the ledger adds up to.
THEOREM BooksInvariant == Spec => []BooksInv
<1>1. TypeOK /\ TypeOK' /\ RefundWithinPaid /\ BooksInv /\ [Next]_domainVars => BooksInv'
  BY BooksStep
<1> QED
  BY <1>1, BooksInit, TypeCorrect, RefundsBounded, PTL DEF Spec

\* The Refund rows add up to the orders' refunded_amount, the events to the ledger and the
\* ledger to points_balance, in every profile and after any split of refunds.
THEOREM BooksAlwaysAgree == Spec => []BooksAgree
<1>1. TypeOK /\ BooksInv => BooksAgree
  <2> SUFFICES ASSUME TypeOK, BooksInv  PROVE BooksAgree
    OBVIOUS
  <2>1. ASSUME NEW o \in DOMAIN orders  PROVE o \in Nat /\ Book(o) = orders[o] /\ BooksOf(o)
    <3>1. o \in Nat
      BY DEF TypeOK
    <3> QED  BY <3>1 DEF Book, BooksInv
  <2> QED  BY <2>1 DEF BooksAgree, BooksInv, BooksOf, PointsBook, RefundTotal
<1> QED
  BY <1>1, BooksInvariant, TypeCorrect, PTL

-----------------------------------------------------------------------------
(* The Oracle's verdicts *)

\* A coupon's usage counts its COUPON_USED events, a consumed entitlement shows in its row, and
\* an order of REFUND_POINTS earned one point per unit paid.
CouponEvents ==
  \A c \in Nat : Cardinality(EventsOf("COUPON_USED", c))
                   = IF c \in DOMAIN coupons THEN coupons[c].usage ELSE 0
ConsumedShows ==
  \A e \in Nat : EventsOf("ENTITLEMENT_CONSUMED", e) # {} =>
                   e \in DOMAIN entitlements /\ entitlements[e].consumed > 0
PointsEarned ==
  RefundPoints => \A o \in DOMAIN orders : orders[o].points = points_for(orders[o].paid)

EvidenceInv == CouponEvents /\ ConsumedShows /\ PointsEarned

\* Commands that append neither kind of event, use no coupon and consume nothing.
LEMMA QuietCoupons ==
  ASSUME TypeOK, CouponEvents, NEW types, EmitsOnly(types), "COUPON_USED" \notin types,
         \A c \in Nat : (IF c \in DOMAIN coupons' THEN coupons'[c].usage ELSE 0)
                          = IF c \in DOMAIN coupons THEN coupons[c].usage ELSE 0
  PROVE  CouponEvents'
<1> SUFFICES ASSUME NEW c \in Nat
             PROVE  Cardinality(EventsOf("COUPON_USED", c)')
                      = IF c \in DOMAIN coupons' THEN coupons'[c].usage ELSE 0
  BY DEF CouponEvents
<1>1. EventsOf("COUPON_USED", c)' = EventsOf("COUPON_USED", c)
  BY QuietLog
<1> QED
  BY <1>1 DEF CouponEvents

LEMMA QuietConsumption ==
  ASSUME TypeOK, ConsumedShows, NEW types, EmitsOnly(types), "ENTITLEMENT_CONSUMED" \notin types,
         \A e \in DOMAIN entitlements :
           e \in DOMAIN entitlements' /\ entitlements'[e].consumed = entitlements[e].consumed
  PROVE  ConsumedShows'
<1> SUFFICES ASSUME NEW e \in Nat, EventsOf("ENTITLEMENT_CONSUMED", e)' # {}
             PROVE  e \in DOMAIN entitlements' /\ entitlements'[e].consumed > 0
  BY DEF ConsumedShows
<1>1. EventsOf("ENTITLEMENT_CONSUMED", e)' = EventsOf("ENTITLEMENT_CONSUMED", e)
  BY QuietLog
<1>2. e \in DOMAIN entitlements /\ entitlements[e].consumed > 0
  BY <1>1 DEF ConsumedShows
<1> QED
  BY <1>2

\* Only create_order and pay_order write the two amounts the points follow from.
LEMMA EarnedKept ==
  ASSUME TypeOK, PointsEarned, UNCHANGED run, NEW o \in DOMAIN orders, NEW row \in Order,
         orders' = [orders EXCEPT ![o] = row],
         RefundPoints => row.points = points_for(row.paid)
  PROVE  PointsEarned'
<1>1. DOMAIN orders' = DOMAIN orders /\ orders'[o] = row
      /\ \A j \in DOMAIN orders : j # o => orders'[j] = orders[j]
  BY UpdateRow DEF TypeOK
<1>2. RefundPoints' <=> RefundPoints
  BY DEF RefundPoints, run
<1> QED
  BY <1>1, <1>2 DEF PointsEarned

LEMMA OrdersKeepEarned ==
  ASSUME PointsEarned, UNCHANGED run, UNCHANGED orders
  PROVE  PointsEarned'
  BY DEF PointsEarned, RefundPoints, run

\* The commands that write neither coupons, orders nor entitlements.
LEMMA NothingUsed ==
  ASSUME TypeOK, EvidenceInv, UNCHANGED run, UNCHANGED <<coupons, orders, entitlements>>,
         NEW types, EmitsOnly(types), "COUPON_USED" \notin types,
         "ENTITLEMENT_CONSUMED" \notin types
  PROVE  EvidenceInv'
<1>1. CouponEvents'
  BY QuietCoupons DEF EvidenceInv
<1>2. ConsumedShows'
  BY QuietConsumption DEF EvidenceInv
<1>3. PointsEarned'
  BY OrdersKeepEarned DEF EvidenceInv
<1> QED
  BY <1>1, <1>2, <1>3 DEF EvidenceInv

LEMMA IssueCouponEvidence ==
  ASSUME TypeOK, EvidenceInv, UNCHANGED run, NEW v \in Amounts, NEW t \in Amounts, NEW k \in Keys,
         IssueCoupon(v, t, k)
  PROVE  EvidenceInv'
<1> DEFINE row == [face |-> v, threshold |-> t, status |-> "AVAILABLE",
                   reserved |-> 0, used |-> 0, usage |-> 0]
           i == Len(coupons) + 1
<1>1. row \in Coupon /\ row.usage = 0 /\ coupons' = Append(coupons, row)
  BY ArgumentsAssumption DEF Coupon, CouponStatus, IssueCoupon
<1> HIDE DEF row
<1>2. /\ DOMAIN coupons' = DOMAIN coupons \cup {i} /\ coupons'[i] = row
      /\ \A j \in DOMAIN coupons : j # i /\ coupons'[j] = coupons[j]
  BY <1>1, AppendRow DEF TypeOK
<1>3. \A c \in Nat : (IF c \in DOMAIN coupons' THEN coupons'[c].usage ELSE 0)
                       = IF c \in DOMAIN coupons THEN coupons[c].usage ELSE 0
  BY <1>1, <1>2
<1>4. CouponEvents'
  BY <1>3, IssueCouponEmits, QuietCoupons DEF EvidenceInv
<1>5. ConsumedShows'
  BY IssueCouponEmits, QuietConsumption DEF EvidenceInv, IssueCoupon
<1>6. PointsEarned'
  BY OrdersKeepEarned DEF EvidenceInv, IssueCoupon
<1> QED
  BY <1>4, <1>5, <1>6 DEF EvidenceInv

LEMMA CreateOrderEvidence ==
  ASSUME TypeOK, EvidenceInv, UNCHANGED run, NEW a \in Amounts, NEW k \in Keys, CreateOrder(a, k)
  PROVE  EvidenceInv'
<1> DEFINE row == [original |-> a, discount |-> 0, paid |-> 0,
                   refunded |-> 0, points |-> 0, ledgerGrant |-> 0,
                   ledgerRevoke |-> 0, status |-> "PENDING_PAYMENT", coupon |-> 0]
           i == Len(orders) + 1
<1>1. row \in Order /\ row.points = 0 /\ row.paid = 0 /\ orders' = Append(orders, row)
  BY ArgumentsAssumption DEF Order, OrderStatus, CreateOrder
<1> HIDE DEF row
<1>2. /\ DOMAIN orders' = DOMAIN orders \cup {i} /\ orders'[i] = row
      /\ \A j \in DOMAIN orders : j # i /\ orders'[j] = orders[j]
  BY <1>1, AppendRow DEF TypeOK
<1>3. points_for(0) = 0
  BY UnitAssumption DEF points_for
<1>4. RefundPoints' <=> RefundPoints
  BY DEF RefundPoints, run
<1>5. PointsEarned'
  <2> HIDE DEF i
  <2> QED  BY <1>1, <1>2, <1>3, <1>4 DEF EvidenceInv, PointsEarned
<1>6. CouponEvents'
  BY CreateOrderEmits, QuietCoupons DEF EvidenceInv, CreateOrder
<1>7. ConsumedShows'
  BY CreateOrderEmits, QuietConsumption DEF EvidenceInv, CreateOrder
<1> QED
  BY <1>5, <1>6, <1>7 DEF EvidenceInv

\* A coupon's row is written, but not its usage.
LEMMA UsageKept ==
  ASSUME TypeOK, NEW c,
         \/ UNCHANGED coupons
         \/ \E row : /\ coupons' = [coupons EXCEPT ![c] = row]
                     /\ c \in DOMAIN coupons => row \in Coupon /\ row.usage = coupons[c].usage
  PROVE  \A d \in Nat : (IF d \in DOMAIN coupons' THEN coupons'[d].usage ELSE 0)
                          = IF d \in DOMAIN coupons THEN coupons[d].usage ELSE 0
<1>1. CASE UNCHANGED coupons
  BY <1>1
<1>2. ASSUME NEW row, coupons' = [coupons EXCEPT ![c] = row],
             c \in DOMAIN coupons => row \in Coupon /\ row.usage = coupons[c].usage
      PROVE  \A d \in Nat : (IF d \in DOMAIN coupons' THEN coupons'[d].usage ELSE 0)
                              = IF d \in DOMAIN coupons THEN coupons[d].usage ELSE 0
  <2>1. CASE c \in DOMAIN coupons
    <3>1. DOMAIN coupons' = DOMAIN coupons /\ coupons'[c] = row
          /\ \A j \in DOMAIN coupons : j # c => coupons'[j] = coupons[j]
      BY <1>2, <2>1, UpdateRow DEF TypeOK
    <3> QED  BY <1>2, <2>1, <3>1
  <2>2. CASE c \notin DOMAIN coupons
    <3>1. coupons' = coupons
      BY <1>2, <2>2, UpdateNoRow DEF TypeOK
    <3> QED  BY <3>1
  <2> QED  BY <2>1, <2>2
<1> QED
  BY <1>1, <1>2

LEMMA ApplyCouponEvidence ==
  ASSUME TypeOK, EvidenceInv, UNCHANGED run, NEW o \in DOMAIN orders, NEW c \in DOMAIN coupons,
         NEW k \in Keys, ApplyCoupon(o, c, k), TypeOK'
  PROVE  EvidenceInv'
<1> DEFINE row == orders'[o]
           crow == [coupons[c] EXCEPT !.status = "RESERVED", !.reserved = o]
<1>1. orders[o] \in Order /\ coupons[c] \in Coupon /\ o \in Nat
  BY DEF TypeOK
<1>2. coupons' = [coupons EXCEPT ![c] = crow] /\ crow \in Coupon /\ crow.usage = coupons[c].usage
  BY <1>1 DEF ApplyCoupon, Coupon, CouponStatus
<1>3. \A d \in Nat : (IF d \in DOMAIN coupons' THEN coupons'[d].usage ELSE 0)
                       = IF d \in DOMAIN coupons THEN coupons[d].usage ELSE 0
  <2> HIDE DEF crow
  <2> QED  BY <1>2, UsageKept
<1>4. CouponEvents'
  BY <1>3, ApplyCouponEmits, QuietCoupons DEF EvidenceInv
<1>5. ConsumedShows'
  BY ApplyCouponEmits, QuietConsumption DEF EvidenceInv, ApplyCoupon
<1>6. /\ orders' = [orders EXCEPT ![o] = row]
      /\ row.points = orders[o].points /\ row.paid = orders[o].paid
  BY <1>1 DEF ApplyCoupon, TypeOK, Order
<1>7. row \in Order
  BY <1>6 DEF TypeOK
<1>8. PointsEarned'
  <2> HIDE DEF row
  <2>1. RefundPoints => row.points = points_for(row.paid)
    BY <1>6 DEF EvidenceInv, PointsEarned
  <2> QED  BY <1>6, <1>7, <2>1, EarnedKept DEF EvidenceInv
<1> QED
  BY <1>4, <1>5, <1>8 DEF EvidenceInv

LEMMA CancelOrderEvidence ==
  ASSUME TypeOK, EvidenceInv, UNCHANGED run, NEW o \in DOMAIN orders, NEW k \in Keys,
         CancelOrder(o, k), TypeOK'
  PROVE  EvidenceInv'
<1> DEFINE row == orders'[o]
           c == orders[o].coupon
           crow == [coupons[c] EXCEPT !.status = "RESTORED", !.reserved = 0]
<1>1. orders[o] \in Order /\ o \in Nat /\ (c \in DOMAIN coupons => coupons[c] \in Coupon)
  <2> HIDE DEF c
  <2>1. orders[o] \in Order /\ o \in Nat
    BY OrderCoupon
  <2>2. c \in DOMAIN coupons => coupons[c] \in Coupon
    BY DEF TypeOK
  <2> QED  BY <2>1, <2>2
<1>2. UNCHANGED coupons \/ coupons' = [coupons EXCEPT ![c] = crow]
  BY DEF CancelOrder
<1>3. c \in DOMAIN coupons => crow \in Coupon /\ crow.usage = coupons[c].usage
  <2> HIDE DEF c
  <2> QED  BY <1>1 DEF Coupon, CouponStatus
<1>4. \A d \in Nat : (IF d \in DOMAIN coupons' THEN coupons'[d].usage ELSE 0)
                       = IF d \in DOMAIN coupons THEN coupons[d].usage ELSE 0
  <2> HIDE DEF crow, c
  <2> QED  BY <1>2, <1>3, UsageKept
<1>5. CouponEvents'
  BY <1>4, CancelOrderEmits, QuietCoupons DEF EvidenceInv
<1>6. ConsumedShows'
  BY CancelOrderEmits, QuietConsumption DEF EvidenceInv, CancelOrder
<1>7. /\ orders' = [orders EXCEPT ![o] = row]
      /\ row.points = orders[o].points /\ row.paid = orders[o].paid
  BY <1>1 DEF CancelOrder, TypeOK, Order
<1>8. row \in Order
  BY <1>7, WrittenRow
<1>9. PointsEarned'
  <2> HIDE DEF row
  <2>1. RefundPoints => row.points = points_for(row.paid)
    BY <1>7 DEF EvidenceInv, PointsEarned
  <2> QED  BY <1>7, <1>8, <2>1, EarnedKept DEF EvidenceInv
<1> QED
  BY <1>5, <1>6, <1>9 DEF EvidenceInv

LEMMA RefundOrderEvidence ==
  ASSUME TypeOK, EvidenceInv, UNCHANGED run, NEW o \in DOMAIN orders, orders[o].paid > 0,
         NEW a \in Nat, NEW k \in Keys, RefundOrder(o, a, k), TypeOK'
  PROVE  EvidenceInv'
<1> DEFINE row == orders'[o]
           c == orders[o].coupon
           crow == [coupons[c] EXCEPT !.status = "AVAILABLE", !.used = 0]
<1>1. orders[o] \in Order /\ o \in Nat /\ (c \in DOMAIN coupons => coupons[c] \in Coupon)
  <2> HIDE DEF c
  <2>1. orders[o] \in Order /\ o \in Nat
    BY OrderCoupon
  <2>2. c \in DOMAIN coupons => coupons[c] \in Coupon
    BY DEF TypeOK
  <2> QED  BY <2>1, <2>2
<1>2. UNCHANGED coupons \/ coupons' = [coupons EXCEPT ![c] = crow]
  BY DEF RefundOrder
<1>3. c \in DOMAIN coupons => crow \in Coupon /\ crow.usage = coupons[c].usage
  <2> HIDE DEF c
  <2> QED  BY <1>1 DEF Coupon, CouponStatus
<1>4. \A d \in Nat : (IF d \in DOMAIN coupons' THEN coupons'[d].usage ELSE 0)
                       = IF d \in DOMAIN coupons THEN coupons[d].usage ELSE 0
  <2> HIDE DEF crow, c
  <2> QED  BY <1>2, <1>3, UsageKept
<1>5. CouponEvents'
  BY <1>4, RefundOrderEmits, QuietCoupons DEF EvidenceInv
<1>6. ConsumedShows'
  BY RefundOrderEmits, QuietConsumption DEF EvidenceInv, RefundOrder
<1>7. /\ orders' = [orders EXCEPT ![o] = row]
      /\ row.points = orders[o].points /\ row.paid = orders[o].paid
  BY <1>1 DEF RefundOrder, TypeOK, Order
<1>8. row \in Order
  BY <1>7, WrittenRow
<1>9. PointsEarned'
  <2> HIDE DEF row
  <2>1. RefundPoints => row.points = points_for(row.paid)
    BY <1>7 DEF EvidenceInv, PointsEarned
  <2> QED  BY <1>7, <1>8, <2>1, EarnedKept DEF EvidenceInv
<1> QED
  BY <1>5, <1>6, <1>9 DEF EvidenceInv

\* An event of another type may be appended, or not.
LEMMA SelectedOther ==
  ASSUME NEW s \in Seq(BusinessEvent), NEW e \in BusinessEvent, NEW type, NEW id, e.type # type,
         NEW cond \in BOOLEAN
  PROVE  Selected(s \o When(cond, <<e>>), type, id) = Selected(s, type, id)
<1> DEFINE t == s \o <<e>>
           u == s \o When(cond, <<e>>)
<1>1. t = Append(s, e) /\ (u = t \/ u = s)
  BY DEF When
<1>2. Selected(Append(s, e), type, id) = Selected(s, type, id)
  BY SelectedAppend
<1>3. Selected(u, type, id) = Selected(s, type, id)
  <2> HIDE DEF t, u
  <2> QED  BY <1>1, <1>2
<1> QED
  BY <1>3

\* A payment records the use of the order's coupon, once.
LEMMA PayOrderCouponEvents ==
  ASSUME TypeOK, NEW o \in DOMAIN orders, NEW k \in Keys, CanPayOrder(o), PayOrder(o, k),
         NEW d \in Nat
  PROVE  EventsOf("COUPON_USED", d)'
           = IF orders[o].coupon # 0 /\ d = orders[o].coupon
             THEN EventsOf("COUPON_USED", d) \cup {Len(events) + 1} ELSE EventsOf("COUPON_USED", d)
<1> DEFINE paid == orders[o].original - orders[o].discount
           points == IF RefundPoints THEN points_for(paid) ELSE 0
           c  == orders[o].coupon
           used == c # 0
           U  == "COUPON_USED"
           e1 == Ev(U, c, 0, k)
           e2 == Ev("PAYMENT_CAPTURED", o, paid, k)
           e3 == Ev("POINTS_GRANTED", o, points, k)
           w1 == When(used, <<e1>>)
           w3 == When(RefundPoints, <<e3>>)
           s1 == events \o w1
           s2 == s1 \o <<e2>>
           s3 == s2 \o w3
<1>1. orders[o] \in Order /\ o \in Nat /\ c \in Nat
  BY OrderCoupon
<1>2. paid \in Nat
  BY <1>1 DEF CanPayOrder, Order
<1>3. points \in Nat
  BY <1>2, PointsForType
<1>4. e1 \in BusinessEvent /\ e2 \in BusinessEvent /\ e3 \in BusinessEvent
  <2> HIDE DEF c, paid, points
  <2> QED  BY <1>1, <1>2, <1>3, EvType DEF BusinessEventType
<1>5. events' = events \o ((w1 \o <<e2>>) \o w3)
  BY DEF PayOrder, Emit
<1>6. e1.type = U /\ e1.id = c /\ e2.type # U /\ e3.type # U
  BY DEF Ev
<1>7. events \in Seq(BusinessEvent) /\ RefundPoints \in BOOLEAN
  BY DEF TypeOK, RefundPoints
<1> HIDE DEF e1, e2, e3, used
<1>8. w1 \in Seq(BusinessEvent) /\ <<e2>> \in Seq(BusinessEvent) /\ w3 \in Seq(BusinessEvent)
  BY <1>4 DEF When
<1>9. events' = s3
  <2> DEFINE w2 == <<e2>>
  <2>0. w2 \in Seq(BusinessEvent) /\ events' = events \o ((w1 \o w2) \o w3)
    BY <1>5, <1>8
  <2> HIDE DEF w1, w2, w3
  <2> DEFINE x == w1 \o w2
  <2>1. x \in Seq(BusinessEvent) /\ events \o x = (events \o w1) \o w2
    <3>1. x \in Seq(BusinessEvent)
      BY <1>7, <1>8, <2>0
    <3>2. events \o x = (events \o w1) \o w2
      BY <1>7, <1>8, <2>0, LogConcat, ZenonT(40)
    <3> QED  BY <3>1, <3>2
  <2>2. events' = events \o (x \o w3)
    BY <2>0
  <2> HIDE DEF x
  <2>3. events \o (x \o w3) = (events \o x) \o w3
    BY <1>7, <1>8, <2>1, LogConcat, ZenonT(40)
  <2> QED  BY <2>1, <2>2, <2>3, Zenon DEF w2
<1>10. s1 \in Seq(BusinessEvent)
       /\ Selected(s1, U, d) = IF used /\ d = c THEN Selected(events, U, d) \cup {Len(events) + 1}
                               ELSE Selected(events, U, d)
  <2>1. CASE used
    <3>1. s1 = Append(events, e1) /\ s1 \in Seq(BusinessEvent)
      BY <1>4, <1>7, <2>1 DEF When
    <3>2. Selected(Append(events, e1), U, d)
            = IF e1.type = U /\ e1.id = d THEN Selected(events, U, d) \cup {Len(events) + 1}
              ELSE Selected(events, U, d)
      BY <1>4, <1>7, SelectedAppend
    <3>3. CASE d = c
      <4> HIDE DEF s1, U, c
      <4> QED  BY <1>6, <2>1, <3>1, <3>2, <3>3
    <3>4. CASE d # c
      <4> HIDE DEF s1, U, c
      <4> QED  BY <1>6, <2>1, <3>1, <3>2, <3>4
    <3> QED  BY <3>3, <3>4
  <2>2. CASE ~used
    <3>1. s1 = events
      BY <1>7, <2>2 DEF When
    <3> HIDE DEF s1
    <3> QED  BY <1>7, <2>2, <3>1
  <2> QED  BY <2>1, <2>2
<1> HIDE DEF s1, U
<1>11. s2 \in Seq(BusinessEvent) /\ Selected(s2, U, d) = Selected(s1, U, d)
  <2>1. s2 = Append(s1, e2) /\ s2 \in Seq(BusinessEvent)
    BY <1>4, <1>10
  <2>2. Selected(Append(s1, e2), U, d) = Selected(s1, U, d)
    BY <1>4, <1>6, <1>10, SelectedAppend
  <2> HIDE DEF s2
  <2> QED  BY <2>1, <2>2
<1> HIDE DEF s2
<1>12. Selected(s3, U, d) = Selected(s2, U, d)
  BY <1>4, <1>6, <1>7, <1>11, SelectedOther
<1> HIDE DEF s3
<1>13. Selected(events, U, d)' = Selected(s3, U, d)
  BY <1>9 DEF Selected
<1>14. Selected(events, U, d)' = IF used /\ d = c THEN Selected(events, U, d) \cup {Len(events) + 1}
                                 ELSE Selected(events, U, d)
  BY <1>10, <1>11, <1>12, <1>13
<1>15. EventsOf(U, d)' = Selected(events, U, d)' /\ EventsOf(U, d) = Selected(events, U, d)
  BY DEF EventsOf, Selected
<1> HIDE DEF c
<1> QED
  BY <1>14, <1>15 DEF used, U, c

LEMMA PayOrderEvidence ==
  ASSUME TypeOK, EvidenceInv, UNCHANGED run, NEW o \in DOMAIN orders, NEW k \in Keys,
         CanPayOrder(o), PayOrder(o, k), TypeOK'
  PROVE  EvidenceInv'
<1> DEFINE row == orders'[o]
           c == orders[o].coupon
           crow == [coupons[c] EXCEPT !.status = "USED", !.reserved = 0,
                                      !.used = o, !.usage = coupons[c].usage + 1]
<1>1. orders[o] \in Order /\ o \in Nat /\ c \in Nat
  BY OrderCoupon
<1>2. c # 0 => /\ c \in DOMAIN coupons /\ coupons[c] \in Coupon
               /\ coupons' = [coupons EXCEPT ![c] = crow]
               /\ crow \in Coupon /\ crow.usage = coupons[c].usage + 1
  <2> SUFFICES ASSUME c # 0
               PROVE  /\ c \in DOMAIN coupons /\ coupons[c] \in Coupon
                      /\ coupons' = [coupons EXCEPT ![c] = crow]
                      /\ crow \in Coupon /\ crow.usage = coupons[c].usage + 1
    OBVIOUS
  <2>1. c \in DOMAIN coupons
    BY DEF CanPayOrder, HoldsCoupon
  <2>2. coupons[c] \in Coupon
    BY <2>1 DEF TypeOK
  <2>3. coupons' = [coupons EXCEPT ![c] = crow]
    BY DEF PayOrder
  <2>4. crow \in Coupon /\ crow.usage = coupons[c].usage + 1
    <3> DEFINE old == coupons[c]
               n == coupons[c].usage + 1
    <3>1. old \in Coupon /\ n \in Nat
      BY <2>2 DEF Coupon
    <3>2. crow = [old EXCEPT !.status = "USED", !.reserved = 0, !.used = o, !.usage = n]
      OBVIOUS
    <3> HIDE DEF old, n
    <3>3. [old EXCEPT !.status = "USED", !.reserved = 0, !.used = o, !.usage = n] \in Coupon
          /\ [old EXCEPT !.status = "USED", !.reserved = 0, !.used = o, !.usage = n].usage = n
      BY <1>1, <3>1 DEF Coupon, CouponStatus
    <3> QED  BY <3>2, <3>3 DEF n
  <2> QED  BY <2>1, <2>2, <2>3, <2>4
<1>3. c = 0 => UNCHANGED coupons
  BY DEF PayOrder
<1>4. ASSUME NEW d \in Nat
      PROVE  Cardinality(EventsOf("COUPON_USED", d)')
               = IF d \in DOMAIN coupons' THEN coupons'[d].usage ELSE 0
  <2> DEFINE S == EventsOf("COUPON_USED", d)
             T == EventsOf("COUPON_USED", d)'
             x == Len(events) + 1
  <2>1. T = IF c # 0 /\ d = c THEN S \cup {x} ELSE S
    BY PayOrderCouponEvents
  <2>2. Cardinality(S) = IF d \in DOMAIN coupons THEN coupons[d].usage ELSE 0
    BY DEF EvidenceInv, CouponEvents
  <2>3. IsFiniteSet(S) /\ x \notin S
    <3>1. S \subseteq DOMAIN events /\ x \notin DOMAIN events /\ IsFiniteSet(DOMAIN events)
      BY RowsFinite DEF EventsOf, TypeOK
    <3> HIDE DEF S, x
    <3> QED  BY <3>1, FS_Subset
  <2> HIDE DEF S, T, x, c, crow
  <2>4. CASE c # 0 /\ d = c
    <3>1. Cardinality(S \cup {x}) = Cardinality(S) + 1
      BY <2>3, FS_AddElement
    <3>2. DOMAIN coupons' = DOMAIN coupons /\ coupons'[c] = crow
      BY <1>2, <2>4, UpdateRow DEF TypeOK
    <3> QED  BY <1>2, <2>1, <2>2, <2>4, <3>1, <3>2 DEF T
  <2>5. CASE c = 0
    BY <1>3, <2>1, <2>2, <2>5 DEF T
  <2>6. CASE c # 0 /\ d # c
    <3>1. DOMAIN coupons' = DOMAIN coupons
          /\ \A j \in DOMAIN coupons : j # c => coupons'[j] = coupons[j]
      BY <1>2, <2>6, UpdateRow DEF TypeOK
    <3> QED  BY <2>1, <2>2, <2>6, <3>1 DEF T
  <2> QED  BY <2>4, <2>5, <2>6
<1>5. CouponEvents'
  BY <1>4 DEF CouponEvents
<1>6. ConsumedShows'
  BY PayOrderEmits, QuietConsumption DEF EvidenceInv, PayOrder
<1>7. /\ orders' = [orders EXCEPT ![o] = row]
      /\ RefundPoints => row.points = points_for(row.paid)
  BY <1>1 DEF PayOrder, TypeOK, Order
<1>8. row \in Order
  BY <1>7, WrittenRow
<1>9. PointsEarned'
  <2> HIDE DEF row
  <2> QED  BY <1>7, <1>8, EarnedKept DEF EvidenceInv
<1> QED
  BY <1>5, <1>6, <1>9 DEF EvidenceInv

LEMMA ActivateMembershipEvidence ==
  ASSUME TypeOK, EvidenceInv, UNCHANGED run, NEW a, NEW q \in Quantities, NEW k \in Keys,
         ActivateMembership(a, q, k), TypeOK'
  PROVE  EvidenceInv'
<1>1. CouponEvents'
  BY ActivateMembershipEmits, QuietCoupons DEF EvidenceInv, ActivateMembership
<1>2. \A e \in DOMAIN entitlements :
        e \in DOMAIN entitlements' /\ entitlements'[e].consumed = entitlements[e].consumed
  BY DEF ActivateMembership, TypeOK
<1>3. ConsumedShows'
  BY <1>2, ActivateMembershipEmits, QuietConsumption DEF EvidenceInv
<1>4. PointsEarned'
  BY OrdersKeepEarned DEF EvidenceInv, ActivateMembership
<1> QED
  BY <1>1, <1>3, <1>4 DEF EvidenceInv

LEMMA CancelMembershipEvidence ==
  ASSUME TypeOK, EvidenceInv, UNCHANGED run, NEW m \in DOMAIN memberships, NEW refund \in BOOLEAN,
         NEW e \in DOMAIN entitlements, NEW k \in Keys, CancelMembership(m, refund, e, k)
  PROVE  EvidenceInv'
<1>1. CouponEvents'
  BY CancelMembershipEmits, QuietCoupons DEF EvidenceInv, CancelMembership
<1>2. \A x \in DOMAIN entitlements :
        x \in DOMAIN entitlements' /\ entitlements'[x].consumed = entitlements[x].consumed
  <2>1. entitlements[e] \in Entitlement
    BY DEF TypeOK
  <2> QED  BY <2>1 DEF CancelMembership, TypeOK, Entitlement
<1>3. ConsumedShows'
  BY <1>2, CancelMembershipEmits, QuietConsumption DEF EvidenceInv
<1>4. PointsEarned'
  BY OrdersKeepEarned DEF EvidenceInv, CancelMembership
<1> QED
  BY <1>1, <1>3, <1>4 DEF EvidenceInv

LEMMA ConsumeEntitlementEvidence ==
  ASSUME TypeOK, EvidenceInv, UNCHANGED run, NEW e \in DOMAIN entitlements, NEW q \in Quantities,
         NEW k \in Keys, CanConsumeEntitlement(e, q), ConsumeEntitlement(e, q, k)
  PROVE  EvidenceInv'
<1> DEFINE C == "ENTITLEMENT_CONSUMED"
           ev == Ev(C, e, q, k)
<1>1. CouponEvents'
  BY ConsumeEntitlementEmits, QuietCoupons DEF EvidenceInv, ConsumeEntitlement
<1>2. PointsEarned'
  BY OrdersKeepEarned DEF EvidenceInv, ConsumeEntitlement
<1>3. q \in Nat /\ q > 0 /\ e \in Nat /\ entitlements[e] \in Entitlement
  BY ArgumentsAssumption DEF TypeOK, CanConsumeEntitlement
<1>4. /\ DOMAIN entitlements' = DOMAIN entitlements /\ entitlements'[e].consumed > 0
      /\ \A x \in DOMAIN entitlements : x # e => entitlements'[x] = entitlements[x]
  <2> DEFINE old == entitlements[e]
             n == entitlements[e].consumed + q
             new == [old EXCEPT !.consumed = n,
                                !.status = IF n >= entitlements[e].granted
                                           THEN "CONSUMED" ELSE "PARTIALLY_CONSUMED"]
  <2>1. n > 0
    BY <1>3 DEF Entitlement
  <2>2. entitlements' = [entitlements EXCEPT ![e] = new]
    BY DEF ConsumeEntitlement
  <2> HIDE DEF n
  <2>3. new.consumed = n /\ DOMAIN entitlements' = DOMAIN entitlements
    BY <1>3, <2>2 DEF Entitlement
  <2> HIDE DEF new
  <2> QED  BY <2>1, <2>2, <2>3
<1>5. ASSUME NEW x \in Nat, x # e  PROVE EventsOf(C, x)' = EventsOf(C, x)
  <2>1. ev \in BusinessEvent /\ ev.id = e /\ events \in Seq(BusinessEvent)
    BY <1>3, EvType DEF BusinessEventType, Ev, TypeOK
  <2>2. events' = events \o <<ev>>
    BY DEF ConsumeEntitlement, Emit
  <2> HIDE DEF ev, C
  <2>3. events' = Append(events, ev)
    BY <2>1, <2>2
  <2>4. Selected(Append(events, ev), C, x) = Selected(events, C, x)
    BY <1>5, <2>1, SelectedAppend
  <2>5. EventsOf(C, x)' = Selected(Append(events, ev), C, x) /\ EventsOf(C, x) = Selected(events, C, x)
    BY <2>3 DEF EventsOf, Selected
  <2> QED  BY <2>4, <2>5
<1>6. ConsumedShows'
  <2> SUFFICES ASSUME NEW x \in Nat, EventsOf(C, x)' # {}
               PROVE  x \in DOMAIN entitlements' /\ entitlements'[x].consumed > 0
    BY DEF ConsumedShows
  <2>1. CASE x = e
    BY <1>4, <2>1
  <2>2. CASE x # e
    <3>1. x \in DOMAIN entitlements /\ entitlements[x].consumed > 0
      BY <1>5, <2>2 DEF EvidenceInv, ConsumedShows
    <3> QED  BY <1>4, <2>2, <3>1
  <2> QED  BY <2>1, <2>2
<1> QED
  BY <1>1, <1>2, <1>6 DEF EvidenceInv

LEMMA DeleteStateEvidence ==
  ASSUME DeleteState
  PROVE  EvidenceInv'
<1>1. \A type, id : EventsOf(type, id)' = {}
  BY DEF DeleteState, EventsOf
<1>2. CouponEvents'
  BY <1>1, FS_EmptySet DEF CouponEvents, DeleteState
<1> QED
  BY <1>1, <1>2 DEF EvidenceInv, ConsumedShows, PointsEarned, DeleteState

LEMMA EvidenceInit == Init => EvidenceInv
<1> SUFFICES ASSUME Init  PROVE EvidenceInv
  OBVIOUS
<1>1. \A type, id : EventsOf(type, id) = {}
  BY DEF Init, EmptyTables, EventsOf
<1>2. CouponEvents
  <2>1. Cardinality({}) = 0 /\ DOMAIN coupons = {}
    BY FS_EmptySet DEF Init, EmptyTables
  <2> QED  BY <1>1, <2>1 DEF CouponEvents
<1> QED
  BY <1>1, <1>2 DEF EvidenceInv, ConsumedShows, PointsEarned, Init, EmptyTables

LEMMA EvidenceStep ==
  ASSUME TypeOK, RefundWithinPaid, EvidenceInv, [Next]_domainVars, TypeOK'
  PROVE  EvidenceInv'
<1>1. CASE UNCHANGED domainVars
  BY <1>1 DEF EvidenceInv, CouponEvents, ConsumedShows, PointsEarned, EventsOf, RefundPoints,
              domainVars
<1>2. CASE Next
  <2>0. UNCHANGED run
    BY <1>2 DEF Next
  <2>1. CASE \E b \in Balances, k \in Keys : CanCreateUser(b) /\ CreateUser(b, k)
    BY <2>0, <2>1, CreateUserEmits, NothingUsed DEF CreateUser
  <2>2. CASE OrderCommand
    <3>1. ASSUME NEW o \in DOMAIN orders, NEW a, CanRefundOrder(o, a)  PROVE orders[o].paid > 0
      <4>1. orders[o] \in Order
        BY DEF TypeOK
      <4> QED  BY <3>1, <4>1 DEF CanRefundOrder, RefundWithinPaid, Order
    <3> QED
      BY <2>0, <2>2, <3>1, ArgumentsAssumption, CreateOrderEvidence, PayOrderEvidence,
         CancelOrderEvidence, RefundOrderEvidence DEF OrderCommand
  <2>3. CASE CouponCommand
    BY <2>0, <2>3, IssueCouponEvidence, ApplyCouponEvidence DEF CouponCommand
  <2>4. CASE PointsCommand
    <3>1. PICK p \in PointAmounts, k \in Keys : RedeemPoints(p, k)
      BY <2>4 DEF PointsCommand
    <3> QED  BY <2>0, <3>1, RedeemPointsEmits, NothingUsed DEF RedeemPoints
  <2>5. CASE MembershipCommand
    BY <2>0, <2>5, ActivateMembershipEvidence, ConsumeEntitlementEvidence,
       CancelMembershipEvidence DEF MembershipCommand
  <2>6. CASE DeleteState
    BY <2>6, DeleteStateEvidence
  <2> QED  BY <1>2, <2>1, <2>2, <2>3, <2>4, <2>5, <2>6 DEF Next
<1> QED
  BY <1>1, <1>2

\* The rows and the event log give the Oracle the same evidence.
THEOREM EvidenceInvariant == Spec => []EvidenceInv
<1>1. TypeOK /\ TypeOK' /\ RefundWithinPaid /\ EvidenceInv /\ [Next]_domainVars => EvidenceInv'
  BY EvidenceStep
<1> QED
  BY <1>1, EvidenceInit, TypeCorrect, RefundsBounded, PTL DEF Spec

\* Of an order that is refunded whole, the share to revoke is all that was granted.
LEMMA WholeShare ==
  ASSUME NEW n \in Nat, NEW d \in Nat, d > 0
  PROVE  (n * d) \div d = n
  OBVIOUS

\* The points the handlers leave with an order are the ones the Oracle expects of it.
LEMMA PointsAsExpected ==
  ASSUME TypeOK, RefundWithinPaid, PointsRevokedExactly, BooksInv, EvidenceInv, RefundPoints,
         ~Axis("POINTS_GRANTED_AGAIN_ON_REFUND"), NEW o \in DOMAIN orders
  PROVE  LET expected == orders[o].paid \div Unit
             revoked  == IF orders[o].paid > 0
                         THEN (expected * orders[o].refunded) \div orders[o].paid ELSE 0
         IN /\ orders[o].points = expected
            /\ EventTotal("POINTS_GRANTED", o) = expected
            /\ EventTotal("POINTS_REVOKED", o) = revoked
<1> DEFINE r == orders[o]
           expected == r.paid \div Unit
<1>1. r \in Order /\ o \in Nat
  BY DEF TypeOK
<1>2. r.paid \in Nat /\ r.refunded \in Nat /\ r.points \in Nat
  BY <1>1 DEF Order
<1>3. ~Axis("REFUND_AGAINST_ORIGINAL")
  BY DEF TypeOK, RefundPoints, Profiles, AXES_BY_SCENARIO, Axis
<1>4. r.refunded <= r.paid
  BY <1>3 DEF RefundWithinPaid
<1>5. r.points = expected
  BY DEF EvidenceInv, PointsEarned, points_for
<1>6. r.ledgerGrant = r.points
      /\ r.ledgerRevoke = IF r.paid = 0 THEN 0 ELSE target_revoke(r, r.refunded)
  BY DEF PointsRevokedExactly
<1>7. /\ EventTotal("POINTS_GRANTED", o) = r.ledgerGrant
      /\ EventTotal("POINTS_REVOKED", o) = r.ledgerRevoke
  BY <1>1 DEF BooksInv, BooksOf, Book
<1>8. r.paid > 0 => target_revoke(r, r.refunded) = (expected * r.refunded) \div r.paid
  <2> SUFFICES ASSUME r.paid > 0
               PROVE  target_revoke(r, r.refunded) = (expected * r.refunded) \div r.paid
    OBVIOUS
  <2>1. CASE r.refunded < r.paid
    BY <1>2, <1>5, <2>1 DEF target_revoke
  <2>2. CASE r.refunded = r.paid
    <3>1. target_revoke(r, r.refunded) = r.points
      BY <1>2, <2>2 DEF target_revoke
    <3>2. (r.points * r.paid) \div r.paid = r.points
      BY <1>2, WholeShare
    <3> QED  BY <1>5, <2>2, <3>1, <3>2
  <2> QED  BY <1>2, <1>4, <2>1, <2>2
<1> HIDE DEF r, expected
<1>9. /\ r.points = expected /\ EventTotal("POINTS_GRANTED", o) = expected
      /\ EventTotal("POINTS_REVOKED", o)
           = IF r.paid > 0 THEN (expected * r.refunded) \div r.paid ELSE 0
  BY <1>2, <1>5, <1>6, <1>7, <1>8
<1> QED
  BY <1>9 DEF r, expected

\* Without a membership axis, nothing is left or was consumed of a refunded membership.
LEMMA MembershipEvidence ==
  ASSUME TypeOK, EntitlementsSound, EvidenceInv,
         axes \cap {"FULL_REFUND_AFTER_CONSUMPTION",
                    "ENTITLEMENT_LEFT_AFTER_REFUND", "ENTITLEMENT_OVERCONSUMPTION"} = {}
  PROVE  entitlement_refund
<1> SUFFICES ASSUME NEW m \in DOMAIN memberships, NEW e \in DOMAIN entitlements,
                    entitlements[e].membership = m, memberships[m].status # "ACTIVE"
             PROVE  /\ available(entitlements[e]) = 0
                    /\ memberships[m].status = "REFUNDED" =>
                         /\ entitlements[e].consumed = 0
                         /\ \A i \in EventsOf("MEMBERSHIP_REFUNDED", m),
                               j \in EventsOf("ENTITLEMENT_CONSUMED", e) : j < i
  BY DEF entitlement_refund
<1>1. ~Axis("FULL_REFUND_AFTER_CONSUMPTION") /\ ~Axis("ENTITLEMENT_LEFT_AFTER_REFUND")
      /\ axes \cap {"ENTITLEMENT_OVERCONSUMPTION", "ENTITLEMENT_LEFT_AFTER_REFUND"} = {}
  BY DEF Axis
<1>2. available(entitlements[e]) = 0
  BY <1>1 DEF EntitlementsSound
<1>3. memberships[m].status = "REFUNDED" => entitlements[e].consumed = 0
  BY <1>1 DEF EntitlementsSound
<1>4. entitlements[e].consumed = 0 => EventsOf("ENTITLEMENT_CONSUMED", e) = {}
  <2>1. e \in Nat
    BY DEF TypeOK
  <2> QED  BY <2>1 DEF EvidenceInv, ConsumedShows
<1> QED
  BY <1>2, <1>3, <1>4

LEMMA Attribution ==
  ASSUME TypeOK, RefundWithinPaid, CouponUsedOnce, PointsInv, EntitlementsSound, BooksInv,
         EvidenceInv
  PROVE  OracleAttribution
<1>1. refund_limit \/ Axis("REFUND_AGAINST_ORIGINAL")
  BY DEF refund_limit, RefundWithinPaid
<1>2. coupon_consumption \/ Axis("COUPON_RESTORED_ON_REFUND")
  <2> SUFFICES ASSUME ~Axis("COUPON_RESTORED_ON_REFUND"), NEW c \in DOMAIN coupons
               PROVE  coupons[c].usage <= 1 /\ Cardinality(EventsOf("COUPON_USED", c)) <= 1
    BY DEF coupon_consumption
  <2>1. coupons[c].usage = 0 \/ coupons[c].usage = 1
    BY DEF CouponUsedOnce
  <2>2. c \in Nat
    BY DEF TypeOK
  <2>3. Cardinality(EventsOf("COUPON_USED", c)) = coupons[c].usage
    BY <2>2 DEF EvidenceInv, CouponEvents
  <2> QED  BY <2>1, <2>3
<1>3. points_conservation \/ Axis("POINTS_GRANTED_AGAIN_ON_REFUND")
        \/ Axis("POINTS_OVERREDEMPTION")
  BY PointsAsExpected DEF points_conservation, PointsInv, PointsNeverNegative
<1>4. entitlement_non_negative \/ Axis("ENTITLEMENT_OVERCONSUMPTION")
  BY DEF entitlement_non_negative, EntitlementsSound
<1>5. entitlement_refund \/ axes \cap {"FULL_REFUND_AFTER_CONSUMPTION",
        "ENTITLEMENT_LEFT_AFTER_REFUND", "ENTITLEMENT_OVERCONSUMPTION"} # {}
  BY MembershipEvidence
<1> QED
  BY <1>1, <1>2, <1>3, <1>4, <1>5 DEF OracleAttribution

\* DeterministicOracle.evaluate, on the evidence of any run of the sandbox, reports an invariant
\* only when the run carries a defect axis that breaks it: whatever commands were accepted.
THEOREM OracleIsAttributable == Spec => []OracleAttribution
<1>1. TypeOK /\ RefundWithinPaid /\ CouponUsedOnce /\ PointsInv /\ EntitlementsSound
      /\ BooksInv /\ EvidenceInv => OracleAttribution
  BY Attribution
<1> QED
  BY <1>1, TypeCorrect, RefundsBounded, CouponsSpentOnce, PointsInvariant, EntitlementsAreSound,
     BooksInvariant, EvidenceInvariant, PTL
=============================================================================
