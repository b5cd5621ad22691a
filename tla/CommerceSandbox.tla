-------------------------- MODULE CommerceSandbox --------------------------
(***************************************************************************)
(* SandboxService.execute and reset_run around the tables of SandboxDomain *)
(* (services/commerce_sandbox/.../service.py).  One command is one         *)
(* transaction that holds the run row FOR UPDATE, so commands of one run   *)
(* are serial whoever sends them and however often.  A command whose       *)
(* (epoch, action, key) already has a receipt changes nothing and answers  *)
(* with that receipt.  Otherwise its handler runs in a savepoint, and the  *)
(* receipt is stored in the same transaction, SUCCEEDED or REJECTED.       *)
(***************************************************************************)
EXTENDS SandboxDomain

CONSTANTS MaxEpoch,      \* bound on resets
          MaxReceipts,   \* bound on receipts stored
          MaxRejected    \* bound on those of them that are REJECTED

VARIABLES epoch,             \* RunSpace.epoch
          snapshot_version,  \* RunSpace.snapshot_version
          receipts           \* ActionReceiptRecord rows of the run, of every epoch

serviceVars == <<epoch, snapshot_version, receipts>>
vars == <<domainVars, serviceVars>>

existing_in_any_epoch(act, k) ==   \* mutant: keys survive a reset
  {r \in receipts : r.action = act /\ r.key = k}

existing_success(act, k) ==   \* mutant: a rejected command may be tried again under its key
  {r \in receipts : r.epoch = epoch /\ r.action = act /\ r.key = k /\ r.status = "SUCCEEDED"}

existing(act, k) ==
  {r \in receipts : r.epoch = epoch /\ r.action = act /\ r.key = k}

Store(act, k, status) ==
  /\ Cardinality(receipts) < MaxReceipts
  /\ receipts' = receipts \cup {[epoch |-> epoch, action |-> act, key |-> k, status |-> status]}

\* execute(): can is the conjunction of the handler's checks, do its writes.
execute(act, k, can, do) ==
  /\ \/ /\ existing(act, k) # {}
        /\ UNCHANGED <<tables, serviceVars>>
     \/ /\ existing(act, k) = {}
        /\ Supported(act) /\ can
        /\ do
        /\ snapshot_version' = snapshot_version + (IF act = "inspect_state" THEN 0 ELSE 1)
        /\ Store(act, k, "SUCCEEDED")
        /\ UNCHANGED epoch
     \/ /\ existing(act, k) = {}
        /\ ~(Supported(act) /\ can)
        /\ Cardinality({r \in receipts : r.status = "REJECTED"}) < MaxRejected
        /\ Store(act, k, "REJECTED")
        /\ UNCHANGED <<tables, epoch, snapshot_version>>
  /\ UNCHANGED run

reset_keeps_version ==   \* mutant: the version is not reset
  /\ epoch < MaxEpoch /\ DeleteState
  /\ epoch' = epoch + 1
  /\ UNCHANGED <<run, snapshot_version, receipts>>

reset_run ==
  /\ epoch < MaxEpoch
  /\ DeleteState
  /\ epoch' = epoch + 1
  /\ snapshot_version' = 0
  /\ UNCHANGED <<run, receipts>>

-----------------------------------------------------------------------------
CommerceInit == Init /\ epoch = 0 /\ snapshot_version = 0 /\ receipts = {}

\* Row ids a client may name, one more than can exist.
OrderIds == 1 .. MaxOrders + 1
CouponIds == 1 .. MaxCoupons + 1
MembershipIds == 1 .. MaxMemberships + 1

Command(k) ==
  \/ \E b \in Balances : execute("create_user", k, CanCreateUser(b), CreateUser(b, k))
  \/ \E v, t \in Amounts :
       /\ Len(coupons) < MaxCoupons
       /\ execute("issue_coupon", k, CanIssueCoupon(v, t), IssueCoupon(v, t, k))
  \/ \E a \in Amounts :
       /\ Len(orders) < MaxOrders
       /\ execute("create_order", k, CanCreateOrder(a), CreateOrder(a, k))
  \/ \E o \in OrderIds, c \in CouponIds :
       execute("apply_coupon", k, CanApplyCoupon(o, c), ApplyCoupon(o, c, k))
  \/ \E o \in OrderIds : execute("pay_order", k, CanPayOrder(o), PayOrder(o, k))
  \/ \E o \in OrderIds : execute("cancel_order", k, CanCancelOrder(o), CancelOrder(o, k))
  \/ \E o \in OrderIds, a \in Amounts :
       execute("refund_order", k, CanRefundOrder(o, a), RefundOrder(o, a, k))
  \/ \E p \in PointAmounts :
       /\ redeemed + p <= MaxRedeemed
       /\ execute("redeem_points", k, CanRedeemPoints(p), RedeemPoints(p, k))
  \/ \E a \in Amounts, q \in Quantities :
       /\ Len(memberships) < MaxMemberships
       /\ execute("activate_membership", k, CanActivateMembership(a, q),
                  ActivateMembership(a, q, k))
  \/ \E e \in MembershipIds, q \in Quantities :
       execute("consume_entitlement", k, CanConsumeEntitlement(e, q),
               ConsumeEntitlement(e, q, k))
  \/ \E m \in MembershipIds, refund \in BOOLEAN :
       execute("cancel_membership", k,
               \E e \in DOMAIN entitlements : CanCancelMembership(m, refund, e),
               \E e \in DOMAIN entitlements : /\ CanCancelMembership(m, refund, e)
                                              /\ CancelMembership(m, refund, e, k))
  \* inspect_state may carry a key like any command; without one its receipt is stored under
  \* a fresh "inspect:<uuid>" that nothing can look up.
  \/ execute("inspect_state", k, TRUE, UNCHANGED tables)

CommerceNext ==
  \/ \E k \in Keys : Command(k)
  \/ reset_run

CommerceSpec == CommerceInit /\ [][CommerceNext]_vars

-----------------------------------------------------------------------------
(* Properties *)

\* The event every accepted command of this kind records.
EffectOf ==
  [create_user |-> {"USER_CREATED"}, issue_coupon |-> {"COUPON_ISSUED"},
   create_order |-> {"ORDER_CREATED"}, apply_coupon |-> {"COUPON_RESERVED"},
   pay_order |-> {"PAYMENT_CAPTURED"}, cancel_order |-> {"ORDER_CANCELLED"},
   refund_order |-> {"REFUND_ISSUED"}, redeem_points |-> {"POINTS_REDEEMED"},
   activate_membership |-> {"MEMBERSHIP_ACTIVATED"},
   consume_entitlement |-> {"ENTITLEMENT_CONSUMED"},
   cancel_membership |-> {"MEMBERSHIP_CANCELLED", "MEMBERSHIP_REFUNDED"}]

Effects(act, k) ==
  {i \in DOMAIN events : events[i].type \in EffectOf[act] /\ events[i].key = k}

\* Exactly-once: in the current epoch a (write, key) pair has one effect if its receipt says
\* SUCCEEDED and none otherwise, after any number of deliveries, rejections and resets.
EffectIffReceipt ==
  \A act \in DOMAIN EffectOf, k \in Keys :
    Cardinality(Effects(act, k)) =
      IF \E r \in existing(act, k) : r.status = "SUCCEEDED" THEN 1 ELSE 0

\* uq_receipts_run_epoch_action_key and uq_refunds_run_key can never fail: a violated unique
\* constraint is not a DomainError and would surface as an unexplained 500.
KeysUnique ==
  /\ \A r, s \in receipts :
       r.epoch = s.epoch /\ r.action = s.action /\ r.key = s.key => r = s
  /\ \A i, j \in DOMAIN refunds : refunds[i].key = refunds[j].key => i = j

\* snapshot_version is what readers compare: it counts the accepted writes of the epoch and
\* moves for nothing else (not for rejections, replays or inspections).
VersionCountsWrites ==
  snapshot_version =
    Cardinality({r \in receipts : /\ r.epoch = epoch /\ r.status = "SUCCEEDED"
                                  /\ r.action # "inspect_state"})
=============================================================================
