------------------------- MODULE MCCandidateReplay -------------------------
(***************************************************************************)
(* Every profile of every scenario against rules the sandbox implements    *)
(* and rules it does not.  A coupon of five makes an order of five free, a *)
(* spend of nine earns no points on the orders there are, one of a cent    *)
(* and a half earns more than the sandbox's, a promotion is in USD, and    *)
(* two prices are no whole number of cents (three and none when rounded).  *)
(***************************************************************************)
EXTENDS CandidateReplay

MCRuns == {r \in RunSpace : r.axes \cap TRANSPORT_DEFECT_AXES = {}}

RefundRules == {None, [partial |-> TRUE, maximum |-> 2], [partial |-> FALSE, maximum |-> 1]}

MCRules ==
  [scenario : {"PROMOTION"}, points : {None}, membership : {None}, refund : RefundRules,
   promotion : [minimum : {500}, discount : {200, 500}, currency : {"CNY"}, restore : BOOLEAN]
               \cup [minimum : {500}, discount : {249}, currency : {"USD"}, restore : {TRUE}]]
  \cup [scenario : {"REFUND_POINTS"}, promotion : {None}, membership : {None},
        refund : RefundRules,
        points : {[spend |-> 200, granted |-> 1, revoke |-> TRUE],
                  [spend |-> 200, granted |-> 1, revoke |-> FALSE],
                  [spend |-> 150, granted |-> 1, revoke |-> TRUE],
                  [spend |-> 900, granted |-> 1, revoke |-> TRUE]}]
  \cup [scenario : {"MEMBERSHIP_ENTITLEMENT"}, promotion : {None}, refund : {None},
        points : {None},
        membership : [price : {300}, quantity : {2},
                      policy : {"UNUSED_ONLY", "PRORATED", "NON_REFUNDABLE"}]
                     \cup [price : {250, 49}, quantity : {2}, policy : {"UNUSED_ONLY"}]]

MCKeys == 1 .. max_steps
=============================================================================
