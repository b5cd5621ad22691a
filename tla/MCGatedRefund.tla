--------------------------- MODULE MCGatedRefund ---------------------------
(***************************************************************************)
(* One ticket on an order of one or three cents, behind a gate or not.  A  *)
(* fault is something the network may do, so an environment with more of   *)
(* them has all the behaviours of one with fewer; the smaller ones are     *)
(* there for the properties that assume them.                              *)
(***************************************************************************)
EXTENDS GatedRefund

MCRuns == {r \in RunSpace :
             /\ r.scenario \in {"PROMOTION", "REFUND_POINTS"}
             /\ r.axes \subseteq {"REFUND_AGAINST_ORIGINAL", "REFUND_ACK_LOST"}}

TwoAttempts == 0 .. 2
ThreeAttempts == 0 .. 3

\* Nothing to act on, too little, some or most of the order, or all of it.
AnyRequest == [order : {1}, amount : {0, 1, 2}, full : {FALSE}]
              \cup [order : {0, 1}, amount : {0}, full : {TRUE}]
Refundable == {r \in AnyRequest : r.order = 1 /\ (r.full \/ r.amount = 1)}

\* A sandbox that is done with a request by the time its client gives up, and any sandbox.
PromptServer == {{}, {"READ", "LOST", "BROKEN"}, Faults \ {"LATE"}}
AnyServer == {{}, Faults}
LateServer == {{"LATE"}}
=============================================================================
