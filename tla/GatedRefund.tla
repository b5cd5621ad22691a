---------------------------- MODULE GatedRefund ----------------------------
(***************************************************************************)
(* One refund ticket handled by RefundAgent through ToolGateway, with a    *)
(* RuntimeGate behind it (GATED) or without one (BARE), against the        *)
(* commerce sandbox over a network that may lose, delay or break           *)
(* (packages/refund_agent/.../agent.py and gateway.py,                     *)
(* packages/runtime_gate/.../gate.py).                                     *)
(*                                                                         *)
(* Every HTTP exchange is a step of its own, so the sandbox may change     *)
(* between any two, and between the SELECTs of one snapshot.  A read is    *)
(* answered or fails.  A write is put on the wire, executed when the       *)
(* sandbox gets to it, and answered unless the answer is lost.  The        *)
(* commands that set the ticket up, and those of anybody else, are sent    *)
(* under key 0; attempt n of the agent uses key n, for                     *)
(* "<ticket>:refund:<n>".  The receipt that inspect_state leaves under a   *)
(* fresh uuid is not kept: no one reads it.                                *)
(***************************************************************************)
EXTENDS CommerceSandbox

CONSTANTS Modes,         \* which of GATED (TRUE) and BARE (FALSE) to consider
          Environments,  \* which sets of faults to consider
          Requests,      \* what a ticket may ask for
          max_attempts   \* RefundAgent.max_attempts

Attempts == 1 .. max_attempts

\* READ: reads fail.  LOST: a request or an answer disappears.  BROKEN: the connection breaks
\* under a request, which the sandbox may execute all the same.  LATE: the client's timeout
\* may fire while the sandbox is still to execute the request.  OTHER: other clients write.
Faults == {"READ", "LOST", "BROKEN", "LATE", "OTHER"}

\* order = 0 when parse_refund_request finds nothing to act on
Request == [order : Nat, amount : Nat, full : BOOLEAN]

ASSUME AttemptsAssumption == max_attempts \in Nat \ {0} /\ Keys = 0 .. max_attempts
ASSUME ModesAssumption == Modes \subseteq BOOLEAN
ASSUME EnvironmentsAssumption == Environments \subseteq SUBSET Faults
ASSUME RequestsAssumption == Requests \subseteq Request

VARIABLES guard,     \* the gateway has a guard
          env,       \* the faults of this environment
          request,   \* the ticket, as parsed
          pc,        \* where the agent and the gateway are
          attempt,   \* the attempt of handle(), whose key is in use
          amount,    \* the amount decide() settled on
          before, after,  \* the snapshots around the write
          reading,   \* the tables read so far for the next one
          wire,      \* refund requests the sandbox has not executed yet
          reply,     \* the receipt's status on its way back, or "NONE"
          outcome    \* AgentReport.outcome, or "OPEN"

worldVars == <<guard, env, request>>
viewVars == <<before, after, reading>>
agentVars == <<pc, attempt, amount, viewVars, outcome>>
netVars == <<wire, reply>>
allVars == <<vars, worldVars, agentVars, netVars>>

retryable_failures == {"FAILED"}   \* mutant: a timeout is final
retryable == {"FAILED", "TIMEOUT"}
REFUNDABLE_ORDER_STATES == {"PAID", "PARTIALLY_REFUNDED"}

\* The state of a snapshot, which is all that its state_hash covers: the ledger is not in it.
ShownOrder(o) ==
  [f \in {"original", "discount", "paid", "refunded", "points", "status", "coupon"} |-> o[f]]
snapshot ==
  <<user, coupons, [o \in DOMAIN orders |-> ShownOrder(orders[o])], memberships, entitlements>>

\* get_receipt: by key alone, whatever the action
receipt_of(k) == {r \in receipts : r.epoch = epoch /\ r.key = k}

any_receipt(status) == "SUCCEEDED"   \* mutant: a rejection reads as a success

from_receipt(status) == IF status = "SUCCEEDED" THEN "SUCCEEDED" ELSE "FAILED"

Unreadable == "READ" \in env
-----------------------------------------------------------------------------
(* RefundAgent.handle *)

FirstCheck == IF guard THEN "retry_check" ELSE "send"

Report(what) == outcome' = what /\ pc' = "done" /\ UNCHANGED attempt

\* The agent's reaction to the ToolResult of an attempt.
Result(r) ==
  \/ r = "SUCCEEDED" /\ Report("COMPLETED")
  \/ /\ r \in retryable /\ attempt < max_attempts
     /\ attempt' = attempt + 1 /\ pc' = FirstCheck /\ UNCHANGED outcome
  \/ /\ r # "SUCCEEDED"
     /\ r \in retryable => attempt = max_attempts
     /\ Report("ESCALATED")

Goto(next) == pc' = next /\ UNCHANGED <<attempt, outcome>>

Decidable ==
  /\ request.order \in DOMAIN orders
  /\ orders[request.order].status \in REFUNDABLE_ORDER_STATES

Inspect ==
  /\ pc = "inspect"
  /\ \/ (Unreadable \/ ~Decidable) /\ Report("ESCALATED") /\ UNCHANGED amount
     \/ /\ Decidable
        /\ amount' = IF request.full THEN orders[request.order].paid ELSE request.amount
        /\ Goto(FirstCheck)
  /\ UNCHANGED <<vars, worldVars, netVars, viewVars>>

-----------------------------------------------------------------------------
(* ToolGateway._dispatch with its guard *)

\* A guard answers, or could not read what it needed: then the outcome is UNKNOWN.
Guarded(at, answer) ==
  /\ pc = at
  /\ answer \/ (Unreadable /\ Result("UNKNOWN") /\ UNCHANGED <<before, after>>)
  /\ reading' = <<>>
  /\ UNCHANGED <<vars, worldVars, netVars, amount>>

RetryCheck ==
  Guarded("retry_check",
    /\ \/ receipt_of(attempt) = {} /\ Goto("pre_check")
       \/ \E r \in receipt_of(attempt) : Result(from_receipt(r.status))
    /\ UNCHANGED <<before, after>>)

WithinPayment ==   \* mutant: earlier refunds do not count
  Decidable /\ amount <= orders[request.order].paid

WithinRefundBudget ==
  /\ Decidable
  /\ orders[request.order].refunded + amount <= orders[request.order].paid

PreCheck ==
  Guarded("pre_check",
    /\ \/ amount = 0 /\ Result("UNKNOWN")
       \/ amount > 0 /\ ~WithinRefundBudget /\ Result("REFUSED")
       \/ amount > 0 /\ WithinRefundBudget /\ Goto("before")
    /\ UNCHANGED <<before, after>>)

\* _snapshot has one SELECT per table and does not take the run's lock: each table is as it
\* is when its turn comes.
ReadTable ==
  /\ pc \in {"before", "after", "post_check"} /\ Len(reading) + 1 < Len(snapshot)
  /\ reading' = Append(reading, snapshot[Len(reading) + 1])
  /\ UNCHANGED <<vars, worldVars, netVars, pc, attempt, amount, before, after, outcome>>

\* The snapshot complete with its last table.
View == Append(reading, snapshot[Len(snapshot)])
Viewed == Len(View) = Len(snapshot)

Before ==
  Guarded("before", Viewed /\ before' = View /\ Goto("send") /\ UNCHANGED after)

\* What _send returned: only a success, or a timeout, of a guarded write goes on.
Sent(r) ==
  \/ guard /\ r = "TIMEOUT" /\ Goto("recover")
  \/ guard /\ r = "SUCCEEDED" /\ Goto("after")
  \/ (~guard \/ r \notin {"TIMEOUT", "SUCCEEDED"}) /\ Result(r)

\* mutants: a timeout is given up on, or tried again, without looking for its receipt
RecoverNothing == Guarded("recover", Result("UNKNOWN") /\ UNCHANGED <<before, after>>)
RecoverBlindly == Guarded("recover", Result("TIMEOUT") /\ UNCHANGED <<before, after>>)

\* A receipt under the key settles the timeout; no receipt leaves it standing.
Recover ==
  Guarded("recover",
    /\ \/ receipt_of(attempt) = {} /\ Result("TIMEOUT")
       \/ \E r \in receipt_of(attempt) : Sent(from_receipt(r.status))
    /\ UNCHANGED <<before, after>>)

After ==
  Guarded("after", Viewed /\ after' = View /\ Goto("post_check") /\ UNCHANGED before)

\* STALE_VIEW and EFFECT_NOT_OBSERVED both become UNKNOWN
PostCheck ==
  Guarded("post_check",
    /\ Viewed
    /\ Result(IF View = after /\ View # before THEN "SUCCEEDED" ELSE "UNKNOWN")
    /\ UNCHANGED <<before, after>>)

-----------------------------------------------------------------------------
(* _send, and the network *)

Send ==
  /\ pc = "send"
  /\ wire' = wire \cup {[key |-> attempt, amount |-> amount]}
  /\ reply' = "NONE"
  /\ Goto("wait")
  /\ UNCHANGED <<vars, worldVars, amount, viewVars>>

Waiting == \E m \in wire : m.key = attempt

\* The client reads an answer, gives up, or sees the connection fail.
Answered == reply # "NONE" /\ Sent(from_receipt(reply))
TimedOutOnlyLate == "LATE" \in env /\ Sent("TIMEOUT")   \* mutant: no timeout on the answer
TimedOut == ("LATE" \in env \/ (~Waiting /\ reply = "NONE")) /\ Sent("TIMEOUT")
Disconnected == "BROKEN" \in env /\ Sent("UNKNOWN")

Wait ==
  /\ pc = "wait"
  /\ Answered \/ TimedOut \/ Disconnected
  /\ reply' = "NONE"
  /\ UNCHANGED <<vars, worldVars, wire, amount, viewVars>>

\* execute_action: the sandbox executes a request; the acknowledgement of a refund is lost
\* under REFUND_ACK_LOST, after the commit.
Deliver ==
  \E m \in wire :
    LET can  == CanRefundOrder(request.order, m.amount)
        done == existing("refund_order", m.key)
        status == IF done # {} THEN (CHOOSE r \in done : TRUE).status
                  ELSE IF Supported("refund_order") /\ can THEN "SUCCEEDED" ELSE "REJECTED"
    IN
    /\ execute("refund_order", m.key, can, RefundOrder(request.order, m.amount, m.key))
    /\ wire' = wire \ {m}
    /\ \/ /\ pc = "wait" /\ m.key = attempt /\ ~Axis("REFUND_ACK_LOST")
          /\ reply' = status
       \/ /\ pc # "wait" \/ m.key # attempt \/ Axis("REFUND_ACK_LOST") \/ "LOST" \in env
          /\ UNCHANGED reply
    /\ UNCHANGED <<worldVars, agentVars>>

\* A request that never reaches a handler: connect timeout, 502, 503.
Lose ==
  /\ "LOST" \in env
  /\ \E m \in wire : wire' = wire \ {m}
  /\ UNCHANGED <<vars, worldVars, agentVars, reply>>

\* The commands that build the ticket's background, every one of which must succeed, and
\* those of other clients.
Client ==
  /\ pc = "setup" \/ "OTHER" \in env
  /\ Command(0)
  /\ \A r \in receipts' \ receipts : r.status = "SUCCEEDED"
  /\ UNCHANGED <<worldVars, agentVars, netVars>>

Start ==
  /\ pc = "setup" /\ Goto("inspect")
  /\ UNCHANGED <<vars, worldVars, netVars, amount, viewVars>>

-----------------------------------------------------------------------------
GatedInit ==
  /\ CommerceInit
  /\ guard \in Modes /\ env \in Environments /\ request \in Requests
  /\ pc = "setup" /\ attempt = 1 /\ amount = 0
  /\ before = <<>> /\ after = <<>> /\ reading = <<>>
  /\ wire = {} /\ reply = "NONE"
  /\ outcome = "OPEN"

Agent ==
  \/ Inspect \/ RetryCheck \/ PreCheck \/ ReadTable \/ Before
  \/ Send \/ Wait \/ Recover \/ After \/ PostCheck

GatedNext == Client \/ Start \/ Agent \/ Deliver \/ Lose

\* The agent's coroutine runs and its timeouts fire, and the sandbox executes what it got.
Fairness == WF_allVars(Agent) /\ WF_allVars(Deliver)

GatedSpec == GatedInit /\ [][GatedNext]_allVars /\ Fairness

-----------------------------------------------------------------------------
(* Properties *)

\* The refunds this ticket caused.
TicketRefunds == {i \in DOMAIN refunds : refunds[i].key \in Attempts}

\* "retrying an unanswered write under a new key is how one refund becomes two ... only
\* something that can see the durable receipt can [rule it out], which is what the gate does"
\* (agent.py).
NoDuplicateRefund == guard => Cardinality(TicketRefunds) <= 1

Ticket == INSTANCE RefundTicket WITH paidOut <- Cardinality(TicketRefunds), report <- outcome

\* Behind the gate a ticket behaves as RefundTicket: the refund is in the ledger before the
\* agent claims it, and no retry, replay or recovered receipt pays it out again.
ImplementsTicket == Ticket!TicketSpec

\* pre_check keeps cumulative refunds within what was paid even where the sandbox itself would
\* not (REFUND_AGAINST_ORIGINAL), as long as nobody else writes and no request outlives its
\* client's patience.
GateHoldsBudget ==
  guard /\ env \cap {"LATE", "OTHER"} = {} =>
    \A o \in DOMAIN orders : orders[o].refunded <= orders[o].paid

\* No false block: without faults or other clients, acknowledgements lost or not, the gate
\* stops a ticket only if the refund was not possible, and then nothing was paid out.
NoFalseBlock ==
  guard /\ env = {} /\ outcome = "ESCALATED" =>
    /\ TicketRefunds = {}
    /\ ~(Decidable /\ CanRefundOrder(request.order, amount) /\ WithinRefundBudget)

\* What the benchmark's BARE arm must show: with every acknowledgement of a refund lost, the
\* agent alone never learns that it succeeded, and stops paying only when its attempts are
\* used up or the order can give no more.
BareRepeats ==
  ~guard /\ env = {} /\ Axis("REFUND_ACK_LOST") /\ outcome # "OPEN" =>
    /\ outcome = "ESCALATED"
    /\ \/ Cardinality(TicketRefunds) = max_attempts
       \/ ~CanRefundOrder(request.order, amount)

\* claimed_complete is never an invention, in either mode and on any network: the refund of
\* the very attempt the agent stopped at is in the ledger, for the amount it decided on.
ClaimBacked ==
  outcome = "COMPLETED" =>
    \E i \in DOMAIN refunds :
      /\ refunds[i].key = attempt
      /\ refunds[i].order = request.order /\ refunds[i].amount = amount

\* Every ticket that is started is reported on, whatever the network does.
EveryTicketReported == pc = "inspect" ~> outcome # "OPEN"
=============================================================================
