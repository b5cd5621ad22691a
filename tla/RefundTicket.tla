---------------------------- MODULE RefundTicket ----------------------------
(***************************************************************************)
(* What a refund ticket handled behind the runtime gate promises, without  *)
(* saying how: money leaves at most once, a ticket is reported COMPLETED   *)
(* only once the money has left, and a report is final.  An escalated      *)
(* ticket may still see its one refund arrive: the agent stopped because   *)
(* nobody could tell it whether it would.                                  *)
(***************************************************************************)
EXTENDS Naturals

VARIABLES paidOut,   \* how often the ticket's refund is in the ledger
          report     \* what the agent has said

ticketVars == <<paidOut, report>>

TicketInit == paidOut = 0 /\ report = "OPEN"

PayOut == paidOut = 0 /\ report # "COMPLETED" /\ paidOut' = 1 /\ UNCHANGED report

Complete == report = "OPEN" /\ paidOut = 1 /\ report' = "COMPLETED" /\ UNCHANGED paidOut

Escalate == report = "OPEN" /\ report' = "ESCALATED" /\ UNCHANGED paidOut

TicketNext == PayOut \/ Complete \/ Escalate

TicketSpec == TicketInit /\ [][TicketNext]_ticketVars
=============================================================================
