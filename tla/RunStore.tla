------------------------------ MODULE RunStore ------------------------------
(***************************************************************************)
(* What a RuntimeStore promises of one run: its status moves along the     *)
(* allowed transitions by compare-and-set, and the change is in the run's  *)
(* event log when it is in the row.  This is InMemoryRuntimeStore          *)
(* (packages/attack_runtime/.../workflow.py), "the same CAS and uniqueness *)
(* contract" PostgresRuntimeStore says it implements.                      *)
(***************************************************************************)
EXTENDS Sequences

VARIABLES status, log

storeVars == <<status, log>>

AttackStatus == {"DRAFT", "NEEDS_CONFIRMATION", "READY", "SEARCHING", "REPLAYING", "RECOVERING",
                 "CANCEL_REQUESTED", "CANCELLED", "FAILED", "COMPLETED"}

Allowed(s) ==
  CASE s = "DRAFT" -> {"NEEDS_CONFIRMATION", "READY"}
    [] s = "NEEDS_CONFIRMATION" -> {"READY"}
    [] s = "READY" -> {"SEARCHING", "CANCEL_REQUESTED", "FAILED"}
    [] s = "SEARCHING" -> {"REPLAYING", "COMPLETED", "RECOVERING", "CANCEL_REQUESTED", "FAILED"}
    [] s = "REPLAYING" -> {"SEARCHING", "COMPLETED", "RECOVERING", "CANCEL_REQUESTED", "FAILED"}
    [] s = "RECOVERING" -> {"SEARCHING", "REPLAYING", "CANCEL_REQUESTED", "FAILED"}
    [] s = "CANCEL_REQUESTED" -> {"CANCELLED"}
    [] s = "FAILED" -> {"RECOVERING"}
    [] OTHER -> {}

Terminal == {"COMPLETED", "CANCELLED", "FAILED"}

\* An event is the status change it reports, or other progress.
Created == [from |-> "DRAFT", to |-> "READY"]
Changed(s, t) == [from |-> s, to |-> t]
Progress == [from |-> "DRAFT", to |-> "DRAFT"]

create_run == status = "READY" /\ log = <<Created>>

compare_and_set_status(target) ==
  /\ target \in Allowed(status)
  /\ status' = target /\ log' = Append(log, Changed(status, target))

append_event == log' = Append(log, Progress) /\ UNCHANGED status

StoreNext == append_event \/ \E t \in AttackStatus : compare_and_set_status(t)

StoreSpec == create_run /\ [][StoreNext]_storeVars
=============================================================================
