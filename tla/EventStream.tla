---------------------------- MODULE EventStream ----------------------------
(***************************************************************************)
(* One run in PostgresRuntimeStore (packages/attack_runtime/...            *)
(* postgres_store.py): writers whose transactions change its status and    *)
(* insert its events, and a client of GET /runs/{id}/events (control_api,  *)
(* api.py) that follows them and reconnects with the last id it has seen,  *)
(* as an EventSource does.                                                 *)
(*                                                                         *)
(* An event's cursor is an identity column: it is taken when the row is    *)
(* inserted, and the row is visible when its transaction commits.  Status  *)
(* changes of the run wait for each other on the row of attack_run; other  *)
(* events do not wait for anything.                                        *)
(***************************************************************************)
EXTENDS Integers, Sequences, SequencesExt

CONSTANTS Workers,     \* workers that may have the run
          MaxCursor    \* bound: event rows inserted

API == "api"           \* the process that serves POST /runs/{id}/cancel
Writers == Workers \cup {API}

ASSUME WritersAssumption == API \notin Workers /\ MaxCursor \in Nat

VARIABLES status,      \* attack_run.status, as committed
          events,      \* runtime_event by cursor
          order,       \* the cursors in the order their transactions committed
          txn,         \* the writers' open transactions
          seen,        \* the status request_cancel has read
          client       \* the stream and what it has delivered

vars == <<status, events, order, txn, seen, client>>
storeVars == <<status, events, order, txn, seen>>

\* The status changes and events of the in-memory store, made by commits.
Store == INSTANCE RunStore WITH log <- [i \in DOMAIN order |-> events[order[i]].what]

NoTxn == [cursor |-> 0, target |-> "DRAFT"]
Closed == [conn |-> "closed", cursor |-> 0, got |-> <<>>]

EventInit ==
  /\ status = "READY" /\ events = <<[what |-> Store!Created, state |-> "visible"]>>
  /\ order = <<1>>
  /\ txn = [w \in Writers |-> NoTxn] /\ seen = "DRAFT"
  /\ client = Closed

-----------------------------------------------------------------------------
(* Writers *)

Idle(w) == txn[w] = NoTxn

\* INSERT INTO runtime_event ... RETURNING cursor
Insert(w, what, target) ==
  /\ Len(events) < MaxCursor
  /\ events' = Append(events, [what |-> what, state |-> "open"])
  /\ txn' = [txn EXCEPT ![w] = [cursor |-> Len(events) + 1, target |-> target]]
  /\ UNCHANGED <<status, order, client>>

\* A status change of another writer is not committed yet.
RowLocked == \E w \in Writers : txn[w].target # "DRAFT"

append_event(w) ==
  /\ w \in Workers /\ Idle(w)
  /\ Insert(w, Store!Progress, "DRAFT")
  /\ UNCHANGED seen

\* mutant: the row is read without waiting, and compared with what the caller expected
CasOnSnapshot(w, expected, target) ==
  /\ Idle(w)
  /\ target \in Store!Allowed(expected)
  /\ status = expected
  /\ Insert(w, Store!Changed(expected, target), target)

\* UPDATE ... WHERE status = :expected waits for the row, and when it matched the change is
\* inserted as an event.  When it does not match, nothing is written.
compare_and_set_status(w, expected, target) ==
  /\ Idle(w) /\ ~RowLocked
  /\ target \in Store!Allowed(expected)
  /\ status = expected
  /\ Insert(w, Store!Changed(expected, target), target)

\* Every status change a worker makes; only the API asks for a cancellation.
WorkerCas(w) ==
  /\ w \in Workers
  /\ \E t \in Store!Allowed(status) \ {"CANCEL_REQUESTED"} : compare_and_set_status(w, status, t)
  /\ UNCHANGED seen

\* request_cancel reads the status in a transaction of its own ...
ReadForCancel ==
  /\ Idle(API) /\ seen = "DRAFT"
  /\ status \in {"READY", "SEARCHING", "REPLAYING"}
  /\ seen' = status
  /\ UNCHANGED <<status, events, order, txn, client>>

\* ... and may find it changed by the time it holds the row.
RequestCancel ==
  /\ seen # "DRAFT" /\ seen' = "DRAFT"
  /\ \/ compare_and_set_status(API, seen, "CANCEL_REQUESTED")
     \/ Idle(API) /\ ~RowLocked /\ status # seen /\ UNCHANGED <<status, events, order, txn, client>>

Commit(w) ==
  /\ ~Idle(w)
  /\ events' = [events EXCEPT ![txn[w].cursor].state = "visible"]
  /\ order' = Append(order, txn[w].cursor)
  /\ status' = IF txn[w].target = "DRAFT" THEN status ELSE txn[w].target
  /\ txn' = [txn EXCEPT ![w] = NoTxn]
  /\ UNCHANGED <<seen, client>>

\* The writer dies or loses its connection: the cursor stays unused.
Rollback(w) ==
  /\ ~Idle(w)
  /\ events' = [events EXCEPT ![txn[w].cursor].state = "gone"]
  /\ txn' = [txn EXCEPT ![w] = NoTxn]
  /\ UNCHANGED <<status, order, seen, client>>

-----------------------------------------------------------------------------
(* The stream *)

Visible == {c \in DOMAIN events : events[c].state = "visible"}

\* SELECT ... WHERE cursor > :cursor ORDER BY cursor
events_after(cursor) ==
  CHOOSE values \in SetToSeqs({c \in Visible : c > cursor}) :
    \A i, j \in DOMAIN values : i < j => values[i] < values[j]

Connect ==
  /\ client.conn = "closed"
  /\ client' = [client EXCEPT !.conn = "reading"]
  /\ UNCHANGED storeVars

Received(values, n, conn) ==
  client' = [conn |-> conn,
             cursor |-> IF n = 0 THEN client.cursor ELSE values[n],
             got |-> client.got \o SubSeq(values, 1, n)]

\* mutant: the position is the last event read, not the last one sent
CursorBeforeYield ==
  LET values == events_after(client.cursor) IN
  /\ client.conn = "reading"
  /\ \/ Received(values, Len(values), "checking")
     \/ \E n \in 0 .. Len(values) - 1 :
          client' = [conn |-> "closed", cursor |-> Last(values),
                     got |-> client.got \o SubSeq(values, 1, n)]
  /\ UNCHANGED storeVars

\* The events are sent one by one; the connection may be lost after any of them.
Read ==
  LET values == events_after(client.cursor) IN
  /\ client.conn = "reading"
  /\ \/ Received(values, Len(values), "checking")
     \/ \E n \in 0 .. Len(values) - 1 : Received(values, n, "closed")
  /\ UNCHANGED storeVars

\* mutant: the client is told not to come back
StopsForGood ==
  /\ client.conn = "checking"
  /\ client' = [client EXCEPT !.conn = IF status \in Store!Terminal THEN "over" ELSE "reading"]
  /\ UNCHANGED storeVars

\* The status is read after the events, and apart from them.
CheckStatus ==
  /\ client.conn = "checking"
  /\ client' = [client EXCEPT !.conn = IF status \in Store!Terminal THEN "closed" ELSE "reading"]
  /\ UNCHANGED storeVars

-----------------------------------------------------------------------------

WriterNext(w) == append_event(w) \/ WorkerCas(w) \/ Commit(w) \/ Rollback(w)
Follow == Connect \/ Read \/ CheckStatus

EventNext == (\E w \in Writers : WriterNext(w)) \/ ReadForCancel \/ RequestCancel \/ Follow

\* The stream loops while its client is there, an EventSource reconnects when it is dropped,
\* and the connection is not lost for ever before a batch gets through.
EventSpec ==
  /\ EventInit /\ [][EventNext]_vars
  /\ WF_vars(Connect) /\ WF_vars(CheckStatus)
  /\ SF_vars(Read /\ client'.conn = "checking")

-----------------------------------------------------------------------------
(* Properties *)

\* c became visible when an event with a higher cursor already was.
Overtaken(c) == \E i, j \in DOMAIN order : i < j /\ order[i] > c /\ order[j] = c

IsChange(c) == events[c].what # Store!Progress

\* GET /runs/{id}/events: over all its reconnections a client gets every event at most once and
\* in cursor order, and has all of them up to its position except those whose transaction was
\* overtaken by another writer's; and the status changes it gets are in the order they were made.
StreamSound ==
  /\ \A i \in DOMAIN client.got : \A j \in 1 .. i - 1 : client.got[j] < client.got[i]
  /\ \A c \in Visible :
       c <= client.cursor /\ c \notin ToSet(client.got) => Overtaken(c)
  /\ \A c, d \in Visible :
       IsChange(c) /\ IsChange(d) /\ c < d =>
         \A i, j \in DOMAIN order : order[i] = c /\ order[j] = d => i < j

\* A run that ends tells its followers: the change to a final status is delivered, even though
\* the stream may stop on that status before it has sent the event, unless another worker's
\* event overtook it.
FinalEventDelivered ==
  (status \in {"COMPLETED", "CANCELLED"})
    ~> \E c \in Visible : /\ IsChange(c) /\ events[c].what.to = status
                          /\ c \in ToSet(client.got) \/ Overtaken(c)

\* PostgresRuntimeStore implements the atomic store: a commit is one append or one status
\* change with its event, and nothing else changes what the other transactions read.
ImplementsStore == Store!StoreSpec
=============================================================================
