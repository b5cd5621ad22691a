# RuleArena: a TLA+ development

RuleArena looks for violations of business rules in a commerce backend. One half searches for
them: a worker lets strategy agents propose action sequences in a simulator, replays the
promising ones over HTTP against a commerce sandbox, and believes only what a deterministic
Oracle says of the replay. The other half guards against them: a refund agent works tickets
against the same sandbox through a tool gateway, bare or behind a runtime gate, and a benchmark
compares the two. This directory holds the model of both halves, the TLC runs that check it and
the proofs TLAPS checks.

Paths below are relative to `src/`.

## 1. Inventory

| Component | State it keeps | Operations | Interacts with | What is hard |
| --- | --- | --- | --- | --- |
| Commerce sandbox, handlers (`services/commerce_sandbox/.../service.py`) | users, coupons, orders, refunds, points ledger, memberships, entitlements, events of one run | 12 commands, each with its defect axes | called by `execute` only | long command sequences, split refunds and rounding, coupons shared by orders, errors raised after writes |
| Commerce sandbox, execution (`service.py`, `app.py`) | run row (epoch, snapshot version), receipts | `execute`, `reset_run`, `get_receipt`, `get_snapshot` | HTTP clients: replay, gateway, gate, benchmark | replayed and reused keys, rejections, resets, acknowledgements lost after the commit, readers without the lock |
| Oracle (`packages/oracle`) | none | one check per invariant over snapshots, events, receipts | worker, replay, benchmark | which defect shows up as which violation |
| Refund agent, tool gateway, runtime gate (`packages/refund_agent`, `packages/runtime_gate`) | attempt, amount, snapshots around the write | `handle`, `_dispatch`, `pre_check`, `retry_check`, `post_check` | sandbox over HTTP | time of check against time of use, timeouts against late commits, retries under fresh keys, failing reads |
| Attack runtime (`packages/attack_runtime`: `worker.py`, `workflow.py`, `postgres_store.py`) | run, strategy, checkpoint and counterexample rows; the worker's local variables | `run`, `_search_strategy`, compare-and-set, checkpoints, cancellation | ARQ, simulator, replay, Control API | crashes between transactions, redelivery, two workers at once, stale local status, budget shares |
| Control API (`services/control_api`) | run and policy rows through the stores | create, cancel, stream events; compile, confirm | store, queue, compiler, browsers | events and status read apart, reconnections, numbering of versions |
| Attack worker process (`services/attack_worker`) | none of its own | `execute_attack` | ARQ | job timeout, redelivery |
| Rule compiler and versions (`attack_runtime/compiler.py`, `postgres_store.py`) | drafts, rule versions, the adapter's record of calls | `compile`, `confirm` | LLM, Control API | requests that overlap on one adapter, concurrent confirmation |
| Reference simulator (`packages/reference_simulator`) | simulated tables | `transition`, `legal_actions`, search | worker, strategy agents | agreement with the sandbox |
| Strategy agents (`attack_runtime/agents.py`) | history of a search | propose, `validate_action_proposal` | LLM, simulator, worker | what may get on a path |
| Replay and minimisation (`attack_runtime/replay.py`, `minimization.py`) | none | `replay`, `minimize_trace` | sandbox, worker | lost writes, answers that are not monotone, termination |
| Search benchmark (`packages/evaluation`: `runner.py`, `store.py`, `metrics.py`, `gate.py`) | benchmark runs and case facts | `run`, resume, finalise, release gate | worker, replay | killed and racing invocations, configurations that differ |
| Refund benchmark (`evaluation/refund_*.py`) | reports | set up, run, score | sandbox, refund agent | as for the agent |
| Policy schema, observability, migrations, frontend, scripts | | | | |

What makes each correct: the handlers keep money, coupons, points and entitlements consistent;
execution gives a keyed command exactly one effect and one durable answer; a defect axis is seen
by its own invariants and no others; a gated refund is paid at most once and never claimed
without being paid; a run's outcome is backed by what is stored, whatever crashed, and a run
ends; the simulator predicts what the sandbox does wherever no defect is in play; a minimised
trace violates and no shorter one next to it does; a benchmark that says it is complete has
measured everything once; a follower of a run learns how it ended. `PROJECT.json` lists, line by line, what could go wrong and the properties aimed at it.

## 2. Modules

| Module | Models |
| --- | --- |
| `SandboxDomain` | tables and handlers; one pair `CanX` (every check) and `X` (every write) per command, and `DeleteState` for a reset |
| `SandboxOracle` | the Oracle's invariants on those tables and events, and the properties that relate the two |
| `CommerceSandbox` | `execute` and `reset_run` around the handlers |
| `GatedRefund` | agent, gateway, gate and network around `CommerceSandbox` |
| `RefundTicket` | what a gated ticket promises, without saying how |
| `AttackRun` | one attack run: store, workers, queue, API, clock |
| `RunStore` | what a runtime store promises of one run and its events (the in-memory store) |
| `EventStream` | the PostgreSQL store's transactions on them, and a client of the event stream; implements `RunStore` |
| `ReferenceSimulator` | the simulator: `transition` and `legal_actions` as functions of a state record |
| `CandidateReplay` | a strategy's path in `ReferenceSimulator` and in the sandbox of `SandboxOracle`, in step |
| `Minimization` | delta debugging of a trace by replays |
| `BenchmarkRun` | invocations of the search benchmark, its store, metrics and release gate |
| `PolicyVersions` | compile requests on a shared adapter, drafts, confirmations |
| `Sums_proofs` | what the sums of the community modules do when a row is added, changed or left alone; no model |
| `SandboxDomain_proofs` | theorems about the sandbox's tables and events, and what the Oracle reads in them |
| `GatedRefund_proofs` | theorems about the service around the tables, and the agent and gate around the service; extends `SandboxDomain_proofs` |
| `CandidatePath_proofs` | theorems about a path from the search to the reported trace: `CandidateReplay` and `Minimization`; extends `SandboxDomain_proofs` |
| `AttackRun_proofs`, `EventStream_proofs`, `PolicyVersions_proofs`, `BenchmarkRun_proofs` | theorems about the other components |
| `MC*` | definitions for the TLC runs |

### SandboxDomain

A row of a table is a record, a table is a sequence (`_next_id` numbers rows from 1). Money is
in cents, since `_quantize` keeps two decimals. The points ledger is kept as the two sums per
order and the one total that the code reads back from it. The run's scenario and defect axes
are chosen at the start and never change, as in `create_run`. A `DomainError` anywhere in a
handler rolls its savepoint back, so a command either passes all checks and does all writes, or
does nothing. That the savepoint does so is assumed of the database and not checked by any property
here; that is why the checks are one predicate, including the check `_revoke_points`
makes after other rows were written.

Left out: a second user or currency in a run (every check on them rejects), argument parsing and
the version columns nothing reads.

Definitions marked *mutant* next to a handler are wrong versions of it. No specification uses
them; they are there to show that the properties notice.

### CommerceSandbox

`execute` takes the handler's check and writes as parameters. Its three disjuncts are the three
ways through the code: the key has a receipt, the handler succeeds, the handler rejects. The run
row is locked for the whole transaction, so one step is one command.

### GatedRefund

One ticket. Every HTTP exchange is a step; the snapshots a check used are variables, so
everything may change between two of them. A whole snapshot is read table by table, as its
SELECTs run without the run's lock; `pre_check` only uses the orders, which are one SELECT. A write is put on the wire, executed when the
sandbox gets to it, and answered unless the answer is lost (always lost for refunds under
`REFUND_ACK_LOST`, after the commit, as `execute_action` does). An environment is a set of faults: failing reads, lost
requests or answers, broken connections, requests that outlive the client's timeout, other
clients. The model starts with the commands that set the ticket up (`RefundCaseExecutor._setup`).

### AttackRun

A worker's step is the code between two store transactions another process can come between;
where the code reads a row and then compare-and-sets it, both are one step when the other order
gives the same result. `wk[w].seen` is the status read on entry and never again. An action path
is its length: what an agent proposes, whether the simulator's Oracle fires and whether a replay
confirms are choices, except that the same path always gets the same verdict in a fresh sandbox.
ARQ is external: it delivers a job to a worker, again after a crash, and again while a worker
presumed lost goes on (`Lapse`); it drops a job whose id it still holds (`Enqueue`). When these happen
relative to the run's own clock is open. With the deployed settings some timings are excluded
(`job_timeout` and `keep_result` are longer than the 90 s a public run may ask for), but the worker is
also called again directly, as `tests/recovery` does.

### ReferenceSimulator and CandidateReplay

The simulator is a pure function in the code and here: `transition(state, action, key)` returns
the new state and a status, one operator per handler, with the checks in the order they are
made. `CandidateReplay` runs each proposal that `validate_action_proposal` admits on both sides
and compares the two worlds; the first step on which they part ends the path and is recorded
with what happened: only the simulator applied it, only the sandbox did, both did but ended in
different states, or the simulator raised. Both sides are deterministic, so doing this in step
is the same as simulating first and replaying later. The rules of a run and its defect axes are
chosen independently, as a rule version and a sandbox profile are.

A rule's amounts have four decimals (`MoneyAmount`), so they are numbers of hundredths of a cent.
Both sides round an action's amounts to cents (`money`, the `_money` of each), but the simulator
compares what is paid for a membership with the price as it stands in the rule, and divides by the
points rule's spend as it stands. A promotion rule also has a currency. `legal_actions` never puts
one into an offer, so the amounts of an action are in CNY on both sides, and the simulator refuses
the coupons of a USD promotion.

What a strategy proposes (`Proposals`) is open but for two things. It writes numbers as Python
prints them: `"05"` is five for the simulator and an error for the sandbox, whose `_positive_int`
wants the canonical form. And it leaves `actor_id` at the run's one user, which nothing in
`validate_action_proposal` forces it to. The theorems about paths are about these proposals.

### Minimization

One step is one replay or one turn of a loop. What a replay answers is open but remembered:
the same trace always gets the same answer, as a deterministic sandbox gives it. Nothing
else is assumed; in particular a longer trace may satisfy what a shorter one violates, because
deleting the creation of an order makes later aliases mean other orders.

### BenchmarkRun

The rows of `benchmark_run` and `benchmark_case_run`, and the invocations with what they hold in
memory (`collected`) and execute at the moment (`busy`). Executing a cell is a step that begins
and one that ends, with any outcome the metrics tell apart. An invocation can be killed, or
stopped by a leaking fact; two of them can be on the same run, because `--resume` takes any run
that is `RUNNING`.

### PolicyVersions

A compile request gives way to others only while it waits for the provider, so one step is one
provider call and what the code does up to the next. `pending` is the list all requests of a
process share. A confirmation is two steps, under the advisory lock: finding the number and
inserting the row.

### RunStore and EventStream

`RunStore` is `InMemoryRuntimeStore`'s contract, which the PostgreSQL store says it keeps: a
status change and its event are one. In `EventStream` a transaction is open from its INSERT,
which takes the cursor, to its commit, which makes the row visible; status changes wait for the
run's row and progress events wait for nothing. The log of `RunStore` is the events in the order
of their commits. The client reads batches, may lose its connection after any event of one, and
comes back with the id of the last it got.

## 3. Runs

| Run | Instance | Shows |
| --- | --- | --- |
| `sandbox_oracle` | every scenario and set of business axes; 2 orders, 1 coupon, 2 memberships; amounts 0, 1, 5 with a unit of 2 cents | 9 invariants and 2 action properties of the handlers and the Oracle |
| `commerce` | all scenarios, 2 keys, 5 receipts of which 1 rejected, 1 reset | exactly-once effects, unique keys, versions |
| `gated_refund` | gate on; 3 attempts; amounts 0, 1, 2 or all of an order of 1 or 3 cents; three environments without late commits | refines `RefundTicket`; budget; no false block |
| `any_network` | gate on and off; no faults or all of them | claims are backed, every ticket ends, a bare agent repeats |
| `late_commit` | gate on, 2 attempts, late commits | a second refund behind the gate (section 6) |
| `attack_run` | 1 worker, 2 strategies, 3 or 5 steps, 1 crash or lapse, 2 enqueues | outcomes, shares, charges, where a run comes to rest |
| `two_workers` | 2 workers, 1 strategy of 2 steps, 2 crashes or lapses | concurrent workers |
| `simulator` | every profile and 32 rule sets; paths of 6 proposals | where simulator and sandbox part, and why |
| `benchmark` | 2 invocations, 2 cases, 5 pairs of configurations, 1 kill | completeness, the gate, resuming |
| `minimize` | traces of up to 7 actions, every answer of the replays | minimality, cost, termination |
| `policy` | 3 texts, 4 specs, 3 attempts each, 2 confirmations | call records, version numbers |
| `events` | 2 workers, a cancellation, 4 events, 1 client | delivery, refinement of `RunStore` |

Why the bounds are enough. Handlers touch one order, one coupon, one membership; two of a kind
are needed for one to disturb another, and a coupon can go through two orders. With a unit of two
cents an order of 5 earns 2 points, and refunded cent by cent it loses a fraction of a point
each time, so rounding per refund and rounding of the sum differ. A key matters only as equal or different, so two keys (symmetric) reach replays,
cross-action use and reuse after a reset. Three attempts exceed the agent's default of two.
A total of 3 is too small for two strategies and 5 does not divide evenly. One crash suffices
for every state a redelivery can start from; the two-worker run allows a lapse and a crash.
Six proposals are a user, a coupon, an order, the coupon's use, the payment and a refund, the
longest chain of steps that need each other. Among the rules are a coupon of the order's whole
amount, a points rule no order reaches and one of a cent and a half, a promotion in USD, and prices
of two and a half cents and of less than half a cent. Seven actions make the chunks of the minimisation
uneven and let it refine twice and shorten in between. In the benchmark the second invocation
differs from the first in at most one thing, and one kill leaves every state a run can be resumed
from. Four events are the run's creation, its start, and two more that can overtake each other,
one of which can end the run.

Deadlock is checked in `sandbox_oracle`, where a reset is always possible. The other systems may
stop: receipts, events and steps are bounded, and a ticket, a run, a minimisation or a
confirmation is over at some point.

Fairness. `GatedRefund` assumes that the agent's coroutine keeps running (its timeouts fire) and
that the sandbox executes a request that reached it. `AttackRun` assumes that a worker that is
running runs and that ARQ delivers a job it owes. Nobody has to cancel, crash, retry or let time
pass. `BenchmarkRun` and `Minimization` assume that a process that is not killed goes on: executing
a cell is limited by its budget, a replay by the timeouts of its HTTP calls. These are weak
fairness of what a live process does by itself. `EventStream` has strong fairness for a batch
that reaches the client whole: its connection may drop any number of times, but not at every
single batch for ever; that a dropped client comes back is what the browser's `EventSource` does
(`frontend/src/api/sse.ts`).

## 4. Properties

*Handlers.* `RefundWithinPaid`, `CouponUsedOnce`, `PendingOrderHoldsItsCoupon`,
`PointsRevokedExactly`, `EntitlementsSound`, `OneActiveMembership` each
name the axes under which they may fail, and hold under all others. `BooksAgree` and
`MoneyConserved` hold under every axis: the defects move value to the wrong side but no handler
forgets to write one. `OracleAttribution` says which axes can make the Oracle report which
invariant; it is what `AXES_BY_SCENARIO` and the benchmark's labels take for granted.

*Execution.* `EffectIffReceipt` is exactly-once; `KeysUnique` says two unique constraints cannot
fire; `VersionCountsWrites` is what readers rely on.

*Gate.* `ImplementsTicket` (refinement), `GateHoldsBudget` even where the sandbox's own limit is
broken (it is about a ticket's own attempts: while other clients write, no check the gate makes
beforehand can hold), `NoFalseBlock`, and for both modes `ClaimBacked` and `EveryTicketReported`. `BareRepeats`
is the other side of the benchmark: the bare agent does pay repeatedly.

*Attack run.* `OutcomeBacked` (TLC with one worker; for two and more it is theorem
`OutcomesBacked`), `TerminalNeverOverwritten`, `BudgetSplit`, `ChargedSteps` (a crash
costs at most one step and a saved path is always paid for). `ComesToRest` says where a run may
stay for good: in a final status, in a cancellation nobody confirms any more, and in three places
from which the code has no way on.

*Event stream.* `ImplementsStore` (refinement): what other transactions can see of the PostgreSQL
store is the in-memory one. `StreamSound`: a client gets no event twice or out of order and misses
only events that were overtaken. `FinalEventDelivered`: the stream may stop on a final status
before it has sent that change, and the client still gets it.

*Simulator.* `PredictionsAccepted` and `DivergenceExplained` go through the four ways two worlds
can part, action by action, and name the only causes there are for the proposals modelled. What
they do not name cannot happen there: with no defect axis and rules the sandbox implements, with
amounts in CNY and whole cents, the two agree on every step except payments of free orders, second
memberships and the refunds of section 6. `RulesKept` is what the
rules themselves promise of the simulated world.

*Minimisation.* `ResultSound`: the result was replayed and violates, everything one action shorter
was replayed and does not, with at most (n(n+5))/2 + 1 replays. `MinimizationEnds`.

*Benchmark.* `CompletedIsWhole`, `GateSound` and `FinishedFrozen` say what survives kills and
races; each carries the condition `SameConfiguration`, without which it fails (section 6).
`RunFinishes`: a resumed run gets completed, and of two that race one gets through.

*Rule versions.* `CallsAccountedOnce`: requests may carry each other's calls, but none is lost or
charged twice. `VersionsSound`: numbers without gaps, one per content, no constraint error.

## 5. Proofs

For every value of the constants, from the assumptions named in the modules: arguments are natural
numbers, a unit is positive, runs are created with axes of their scenario; there is at least one
attempt per ticket and one key for each; at least one strategy and positive budgets; the API is
not one of the workers; what sets of texts, specs, cases and setups a model is given lies within
the types; the mark for an absent rule is not itself a rule, and the amounts `legal_actions` opens
with are natural numbers. Each invariant below is preserved by every action; the modules have one lemma per
action or per kind of write.

**The tables (`SandboxDomain_proofs`).** `TypeOK` is inductive by itself because amounts that
could go below zero are subtracted only behind a check: the handler lemmas show where each check
is needed. Then, given the types:

* `OrdersInv` = `RefundWithinPaid`, `CouponUsedOnce` and `CouponLinks`. The last is the
  strengthening: an order's coupon exists, is reserved for it while it is pending and is spent by
  it once paid. Without it, nothing prevents a paid order's coupon from being some other order's
  reserved one. It gives `RefundsBounded`, `CouponsSpentOnce`, `CouponsHeld`;
  `TerminalOrdersFrozen` is an action property.
* `PointsInv` adds `PointsLinks`: an unpaid order, and any order of a run without points, has
  nothing in the ledger, so its first grant or revocation starts from zero. The one arithmetic
  fact behind `PointsRevokedOnce` is `TargetMonotone`: rounding down is monotone, so the steps of
  a split refund add up to the one rounding of the total.
* `MembershipInv` adds `EntitlementLinks`: entitlement and membership rows come in pairs, and the
  status of each tells what is left of the other. `OneMembershipActive` and `EntitlementsAreSound`
  follow.
* `TablesInvariant` is all of it.
* `MoneyIsConserved` is an action property on the same types: each handler's change to the balance
  is set against its change to the one row it writes.
* `BooksInv`, for `BooksAlwaysAgree`: the totals of refund rows and events agree with the row of
  every order *number*, used or not, since a new order must find nothing booked under its number;
  and without a user there are neither points nor orders, so that `create_user` starts from an
  empty ledger. Every command is described by what its events add to each total.
* `EvidenceInv`, for `OracleIsAttributable`: a coupon's usage is the number of its `COUPON_USED`
  events, a consumed entitlement shows in its row, points are those of the amount paid. With it
  and the invariants above, each of the Oracle's findings contradicts a property that holds unless
  the run carries an axis named for that finding.

**Sums (`Sums_proofs`).** `SumFunction` and `SumFunctionOnSet` of the community modules are folds,
and a fold's value is fixed only by an induction on the size of the set. The library's induction
theorems cannot be instantiated by the provers, so `Sums_proofs` argues by least counterexample
(`WFMin` on the natural numbers): the recursion in the fold's definition has a solution, solutions
agree, and any element can be taken out of a sum (`SumWithout`), not only the one that `CHOOSE`
picks. The rest follows: adding, changing or leaving rows alone, sums of equal functions, signs.

**Command execution (`GatedRefund_proofs`).** `ServiceImplementsTables` shows that every step
of the service is a step of the tables or leaves them alone, so the theorems above hold of it.
`ServiceInv` relates the receipts of the current epoch to the refund rows, the event log and the
version: a refund row is there under a key exactly when the refund succeeded under it, and a write
has an event under a key, and then one, exactly when it succeeded. No receipt is of a later epoch,
which is what makes a reset start from none. `KeysAreUnique`, `ExactlyOnce` and `VersionIsExact`
follow.

**The refund ticket (`GatedRefund_proofs`).** On top of the tables and the service:

* `TicketInv`: what is on the wire, what the agent has heard and what the receipts say agree for
  each attempt, and an attempt not yet made has no trace. No assumption on faults; it gives
  `ClaimsAreBacked`.
* `PromptInv`: behind the gate and without late commits the agent never goes to the next attempt
  while an earlier one may still pay. `NoDuplicates` and the refinement `GateImplementsTicket`
  assume what their statements say, that no environment contains `LATE` (and, for the refinement,
  that the gate is on). Run `late_commit` is the counterexample without that assumption.
* `BudgetInv`: without other clients and late commits a request on the wire, or one about to be
  sent, is still within what `pre_check` saw. Gives `BudgetHolds`.
* `SettledInv`: without faults, gate or not, an attempt is followed by another only after its
  receipt is there. `BareInv` builds on it: each finished attempt of the bare agent paid, one
  refund row each (`BareAgentRepeats`). `WatchedInv` builds on it too: the tables read so far are
  those of the snapshot in force, `before` differs from it exactly when the attempt has succeeded.
  Gives `NothingBlockedFalsely`, over snapshots read table by table.

**Attack runs (`AttackRun_proofs`).** `TypeOK` is not inductive: that `strategies_left` stays a
natural number needs `WorkersOK`, which ties it to the strategy the loop is at. For
`OutcomesBacked` the strengthening is `StoredFirst`: a worker about to complete the run has stored
a counterexample, and counterexamples are never deleted. `TerminalsKept` follows from the
compare-and-sets alone. About budgets:

* `SharesOK`: no strategy's usage exceeds its share, and neither does the count a worker at that
  strategy carries in its variables. The second half is what makes it inductive: a stale worker
  writes that count back over whatever another has written. Any number of workers.
* `DeliveryInv`: until a crash or a second delivery at most one worker is not idle, and at each
  point of its loop (`SplitOK`) the strategies before its own have used what it counted, its own
  has the part of the rest that `_remaining_budget` gave it, and the later ones have no rows. That
  the rest stays viable is arithmetic on that division. With `SharesOK` it gives `BudgetsSplit`,
  for any number of strategies and any budget.
* `LedgerOK(w)`: the worker's own counts of steps and of its path are the store's, and a worker
  about to save has one step charged that is not saved. `StepsCharged` assumes
  `Workers = {w}`. That is weaker than the other theorems and cannot be avoided: with two workers
  `update_strategy` (`postgres_store.py:473`) lowers a usage that another worker has charged, and a
  saved path gets longer than its charge. The hazard list has it; `SharesInvariant` is what remains
  true then.

**Store and stream (`EventStream_proofs`).** `StoreInv`: open transactions hold distinct cursors
not in the log, at most one holds the run's row, the committed status changes are a path to the
current status. It gives the refinement `TransactionsImplementStore`. `ClientInv`: what a client
has is increasing up to its cursor and misses only overtaken events. That the query's answer
exists, an increasing listing of a finite set, is an induction (`ListingExists`). The library's
induction theorems cannot be instantiated, so it is done by a least counterexample (`WFMin` and
`NatLessThanWellFounded`). It gives `StreamIsSound`.

**Rule versions (`PolicyVersions_proofs`).** `CompileInv`: the calls a policy's request has made
are 1 to n without gaps, and each is either pending once or in one draft, never both.
`VersionInv`: who is past the lock of a policy has the number after its last version, and versions
were confirmed from drafts that passed the checks. They give `CallsAreAccountedOnce` and
`VersionsAreSound`.

**Benchmark (`BenchmarkRun_proofs`).** `BenchInv`: facts of a run are of distinct cells, what an
invocation has `collected` is durable, and a finished run's `raw_runs` are facts that cover what
its finisher asked for. They give `CompletedRunsWhole`, `FinishedRunsFrozen` and `GateIsSound`.

**Simulator and sandbox (`CandidatePath_proofs`).** For every rule specification, profile and
sequence of the proposals modelled (section 2):

* `SimInv`, of the simulated world alone: its types; an order's refunds, discount and the points
  taken back are what the rules make of them; a coupon is held by its order until that order is
  refunded in full; one membership with one entitlement at most. One lemma per handler. It gives
  `SimulatorKeepsRules`.
* `Paired`, of the two worlds as long as they agree. `SameState` is not inductive: it says nothing of
  the columns it does not compare, on which later answers depend. `Paired` adds a coupon's face and
  threshold and the order it is reserved for, what a membership cost and an entitlement granted,
  that a spent or revoked entitlement has nothing left, and that without memberships the user is
  inactive.
* Each handler is compared with its counterpart (`Compared`): where one side accepts and the other
  does not, the exception is one that the property lists (`Replies`), and where both accept, the
  worlds stay paired unless a listed rule or axis makes them differ (`Effects`). For refunds this
  needs `TargetMonotone` again, for activations and cancellations that
  `validate_action_proposal` leaves their arguments no freedom. That rounding can only miss a price
  that is no whole number of cents is `MoneyExact`.
* `ReplayInv` adds that the keys a simulated state has seen are those of earlier steps, so that
  `transition` never answers from its keys. `PredictionsAreAccepted` and
  `DivergencesAreExplained` follow.

**Minimisation (`CandidatePath_proofs`).** `MinInv` says for each phase what has been refuted and
what may still be spent. In a round of the chunk loop, the replays made since it began are paid
for by `Left`, a bound on what is left from the start of a round: a deletion pays for its round by
the shorter trace (`AfterDeletion`), a round without one by the finer chunks (`AfterRefinement`).
The loop ends with chunks of one action, all refuted, which is why the later passes find nothing
and one_minimal is always true. Gives `ResultIsSound` with the bound of n(n+5)/2 + 1 replays for
every n.

Only model-checked, and why: liveness (`EveryTicketReported`, `ComesToRest`, `RunFinishes`,
`MinimizationEnds`, `FinalEventDelivered`), since fairness and ENABLED are out of the prover's
reach. Every invariant, action property and refinement of the passing runs is proved; two of the
theorems have hypotheses that their runs' bounds make true, as said above (`StepsCharged`: one
worker; `GateImplementsTicket`: a gate and no late commits).

## 6. Where code and documentation disagree

With a run of its own:

* `late_commit`: the gate prevents a second refund only if the first request has committed, or
  never will, by the time its receipt is looked up (`gateway.py:406`).

Seen while modelling, and stated as the exceptions the properties carry:

* A cancellation that arrives after the worker's last look stays `CANCEL_REQUESTED`
  (`worker.py:475`-`488` ignore the result of the compare-and-set). The runtime's report says the
  worker confirms at safe points. `ComesToRest` allows it.
* A run interrupted in `REPLAYING` past its time budget, or in `RECOVERING`, stays there
  (`worker.py:305`, `324`). `ComesToRest` names both.
* A run that failed after storing a counterexample can, when run again, end
  `UNCONFIRMED_CANDIDATE`, though the requirements reserve that for candidates the real API does
  not reproduce. `OutcomeBacked` states the other direction only.
* After a crash the strategies of a run can together use more steps than the run has, and with
  two workers the charged usage can fall. `BudgetSplit` states the sum for one uninterrupted
  delivery.
* The simulator refuses every coupon it is offered under a promotion in USD
  (`simulator.py:252`-`258`), because an offer names no currency and is read as CNY. The sandbox
  reads it as CNY too (`service.py:1233`) and issues the coupon (`DivergenceExplained`, the case
  `issue_coupon`).
* A membership whose price is no whole number of cents cannot be activated in the simulator: what
  is paid has been rounded, the price it is compared with has not (`simulator.py:485`-`491`). The
  sandbox knows no rule, rounds and accepts (`service.py:667`-`674`; `DivergenceExplained`, the case
  `activate_membership`). In the same way a spend of a fraction of a cent earns other points than
  the sandbox's (the state compared after `pay_order`).
* The simulator is not a strict subset of the sandbox
  (`docs/review/06-current-state-review.md:136`): it pays an order that a coupon made free, which
  the sandbox refuses (`PredictionsAccepted`), and its rules can allow what the sandbox has no
  notion of.
* `simulator.py:435` reads `target_revoke`, which line 410 only assigns for an order with points:
  refunding an order that earned none, under a rule that revokes points, raises
  `UnboundLocalError` (`DivergenceExplained`, the case `CRASHED`).
* A reader that has seen a later cursor never gets an event that was inserted before it and
  committed after it, so a reconnecting client cannot always make up for what it missed
  (`docs/exec/03-agent-runtime-exec.md:77`). `StreamSound` allows exactly these.
* `_pending_calls` is shared by all compile requests of a process, so the audit "for one logical
  request" (`compiler.py:467`) can hold another request's calls. `CallsAccountedOnce` states what
  remains true.
* `--resume` finds a run by versions, baseline and suite only. With another seed or other
  repetitions it mixes measurements, and can finalise a run that lacks cells or has facts its
  metrics do not know. Two invocations with a concurrency above one can stop each other.
* An `Idempotency-Key` used again with another rule version returns the old run and enqueues it
  with the new rule (`api.py:246`).

## 7. Plan

Done: sandbox handlers and Oracle, command execution, the gated refund and its abstract
specification, the attack run, its store and event stream, the simulator and its comparison with
the sandbox, minimisation, the search benchmark with its gate, the compiler and rule versions;
the theorems of section 5.

Modelling left: the Oracle's checks over several snapshots and receipts; the refund benchmark's scoring and its release gate.

## 8. Not modelled

* Prompt construction, LLM transport, parsing of text and of answers: what comes out of them is an
  open choice where it matters.
* Baselines, case generation and manifests of the evaluation: glue around modelled parts and
  generators of data files. Confidence intervals, pass@k and usage summaries are numbers nothing
  decides on.
* The order and the budget of the simulator's own search: which legal path it takes is open.
* Traces and logs, table definitions other than the constraints operations depend on, the
  frontend, scripts: they keep no state whose order of change matters. ARQ's job timeout: nothing
  in the code reacts to it. The API's rate limiter: a counter per client in one process.
