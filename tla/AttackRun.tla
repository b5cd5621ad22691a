----------------------------- MODULE AttackRun -----------------------------
(***************************************************************************)
(* One attack run: its row and its strategies' rows in the runtime store   *)
(* (packages/attack_runtime/.../workflow.py, postgres_store.py), the       *)
(* workers that execute it (AttackWorker.run and _search_strategy,         *)
(* worker.py), the API that cancels it and the ARQ queue that delivers it. *)
(*                                                                         *)
(* A worker's step is the code between two store transactions that another *)
(* process may come between; a usage row written again with the value it   *)
(* has goes with the step before.  An action path is its length; what an   *)
(* agent proposes, whether the simulator's oracle fires and whether a      *)
(* replay confirms are open.  Candidate keys embed the strategy's id       *)
(* (through the actions' idempotency keys), so two strategies never share  *)
(* one and the set of replayed keys excludes nothing.  Token, cost and     *)
(* per-strategy time limits, illegal proposals and unparsable output all   *)
(* just end a strategy's search.  Strategy status, diagnostics and traces  *)
(* steer nothing and are left out.                                         *)
(***************************************************************************)
EXTENDS Integers, FiniteSets, FiniteSetsExt

CONSTANTS Workers,      \* worker processes
          n,            \* number of strategies, in StrategyType order
          Totals,       \* step budgets a run may be created with
          MaxCrashes,   \* bound on crashes and lapses; below ARQ's max_tries all are redelivered
          MaxEnqueues   \* bound on POST /runs under the run's idempotency key

ASSUME StrategiesAssumption == n \in Nat \ {0}
ASSUME TotalsAssumption == Totals \subseteq Nat \ {0}
ASSUME BoundsAssumption == MaxCrashes \in Nat /\ MaxEnqueues \in Nat

MIN_VIABLE_STRATEGY_STEPS == 2
Strategies == 1 .. n

VARIABLES status, outcome,   \* the attack_run row
          total,             \* run.budget.max_steps
          strat,             \* strategy_run rows: created or not, budget, steps used
          ckpt,              \* checkpoint rows; version 0 stands for none
          counterexamples,   \* counterexample rows: the candidate each belongs to
          proven, refuted,   \* what the sandbox and its Oracle said of the candidates replayed
          expired,           \* the run's wall-clock budget is over
          queued,            \* deliveries of the job ARQ still owes
          enqueues, crashes, \* how often the job was enqueued, and a worker died or seemed to
          wk                 \* the workers' local variables

storeVars == <<status, outcome, total, strat, ckpt, counterexamples>>
verdictVars == <<proven, refuted>>
queueVars == <<expired, queued, enqueues, crashes>>
otherVars == <<verdictVars, queueVars>>
vars == <<storeVars, verdictVars, queueVars, wk>>

AttackStatus == {"READY", "SEARCHING", "REPLAYING", "RECOVERING", "CANCEL_REQUESTED",
                 "CANCELLED", "FAILED", "COMPLETED"}
AttackOutcome == {"NONE", "CONFIRMED_VIOLATION", "UNCONFIRMED_CANDIDATE",
                  "NO_VIOLATION_WITHIN_BUDGET", "INFRA_FAILED", "CANCELLED"}
Running == {"SEARCHING", "REPLAYING"}

PCs == {"idle", "begin", "recover", "resume", "loop", "pick", "search", "save", "mark",
        "marking", "after", "prep", "replay", "persist", "complete", "finish", "fail"}

Worker == [pc : PCs,
           seen : AttackStatus,   \* run.status as read on entry, never refreshed
           s : 1 .. n + 1,        \* the strategy of the loop
           used : Nat,            \* steps of the strategies already done with
           left : Nat,            \* strategies_left
           unconf : BOOLEAN,      \* saw_unconfirmed
           steps : Nat,           \* the strategy's usage, as last read or written here
           len : Nat, ver : Nat,  \* actions and checkpoint_version of _search_strategy
           found : BOOLEAN]       \* candidate is not None

Idle == [pc |-> "idle", seen |-> "READY", s |-> 1, used |-> 0, left |-> n, unconf |-> FALSE,
         steps |-> 0, len |-> 0, ver |-> 0, found |-> FALSE]

Init ==
  /\ status = "READY" /\ outcome = "NONE"
  /\ total \in Totals
  /\ strat = [s \in Strategies |-> [exists |-> FALSE, budget |-> 0, used |-> 0]]
  /\ ckpt = [s \in Strategies |-> [version |-> 0, len |-> 0, cand |-> FALSE]]
  /\ counterexamples = {}
  /\ proven = {} /\ refuted = {}
  /\ expired = FALSE
  /\ queued = 1 /\ enqueues = 1 /\ crashes = 0
  /\ wk = [w \in Workers |-> Idle]

-----------------------------------------------------------------------------
(* The store *)

\* mutants: the status goes to the outcome column too; a plain UPDATE
cas_mixed_up(expected, target, out) ==
  IF status = expected THEN status' = target /\ outcome' = target
  ELSE UNCHANGED <<status, outcome>>
set(expected, target, out) == status' = target /\ outcome' = out

\* compare_and_set_status; out is "NONE" unless the target is terminal
cas(expected, target, out) ==
  IF status = expected THEN status' = target /\ outcome' = out
  ELSE UNCHANGED <<status, outcome>>

\* ensure_strategy for the strategies in S: the first caller fixes the budget
ensure_strategy(S, budget) ==
  strat' = [s \in Strategies |->
              IF s \in S /\ ~strat[s].exists
              THEN [exists |-> TRUE, budget |-> budget, used |-> 0] ELSE strat[s]]

usage_forgotten(s, steps) == UNCHANGED strat   \* mutant: usage is kept in memory only

\* update_strategy writes the caller's copy of the row back, whatever is there by now
update_strategy(s, steps) == strat' = [strat EXCEPT ![s] = [strat[s] EXCEPT !.used = steps]]

\* save_checkpoint with the version that was expected
save_checkpoint(s, expected, row) ==
  /\ ckpt[s].version = expected
  /\ ckpt' = [ckpt EXCEPT ![s] = row]

\* _remaining_budget: the unspent steps must suffice for every strategy still to search
Viable(used, parts) == total - used >= MIN_VIABLE_STRATEGY_STEPS * parts
whole_budget(used, parts) == total   \* mutant: every strategy gets the run's budget
remaining_budget(used, parts) == (total - used) \div parts

-----------------------------------------------------------------------------
(* AttackWorker.run *)

At(w, where) == wk[w].pc = where
Move(w, next) == wk' = [wk EXCEPT ![w] = [wk[w] EXCEPT !.pc = next]]
Return(w) == wk' = [wk EXCEPT ![w] = Idle]

Begin(w) ==
  /\ At(w, "begin")
  /\ \/ /\ \/ wk[w].seen \in {"COMPLETED", "CANCELLED", "RECOVERING"}
           \/ wk[w].seen = "READY" /\ ~Viable(0, n)   \* raises while still READY
        /\ Return(w) /\ UNCHANGED <<status, outcome>>
     \/ /\ wk[w].seen = "CANCEL_REQUESTED"
        /\ cas("CANCEL_REQUESTED", "CANCELLED", "CANCELLED") /\ Return(w)
     \/ /\ wk[w].seen = "READY" /\ Viable(0, n)
        /\ cas("READY", "SEARCHING", "NONE")
        /\ IF status = "READY" THEN Move(w, "resume") ELSE Return(w)
     \/ /\ wk[w].seen = "FAILED"
        /\ cas("FAILED", "RECOVERING", "NONE")
        /\ IF status = "FAILED" THEN Move(w, "recover") ELSE Return(w)
     \/ /\ wk[w].seen \in Running
        /\ Move(w, "resume") /\ UNCHANGED <<status, outcome>>
  /\ UNCHANGED <<total, strat, ckpt, counterexamples, otherVars>>

\* _recovery_target, which creates the strategies up to the first one with a candidate
Recover(w) ==
  LET withCandidate == {s \in Strategies : ckpt[s].cand}
      visited       == {s \in Strategies : \A c \in withCandidate : s <= c}
  IN
  /\ At(w, "recover")
  /\ ensure_strategy(visited, remaining_budget(0, n))
  /\ cas("RECOVERING", IF withCandidate # {} THEN "REPLAYING" ELSE "SEARCHING", "NONE")
  /\ IF status = "RECOVERING" THEN Move(w, "resume") ELSE Return(w)
  /\ UNCHANGED <<total, ckpt, counterexamples, otherVars>>

\* A crash between storing a counterexample and completing is made good here.
Resume(w) ==
  /\ At(w, "resume")
  /\ \/ /\ wk[w].seen = "REPLAYING" /\ counterexamples # {}
        /\ cas("REPLAYING", "COMPLETED", "CONFIRMED_VIOLATION") /\ Return(w)
     \/ /\ ~(wk[w].seen = "REPLAYING" /\ counterexamples # {})
        /\ Move(w, "loop") /\ UNCHANGED <<status, outcome>>
  /\ UNCHANGED <<total, strat, ckpt, counterexamples, otherVars>>

ConfirmCancel(w) ==
  /\ status = "CANCEL_REQUESTED"
  /\ cas("CANCEL_REQUESTED", "CANCELLED", "CANCELLED")
  /\ Return(w)

\* The head of the loop over the strategies.
Loop(w) ==
  LET s == wk[w].s IN
  /\ At(w, "loop")
  /\ \/ /\ s > n \/ expired
        /\ Move(w, "finish") /\ UNCHANGED <<status, outcome, strat>>
     \/ /\ s <= n /\ ~expired
        /\ ConfirmCancel(w) /\ UNCHANGED strat
     \/ /\ s <= n /\ ~expired /\ status # "CANCEL_REQUESTED"
        /\ IF Viable(wk[w].used, wk[w].left)
           THEN /\ ensure_strategy({s}, remaining_budget(wk[w].used, wk[w].left))
                /\ wk' = [wk EXCEPT ![w] = [wk[w] EXCEPT !.steps = strat[s].used, !.pc = "pick"]]
           ELSE Move(w, "fail") /\ UNCHANGED strat
        /\ UNCHANGED <<status, outcome>>
  /\ UNCHANGED <<total, ckpt, counterexamples, otherVars>>

\* Replay the strategy's durable candidate, or search from its checkpoint.
Pick(w) ==
  LET s == wk[w].s
      pending == status = "REPLAYING" /\ ckpt[s].cand
  IN
  /\ At(w, "pick")
  /\ wk' = [wk EXCEPT ![w] = [wk[w] EXCEPT !.len = ckpt[s].len, !.ver = ckpt[s].version,
                                           !.found = pending,
                                           !.pc = IF pending THEN "after" ELSE "search"]]
  /\ IF pending THEN UNCHANGED strat ELSE update_strategy(s, wk[w].steps)
  /\ UNCHANGED <<status, outcome, total, ckpt, counterexamples, otherVars>>

-----------------------------------------------------------------------------
(* _search_strategy *)

\* The checks an iteration begins with: the strategy's budget, then cancellation.
GoesOn(w) == wk[w].steps < strat[wk[w].s].budget /\ status # "CANCEL_REQUESTED"

\* One iteration up to the store transaction that records it.
Search(w) ==
  LET s == wk[w].s IN
  /\ At(w, "search")
  /\ \/ \* budget, cancellation, no legal action, STOP without candidate, model gives up
        Move(w, "after") /\ update_strategy(s, wk[w].steps)
     \/ \* the model cannot be reached
        GoesOn(w) /\ Move(w, "fail") /\ UNCHANGED strat
     \/ \* STOP naming a candidate
        GoesOn(w) /\ wk[w].len > 0 /\ Move(w, "mark") /\ UNCHANGED strat
     \/ \* ACTION: the step is charged before the path is checkpointed
        /\ GoesOn(w)
        /\ update_strategy(s, wk[w].steps + 1)
        /\ wk' = [wk EXCEPT ![w] = [wk[w] EXCEPT !.steps = wk[w].steps + 1, !.pc = "save"]]
  /\ UNCHANGED <<status, outcome, total, ckpt, counterexamples, otherVars>>

\* The path so far; a candidate mark of the old checkpoint goes with it.  The simulator's
\* oracle then says whether the path is a candidate.
Save(w) ==
  LET s == wk[w].s IN
  /\ At(w, "save")
  /\ \/ /\ save_checkpoint(s, wk[w].ver, [version |-> wk[w].ver + 1, len |-> wk[w].len + 1,
                                          cand |-> FALSE])
        /\ \E next \in {"search", "mark"} :
             wk' = [wk EXCEPT ![w] = [wk[w] EXCEPT !.len = wk[w].len + 1,
                                                   !.ver = wk[w].ver + 1, !.pc = next]]
     \/ /\ ckpt[s].version # wk[w].ver   \* "stale checkpoint version"
        /\ Move(w, "fail") /\ UNCHANGED ckpt
  /\ UNCHANGED <<status, outcome, total, strat, counterexamples, otherVars>>

\* The checkpoint is loaded and stored again with its candidate_invariant.
LoadMark(w) ==
  /\ At(w, "mark")
  /\ wk' = [wk EXCEPT ![w] = [wk[w] EXCEPT !.ver = ckpt[wk[w].s].version, !.pc = "marking"]]
  /\ UNCHANGED <<storeVars, otherVars>>

Mark(w) ==
  LET s == wk[w].s IN
  /\ At(w, "marking")
  /\ \/ /\ save_checkpoint(s, wk[w].ver, [version |-> wk[w].ver + 1, len |-> ckpt[s].len,
                                          cand |-> TRUE])
        /\ update_strategy(s, wk[w].steps)
        /\ wk' = [wk EXCEPT ![w] = [wk[w] EXCEPT !.found = TRUE, !.pc = "after"]]
     \/ /\ ckpt[s].version # wk[w].ver
        /\ Move(w, "fail") /\ UNCHANGED <<ckpt, strat>>
  /\ UNCHANGED <<status, outcome, total, counterexamples, otherVars>>

-----------------------------------------------------------------------------
(* The rest of the loop: replay what was found *)

NextStrategy(w, unconfirmed) ==
  wk' = [wk EXCEPT ![w] = [wk[w] EXCEPT !.s = wk[w].s + 1, !.unconf = unconfirmed,
                                        !.found = FALSE, !.pc = "loop"]]

After(w) ==
  LET spent == [wk[w] EXCEPT !.used = wk[w].used + strat[wk[w].s].used, !.left = wk[w].left - 1]
  IN
  /\ At(w, "after")
  /\ wk' = [wk EXCEPT ![w] = IF wk[w].found
                             THEN [spent EXCEPT !.pc = "prep"]
                             ELSE [spent EXCEPT !.pc = "loop", !.s = wk[w].s + 1]]
  /\ UNCHANGED <<storeVars, otherVars>>

Prep(w) ==
  /\ At(w, "prep")
  /\ \/ ConfirmCancel(w)
     \/ /\ status # "CANCEL_REQUESTED"
        /\ cas("SEARCHING", "REPLAYING", "NONE")
        /\ Move(w, "replay")
  /\ UNCHANGED <<total, strat, ckpt, counterexamples, otherVars>>

\* A strategy's checkpointed path only grows, so its length names the candidate.
candidate_key(w) == <<wk[w].s, wk[w].len>>

\* Against a fresh sandbox run the same path always gets the same verdict; the replay itself
\* may fail.
Replay(w) ==
  /\ At(w, "replay")
  /\ \/ /\ candidate_key(w) \notin refuted
        /\ proven' = proven \cup {candidate_key(w)}
        /\ Move(w, "persist") /\ UNCHANGED <<status, outcome, refuted>>
     \/ /\ candidate_key(w) \notin proven
        /\ refuted' = refuted \cup {candidate_key(w)}
        /\ cas("REPLAYING", "SEARCHING", "NONE")
        /\ NextStrategy(w, TRUE) /\ UNCHANGED proven
     \/ Move(w, "fail") /\ UNCHANGED <<status, outcome, verdictVars>>
  /\ UNCHANGED <<total, strat, ckpt, counterexamples, queueVars>>

PersistLater(w) ==   \* mutant: the run completes before the counterexample is stored
  /\ At(w, "persist")
  /\ Move(w, "complete")
  /\ UNCHANGED <<storeVars, otherVars>>

\* save_counterexample for each violated invariant; minimising any of them may raise
Persist(w) ==
  /\ At(w, "persist")
  /\ \/ /\ counterexamples' = counterexamples \cup {candidate_key(w)}
        /\ \E next \in {"complete", "fail"} : Move(w, next)
     \/ Move(w, "fail") /\ UNCHANGED counterexamples
  /\ UNCHANGED <<status, outcome, total, strat, ckpt, otherVars>>

Complete(w) ==
  /\ At(w, "complete")
  /\ cas("REPLAYING", "COMPLETED", "CONFIRMED_VIOLATION")
  /\ Return(w)
  /\ UNCHANGED <<total, strat, ckpt, counterexamples, otherVars>>

FinishReplaying(w) ==   \* mutant: expects the wrong status
  /\ At(w, "finish")
  /\ cas("REPLAYING", "COMPLETED", "NO_VIOLATION_WITHIN_BUDGET")
  /\ Return(w)
  /\ UNCHANGED <<total, strat, ckpt, counterexamples, otherVars>>

Finish(w) ==
  /\ At(w, "finish")
  /\ cas("SEARCHING", "COMPLETED",
         IF wk[w].unconf THEN "UNCONFIRMED_CANDIDATE" ELSE "NO_VIOLATION_WITHIN_BUDGET")
  /\ Return(w)
  /\ UNCHANGED <<total, strat, ckpt, counterexamples, otherVars>>

\* except Exception: the job fails, and ARQ does not retry it
Fail(w) ==
  /\ At(w, "fail")
  /\ IF status \in Running THEN cas(status, "FAILED", "INFRA_FAILED")
     ELSE UNCHANGED <<status, outcome>>
  /\ Return(w)
  /\ UNCHANGED <<total, strat, ckpt, counterexamples, otherVars>>

-----------------------------------------------------------------------------
(* The queue, the API and the clock *)

\* execute_attack: run() reads the run's row
Deliver(w) ==
  /\ At(w, "idle") /\ queued > 0
  /\ queued' = queued - 1
  /\ wk' = [wk EXCEPT ![w] = [Idle EXCEPT !.pc = "begin", !.seen = status]]
  /\ UNCHANGED <<storeVars, verdictVars, expired, enqueues, crashes>>

\* The process dies; ARQ delivers the job again.
Crash(w) ==
  /\ wk[w].pc # "idle" /\ crashes < MaxCrashes
  /\ Return(w)
  /\ crashes' = crashes + 1 /\ queued' = queued + 1
  /\ UNCHANGED <<storeVars, verdictVars, expired, enqueues>>

\* ARQ's in-progress mark, which is set once for job_timeout, runs out under a worker that is
\* still at work: the store's calls block the event loop that would have to cancel the job.
Lapse(w) ==
  /\ wk[w].pc # "idle" /\ crashes < MaxCrashes
  /\ crashes' = crashes + 1 /\ queued' = queued + 1
  /\ UNCHANGED <<storeVars, verdictVars, expired, enqueues, wk>>

\* POST /runs again: create_run finds the run, and the job is enqueued once more.  ARQ drops a
\* job whose id is queued or at work, or whose result it still keeps.  How much of the run's
\* own time is left by then is open, here as for Crash and Lapse.
Enqueue ==
  /\ enqueues < MaxEnqueues
  /\ queued = 0 /\ \A w \in Workers : At(w, "idle")
  /\ enqueues' = enqueues + 1 /\ queued' = queued + 1
  /\ UNCHANGED <<storeVars, verdictVars, expired, crashes, wk>>

request_cancel ==
  /\ status \in {"READY", "SEARCHING", "REPLAYING"}
  /\ cas(status, "CANCEL_REQUESTED", "NONE")
  /\ UNCHANGED <<total, strat, ckpt, counterexamples, otherVars, wk>>

Expire ==
  /\ ~expired /\ expired' = TRUE
  /\ UNCHANGED <<storeVars, verdictVars, queued, enqueues, crashes, wk>>

Step(w) ==
  \/ Begin(w) \/ Recover(w) \/ Resume(w) \/ Loop(w) \/ Pick(w)
  \/ Search(w) \/ Save(w) \/ LoadMark(w) \/ Mark(w)
  \/ After(w) \/ Prep(w) \/ Replay(w) \/ Persist(w) \/ Complete(w) \/ Finish(w) \/ Fail(w)

Next ==
  \/ \E w \in Workers : Deliver(w) \/ Step(w) \/ Crash(w) \/ Lapse(w)
  \/ Enqueue \/ request_cancel \/ Expire

\* Running workers run, and ARQ delivers what it owes.  Nobody has to cancel, crash or retry.
Fairness == \A w \in Workers : WF_vars(Step(w)) /\ WF_vars(Deliver(w))

Spec == Init /\ [][Next]_vars /\ Fairness

-----------------------------------------------------------------------------
(* Properties *)

\* Types of the store's rows and of the workers' local variables.
TypeOK ==
  /\ status \in AttackStatus /\ outcome \in AttackOutcome
  /\ total \in Nat
  /\ strat \in [Strategies -> [exists : BOOLEAN, budget : Nat, used : Nat]]
  /\ ckpt \in [Strategies -> [version : Nat, len : Nat, cand : BOOLEAN]]
  /\ \A keys \in {counterexamples, proven, refuted} : keys \subseteq Strategies \X Nat
  /\ expired \in BOOLEAN
  /\ queued \in Nat /\ enqueues \in Nat /\ crashes \in Nat
  /\ wk \in [Workers -> Worker]

\* "confirmed only comes from the replay's oracle": a run reports CONFIRMED_VIOLATION only with
\* a counterexample in the store, and an outcome is there exactly in a terminal status,
\* whatever crashed, was redelivered or ran twice.
OutcomeBacked ==
  /\ outcome = "CONFIRMED_VIOLATION" => counterexamples # {}
  /\ (outcome # "NONE") <=> (status \in {"COMPLETED", "CANCELLED", "FAILED"})
  /\ (outcome = "CANCELLED") <=> (status = "CANCELLED")

\* "an old worker's CAS cannot overwrite a terminal state"
TerminalNeverOverwritten ==
  [][(status \in {"COMPLETED", "CANCELLED"}) => UNCHANGED <<status, outcome>>]_vars

StepsUsed == SumFunction([s \in Strategies |-> strat[s].used])

\* _remaining_budget and ensure_strategy: no strategy ever exceeds its own share, whatever
\* crashed or ran again; and within one uninterrupted delivery the shares add up to the run's
\* budget and the ValueError of _remaining_budget is only raised while the run is READY,
\* because whatever the strategies used up leaves the others a viable share.
BudgetSplit ==
  /\ \A s \in Strategies : strat[s].used <= strat[s].budget
  /\ crashes = 0 /\ enqueues = 1 =>
       /\ StepsUsed <= total
       /\ \A w \in Workers :
            At(w, "loop") /\ wk[w].s <= n => Viable(wk[w].used, wk[w].left)

UnsavedSteps == SumFunction([s \in Strategies |-> strat[s].used - ckpt[s].len])

\* A durable path never holds a step that was not charged, and a step charged without being
\* in a durable path is one a crash came down on: recovery repeats no other.
ChargedSteps ==
  /\ \A s \in Strategies : ckpt[s].len <= strat[s].used
  /\ UnsavedSteps <= crashes + Cardinality({w \in Workers : At(w, "save")})

\* With every crashed job redelivered a run comes to rest in a final status or in an unconfirmed
\* cancellation, and elsewhere only where the code has no way on: with a budget that
\* _remaining_budget refuses, or after a crash in RECOVERING, or in a later delivery that finds a run
\* to be replayed with its time over (run() returns at line 306 and breaks at line 324).
ComesToRest ==
  <>[](\/ status \in {"COMPLETED", "FAILED", "CANCEL_REQUESTED", "CANCELLED"}
       \/ status = "READY" /\ ~Viable(0, n)
       \/ status = "RECOVERING" /\ crashes > 0
       \/ status = "REPLAYING" /\ expired /\ crashes + enqueues > 1)
=============================================================================
