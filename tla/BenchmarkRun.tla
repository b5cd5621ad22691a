---------------------------- MODULE BenchmarkRun ----------------------------
(***************************************************************************)
(* The search benchmark (packages/evaluation): invocations of              *)
(* BenchmarkRunner.run (runner.py) over PostgresBenchmarkStore (store.py), *)
(* and the release gate (gate.py) on what they leave behind.  Several      *)
(* invocations may be on the same run: --resume picks up any run that is   *)
(* still RUNNING, whether its process is dead or not.                      *)
(*                                                                         *)
(* All invocations use one suite, version tuple and baseline, the columns  *)
(* running() and latest() match; they may differ in what those queries do  *)
(* not look at: the seed, the repetitions and the concurrency.             *)
(* Runs are numbered in the order of started_at.                           *)
(***************************************************************************)
EXTENDS Integers, Sequences, FiniteSets

CONSTANTS Invocations,   \* processes of `rulearena benchmark`
          Setups,        \* what they may be invoked with: functions from Invocations
          Cases,         \* the suite, in order
          Vulnerable,    \* the cases whose expected_outcome is VULNERABLE
          MaxKills       \* bound: invocations killed from outside

ASSUME SuiteAssumption == Vulnerable \subseteq {Cases[i] : i \in DOMAIN Cases}

VARIABLES runs,          \* control.benchmark_run
          facts,         \* control.benchmark_case_run
          inv,           \* the invocations
          kills

benchVars == <<runs, facts, inv, kills>>

\* HIT: the expected invariant (any, for a normal case) is confirmed, three times of three;
\* FLAKY: confirmed, but not by every repeated replay; MISS; FAILED: INFRA_FAILED.
Outcomes == {"HIT", "FLAKY", "MISS", "FAILED"}

Config == [seed : Nat, repetitions : Nat \ {0}, concurrency : Nat \ {0}, resume : BOOLEAN]

ASSUME SetupsAssumption == Setups \subseteq [Invocations -> Config]

\* `seed` is what the cell was really executed with; the row does not record it.
Fact == [run : Nat, cell : (DOMAIN Cases) \X Nat, outcome : Outcomes, seed : Nat]

FactsOf(r) == {f \in facts : f.run = r}
CellsOf(F) == {f.cell : f \in F}

Cells(repetitions) == (DOMAIN Cases) \X (1 .. repetitions)

\* The order of the loops: by case, then by repetition.
Before(x, y) == x[1] < y[1] \/ (x[1] = y[1] /\ x[2] < y[2])

-----------------------------------------------------------------------------
(* compute_metrics *)

eligible(raw) == {f \in raw : f.outcome # "FAILED"}

CaseOf(f) == Cases[f.cell[1]]
Confirmed(f) == f.outcome \in {"HIT", "FLAKY"}

compute_metrics(raw) ==
  LET valid      == eligible(raw)
      vulnerable == {f \in valid : CaseOf(f) \in Vulnerable}
      normal     == valid \ vulnerable
      CasesIn(F) == Cardinality({CaseOf(f) : f \in F})
  IN [evaluable |-> CasesIn(vulnerable),
      discovered |-> CasesIn({f \in vulnerable : Confirmed(f)}),
      normal |-> CasesIn(normal),
      false_positives |-> CasesIn({f \in normal : Confirmed(f)}),
      confirmed |-> Cardinality({f \in valid : Confirmed(f)}),
      stable |-> \A f \in valid : f.outcome # "FLAKY"]

NoMetrics == compute_metrics({})

-----------------------------------------------------------------------------
(* The store. *)

Row(c) == [status |-> "RUNNING", seed |-> c.seed, repetitions |-> c.repetitions,
           raw |-> {}, metrics |-> NoMetrics]

Newest(rs) == CHOOSE r \in rs : \A q \in rs : q <= r

running == {r \in DOMAIN runs : runs[r].status = "RUNNING"}
completed == {r \in DOMAIN runs : runs[r].status = "COMPLETED"}

start_run(c) == runs' = Append(runs, Row(c))

Overwrites(f) == TRUE   \* mutant: a second fact for the cell is accepted

\* benchmark_case_run is unique on (run, case, repetition)
append_case(f) == f.cell \notin CellsOf(FactsOf(f.run))

\* mutant: a run can be finalized twice
FinalizesAgain(r, raw) ==
  runs' = [runs EXCEPT ![r] = [@ EXCEPT !.status = "COMPLETED", !.raw = raw,
                                        !.metrics = compute_metrics(raw)]]

finalize_run(r, raw) ==
  /\ runs[r].status = "RUNNING"
  /\ runs' = [runs EXCEPT ![r] = [@ EXCEPT !.status = "COMPLETED", !.raw = raw,
                                           !.metrics = compute_metrics(raw)]]

-----------------------------------------------------------------------------
(* An invocation of BenchmarkRunner.run. *)

Idle(c) == [pc |-> "idle", config |-> c, run |-> 0, collected |-> {}, busy |-> {}]

BenchInit ==
  /\ runs = <<>> /\ facts = {} /\ kills = 0
  /\ \E c \in Setups : inv = [p \in Invocations |-> Idle(c[p])]

\* The process ends, and with it what it holds in memory.
End(p, pc) == inv' = [inv EXCEPT ![p] = [@ EXCEPT !.pc = pc, !.collected = {}, !.busy = {}]]

\* Find the newest unfinished run (its facts are read by the next statement), or start one.
Begin(p) ==
  /\ inv[p].pc = "idle"
  /\ IF inv[p].config.resume /\ running # {}
     THEN /\ inv' = [inv EXCEPT ![p] = [@ EXCEPT !.pc = "resuming", !.run = Newest(running)]]
          /\ UNCHANGED runs
     ELSE /\ start_run(inv[p].config)
          /\ inv' = [inv EXCEPT ![p] = [@ EXCEPT !.pc = "working", !.run = Len(runs) + 1]]
  /\ UNCHANGED <<facts, kills>>

ForgetsDone(p) ==   \* mutant: what is durable is not read back
  /\ inv[p].pc = "resuming"
  /\ inv' = [inv EXCEPT ![p].pc = "working"]
  /\ UNCHANGED <<runs, facts, kills>>

completed_cases(p) ==
  /\ inv[p].pc = "resuming"
  /\ inv' = [inv EXCEPT ![p] = [@ EXCEPT !.pc = "working", !.collected = FactsOf(inv[p].run)]]
  /\ UNCHANGED <<runs, facts, kills>>

\* The cells still to be executed.
Todo(p) ==
  Cells(inv[p].config.repetitions) \ (CellsOf(inv[p].collected) \cup inv[p].busy)

\* execute_cell begins: in order, as far as the semaphore lets it.
StartCell(p) ==
  /\ inv[p].pc = "working"
  /\ Cardinality(inv[p].busy) < inv[p].config.concurrency
  /\ \E c \in Todo(p) :
       /\ \A d \in Todo(p) \ {c} : Before(c, d)
       /\ inv' = [inv EXCEPT ![p].busy = @ \cup {c}]
  /\ UNCHANGED <<runs, facts, kills>>

\* The executor returned or raised (INFRA_FAILED); the fact is collected and appended.  An
\* append the store refuses ends the invocation, and with it the cells it was executing.
FinishCell(p, c, outcome) ==
  LET f == [run |-> inv[p].run, cell |-> c, outcome |-> outcome,
            seed |-> inv[p].config.seed]
  IN
  /\ inv[p].pc = "working" /\ c \in inv[p].busy
  /\ IF append_case(f)
     THEN /\ facts' = facts \cup {f}
          /\ inv' = [inv EXCEPT ![p] = [@ EXCEPT !.busy = inv[p].busy \ {c},
                                                 !.collected = inv[p].collected \cup {f}]]
     ELSE End(p, "dead") /\ UNCHANGED facts
  /\ UNCHANGED <<runs, kills>>

\* A fact that contains the hidden answers is not written: ValueError.
LeakFound(p) ==
  /\ inv[p].pc = "working" /\ inv[p].busy # {}
  /\ kills < MaxKills
  /\ End(p, "stopped") /\ kills' = kills + 1
  /\ UNCHANGED <<runs, facts>>

\* The facts of this invocation's cells, in suite order, become the row's raw_runs.
Raw(p) == {f \in inv[p].collected : f.cell \in Cells(inv[p].config.repetitions)}

Finalize(p) ==
  /\ inv[p].pc = "working" /\ inv[p].busy = {} /\ Todo(p) = {}
  /\ \/ finalize_run(inv[p].run, Raw(p)) /\ End(p, "done")
     \/ /\ runs[inv[p].run].status # "RUNNING"
        /\ End(p, "dead") /\ UNCHANGED runs
  /\ UNCHANGED <<facts, kills>>

Kill(p) ==
  /\ inv[p].pc \in {"resuming", "working"} /\ kills < MaxKills
  /\ End(p, "stopped") /\ kills' = kills + 1
  /\ UNCHANGED <<runs, facts>>

Advance(p) ==
  \/ completed_cases(p)
  \/ StartCell(p)
  \/ \E c \in inv[p].busy, o \in Outcomes : FinishCell(p, c, o)
  \/ Finalize(p)

BenchNext == \E p \in Invocations : Begin(p) \/ Advance(p) \/ LeakFound(p) \/ Kill(p)

\* A process that is not killed goes on: every execution is bounded by its budget.
BenchSpec ==
  BenchInit /\ [][BenchNext]_benchVars /\ \A p \in Invocations : WF_benchVars(Advance(p))

-----------------------------------------------------------------------------
(* ReleaseGate.evaluate on the run latest() returns.  The version, budget, suite, baseline,  *)
(* historical and leakage checks hold of every run of this module.                           *)

GateIgnoresNormal(r, seed) ==   \* mutant: false positives are not looked at
  LET m == runs[r].metrics IN
  /\ runs[r].seed = seed
  /\ 4 * m.discovered >= 3 * m.evaluable /\ m.evaluable > 0
  /\ m.stable /\ 3 * m.confirmed >= 3

ReleaseGate(r, seed) ==
  LET m == runs[r].metrics IN
  /\ runs[r].seed = seed
  /\ runs[r].status = "COMPLETED"
  /\ m.false_positives = 0 /\ m.normal > 0
  /\ 4 * m.discovered >= 3 * m.evaluable /\ m.evaluable > 0
  /\ m.stable /\ 3 * m.confirmed >= 3

-----------------------------------------------------------------------------
(* Properties *)

On(r) == {p \in Invocations : inv[p].run = r}

\* cli.py says --resume continues "an unfinished run of the same configuration".
SameConfiguration(r) ==
  \A p \in On(r) : /\ inv[p].config.seed = runs[r].seed
                   /\ inv[p].config.repetitions = runs[r].repetitions

\* BenchmarkRunner.run: whatever invocations were killed, collided or resumed on the way, a
\* COMPLETED run has measured every cell of its suite exactly once, and the raw_runs its
\* metrics were computed from are the durable facts, as long as all used one configuration.
CompletedIsWhole ==
  \A r \in completed :
    SameConfiguration(r) =>
      /\ runs[r].raw = FactsOf(r)
      /\ CellsOf(FactsOf(r)) = Cells(runs[r].repetitions)
      /\ Cardinality(FactsOf(r)) = Cardinality(CellsOf(FactsOf(r)))

\* finalize_run and append_case: no step changes a finished run, loses a fact or writes a cell
\* twice; and a run resumed only as it was started gets no fact after it is finished.
FinishedFrozen ==
  [][/\ facts \subseteq facts'
     /\ \A r \in completed :
          /\ runs'[r] = runs[r]
          /\ SameConfiguration(r)' => FactsOf(r)' = FactsOf(r)]_benchVars

\* ReleaseGate: when the latest run passes, the facts on record say so too: all of them were
\* measured with the seed the release asks for, no normal case was confirmed, and three
\* quarters of the vulnerable cases that could be measured were found.
GateSound ==
  completed # {} =>
    LET r == Newest(completed) IN
    \A p \in Invocations :
      ReleaseGate(r, inv[p].config.seed) /\ SameConfiguration(r) =>
        /\ \A f \in FactsOf(r) : f.seed = inv[p].config.seed
        /\ \A f \in FactsOf(r) : Confirmed(f) => CaseOf(f) \in Vulnerable
        /\ LET measured == {CaseOf(f) : f \in {g \in FactsOf(r) : g.outcome # "FAILED"}}
               found    == {CaseOf(f) : f \in {g \in FactsOf(r) : Confirmed(g)}}
           IN 4 * Cardinality(found) >= 3 * Cardinality(measured \cap Vulnerable)

Ended(p) == inv[p].pc \in {"done", "dead", "stopped"}

\* BenchmarkRunner.run: an invocation that resumes a run nobody else is working on completes it,
\* unless it is stopped in turn.  Invocations that do race for the cells of one run may die of
\* the store's uniqueness error, but if none is stopped from outside one gets through, as long
\* as they execute one cell at a time (with more, two can stop each other).
RunFinishes ==
  /\ \A p \in Invocations :
       (inv[p].pc = "resuming" /\ \A q \in Invocations \ {p} : Ended(q))
         ~> (inv[p].run \in completed \/ inv[p].pc = "stopped")
  /\ \A r \in 1 .. Cardinality(Invocations) :
       (r \in running)
         ~> (r \in completed \/ kills > 0 \/ \E p \in On(r) : inv[p].config.concurrency > 1)
=============================================================================
