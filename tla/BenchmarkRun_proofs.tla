----------------------- MODULE BenchmarkRun_proofs -----------------------
(***************************************************************************)
(* Proofs about the search benchmark: a finished run is whole and frozen,  *)
(* and the release gate's verdict on it is what its facts say.             *)
(***************************************************************************)
EXTENDS BenchmarkRun, FiniteSetTheorems, WellFoundedInduction, TLAPS

\* The newest of some runs is one of them, and none is newer.
LEMMA NewestOf ==
  ASSUME NEW n \in Nat, NEW rs \in SUBSET (1 .. n), rs # {}
  PROVE  Newest(rs) \in rs /\ \A q \in rs : q <= Newest(rs)
<1> DEFINE T == {n - r : r \in rs}
<1>1. T \subseteq Nat /\ T # {}
  <2>1. \A r \in rs : n - r \in Nat
    OBVIOUS
  <2> QED  BY <2>1
<1>2. PICK x \in T : \A y \in T : ~(<<y, x>> \in OpToRel(<, Nat))
  BY <1>1, NatLessThanWellFounded, WFMin, Zenon
<1>3. \A y \in T : ~(y < x)
  BY <1>1, <1>2 DEF OpToRel
<1>4. PICK r \in rs : x = n - r
  OBVIOUS
<1>5. \A q \in rs : q <= r
  <2> SUFFICES ASSUME NEW q \in rs  PROVE q <= r
    OBVIOUS
  <2>1. n - q \in T
    OBVIOUS
  <2>2. ~(n - q < n - r) /\ q \in 1 .. n /\ r \in 1 .. n
    BY <1>3, <1>4, <2>1
  <2> HIDE DEF T
  <2> QED  BY <2>2
<1> QED
  BY <1>5 DEF Newest

-----------------------------------------------------------------------------
(* The inductive invariant. *)

RunRow ==
  [status : {"RUNNING", "COMPLETED"}, seed : Nat, repetitions : Nat \ {0}, raw : SUBSET Fact,
   metrics : {compute_metrics(F) : F \in SUBSET Fact}]

Invocation ==
  [pc : {"idle", "resuming", "working", "done", "dead", "stopped"}, config : Config, run : Nat,
   collected : SUBSET Fact, busy : SUBSET ((DOMAIN Cases) \X Nat)]

BenchTypeOK ==
  /\ runs \in Seq(RunRow)
  /\ facts \subseteq Fact /\ IsFiniteSet(facts)
  /\ inv \in [Invocations -> Invocation]

\* What an invocation has collected is durable and of its run; what it executes is asked for.
InvocationOK(p) ==
  /\ inv[p].pc = "idle" => inv[p].run = 0
  /\ inv[p].pc # "idle" => inv[p].run \in DOMAIN runs
  /\ inv[p].pc # "working" => inv[p].collected = {} /\ inv[p].busy = {}
  /\ inv[p].collected \subseteq FactsOf(inv[p].run)
  /\ inv[p].busy \subseteq Cells(inv[p].config.repetitions)

\* A fact is an invocation's measurement of a cell it was asked for, the only one in its run.
FactsOK ==
  /\ \A f, g \in facts : f.run = g.run /\ f.cell = g.cell => f = g
  /\ \A f \in facts : \E p \in On(f.run) : /\ f.run \in DOMAIN runs
                                           /\ f.seed = inv[p].config.seed
                                           /\ f.cell \in Cells(inv[p].config.repetitions)

\* raw_runs are the durable facts of the cells that the invocation which finished it wanted.
RunsOK ==
  \A r \in completed :
    /\ runs[r].raw \subseteq FactsOf(r)
    /\ \E p \in On(r) : CellsOf(runs[r].raw) = Cells(inv[p].config.repetitions)
    /\ runs[r].metrics = compute_metrics(runs[r].raw)

BenchInv ==
  /\ BenchTypeOK
  /\ \A p \in Invocations : InvocationOK(p)
  /\ FactsOK
  /\ RunsOK

\* Two facts of a run are of different cells, so it has as many facts as cells.
LEMMA FactsCounted ==
  ASSUME BenchInv, NEW r
  PROVE  Cardinality(FactsOf(r)) = Cardinality(CellsOf(FactsOf(r)))
<1> DEFINE F == FactsOf(r)
           b == [f \in F |-> f.cell]
<1>1. IsFiniteSet(F)
  BY FS_Subset DEF BenchInv, BenchTypeOK, FactsOf
<1>2. b \in Bijection(F, CellsOf(F))
  <2>1. \A f, g \in F : f.cell = g.cell => f = g
    BY DEF BenchInv, FactsOK, FactsOf
  <2> HIDE DEF F
  <2>2. b \in Injection(F, CellsOf(F))
    <3>1. b \in [F -> CellsOf(F)]
      BY DEF CellsOf
    <3>2. \A f, g \in F : b[f] = b[g] => f = g
      BY <2>1
    <3> HIDE DEF b
    <3> QED  BY <3>1, <3>2 DEF Injection, IsInjective
  <2>3. b \in Surjection(F, CellsOf(F))
    BY DEF Surjection, CellsOf
  <2> QED  BY <2>2, <2>3 DEF Bijection
<1>3. ExistsBijection(F, CellsOf(F))
  BY <1>2 DEF ExistsBijection
<1> QED
  BY <1>1, <1>3, FS_Bijection

\* With one configuration, the facts of a finished run are its raw_runs.
LEMMA CompletedRaw ==
  ASSUME BenchInv, NEW r \in completed, SameConfiguration(r)
  PROVE  /\ runs[r].raw = FactsOf(r)
         /\ CellsOf(FactsOf(r)) = Cells(runs[r].repetitions)
         /\ \A f \in FactsOf(r) : f.seed = runs[r].seed
<1>1. PICK p \in On(r) : CellsOf(runs[r].raw) = Cells(inv[p].config.repetitions)
  BY DEF BenchInv, RunsOK
<1>2. CellsOf(runs[r].raw) = Cells(runs[r].repetitions)
  BY <1>1 DEF SameConfiguration
<1>3. \A f \in FactsOf(r) : /\ f.cell \in Cells(runs[r].repetitions)
                            /\ f.seed = runs[r].seed
  <2> SUFFICES ASSUME NEW f \in FactsOf(r)
               PROVE  f.cell \in Cells(runs[r].repetitions) /\ f.seed = runs[r].seed
    OBVIOUS
  <2>1. PICK q \in On(r) : /\ f.seed = inv[q].config.seed
                           /\ f.cell \in Cells(inv[q].config.repetitions)
    BY DEF BenchInv, FactsOK, FactsOf
  <2> QED  BY <2>1 DEF SameConfiguration
<1>4. FactsOf(r) \subseteq runs[r].raw
  <2> SUFFICES ASSUME NEW f \in FactsOf(r)  PROVE f \in runs[r].raw
    OBVIOUS
  <2>1. PICK g \in runs[r].raw : g.cell = f.cell
    BY <1>2, <1>3 DEF CellsOf
  <2>2. g \in FactsOf(r)
    BY DEF BenchInv, RunsOK
  <2> QED  BY <2>1, <2>2 DEF BenchInv, FactsOK, FactsOf
<1> QED
  BY <1>2, <1>3, <1>4 DEF BenchInv, RunsOK

\* An invocation moves on; a run keeps the invocations that are on it.
LEMMA InvocationStep ==
  ASSUME BenchInv, NEW p \in Invocations, NEW row \in Invocation,
         inv' = [inv EXCEPT ![p] = row], UNCHANGED <<runs, facts>>,
         row.config = inv[p].config, inv[p].pc # "idle" => row.run = inv[p].run,
         row.pc # "idle", row.run \in DOMAIN runs,
         row.pc # "working" => row.collected = {} /\ row.busy = {},
         row.collected \subseteq FactsOf(row.run),
         row.busy \subseteq Cells(row.config.repetitions)
  PROVE  BenchInv'
<1>1. /\ inv'[p] = row /\ \A q \in Invocations : q # p => inv'[q] = inv[q]
      /\ inv \in [Invocations -> Invocation]
  BY DEF BenchInv, BenchTypeOK
<1>2. BenchTypeOK'
  BY <1>1 DEF BenchInv, BenchTypeOK
<1>3. \A q \in Invocations : InvocationOK(q)'
  BY <1>1 DEF BenchInv, InvocationOK, FactsOf
<1>4. \A r \in DOMAIN runs : \A q \in On(r) : q \in On(r)' /\ inv'[q].config = inv[q].config
  <2>1. 0 \notin DOMAIN runs
    BY DEF BenchInv, BenchTypeOK
  <2> QED  BY <1>1, <2>1 DEF On, BenchInv, InvocationOK
<1>5. FactsOK'
  <2>1. ASSUME NEW f \in facts
        PROVE  \E q \in On(f.run)' : /\ f.run \in DOMAIN runs'
                                     /\ f.seed = inv'[q].config.seed
                                     /\ f.cell \in Cells(inv'[q].config.repetitions)
    <3>1. PICK q \in On(f.run) : /\ f.run \in DOMAIN runs
                                 /\ f.seed = inv[q].config.seed
                                 /\ f.cell \in Cells(inv[q].config.repetitions)
      BY DEF BenchInv, FactsOK
    <3> QED  BY <1>4, <3>1
  <2> QED  BY <2>1 DEF FactsOK, BenchInv
<1>6. RunsOK'
  <2> SUFFICES ASSUME NEW r \in completed
               PROVE  /\ runs'[r].raw \subseteq FactsOf(r)'
                      /\ \E q \in On(r)' :
                           CellsOf(runs'[r].raw) = Cells(inv'[q].config.repetitions)
                      /\ runs'[r].metrics = compute_metrics(runs'[r].raw)
    BY DEF RunsOK, completed
  <2>1. PICK q \in On(r) : CellsOf(runs[r].raw) = Cells(inv[q].config.repetitions)
    BY DEF BenchInv, RunsOK
  <2>2. r \in DOMAIN runs
    BY DEF completed
  <2>3. q \in On(r)' /\ CellsOf(runs'[r].raw) = Cells(inv'[q].config.repetitions)
    BY <1>4, <2>1, <2>2
  <2> QED  BY <2>3 DEF BenchInv, RunsOK, FactsOf
<1> QED
  BY <1>2, <1>3, <1>5, <1>6 DEF BenchInv

\* The process ends.
LEMMA EndStep ==
  ASSUME BenchInv, NEW p \in Invocations, NEW pc \in {"done", "dead", "stopped"}, End(p, pc),
         inv[p].pc # "idle", UNCHANGED <<runs, facts>>
  PROVE  BenchInv'
<1> DEFINE row == [inv[p] EXCEPT !.pc = pc, !.collected = {}, !.busy = {}]
<1>1. inv[p] \in Invocation /\ InvocationOK(p)
  BY DEF BenchInv, BenchTypeOK
<1>2. /\ row \in Invocation /\ row.config = inv[p].config /\ row.run = inv[p].run
      /\ row.pc = pc /\ row.collected = {} /\ row.busy = {}
  BY <1>1 DEF Invocation
<1>3. inv' = [inv EXCEPT ![p] = row]
  BY DEF End
<1> HIDE DEF row
<1> QED
  BY <1>1, <1>2, <1>3, InvocationStep DEF InvocationOK

LEMMA ResumeStep ==
  ASSUME BenchInv, NEW p \in Invocations, completed_cases(p)
  PROVE  BenchInv'
<1> DEFINE row == [inv[p] EXCEPT !.pc = "working", !.collected = FactsOf(inv[p].run)]
<1>1. inv[p] \in Invocation /\ InvocationOK(p) /\ inv[p].pc = "resuming"
  BY DEF BenchInv, BenchTypeOK, completed_cases
<1>2. FactsOf(inv[p].run) \subseteq Fact
  BY DEF BenchInv, BenchTypeOK, FactsOf
<1>3. /\ row \in Invocation /\ row.config = inv[p].config /\ row.run = inv[p].run
      /\ row.pc = "working" /\ row.collected = FactsOf(inv[p].run) /\ row.busy = inv[p].busy
  BY <1>1, <1>2 DEF Invocation
<1>4. inv' = [inv EXCEPT ![p] = row] /\ UNCHANGED <<runs, facts>>
  BY DEF completed_cases
<1> HIDE DEF row
<1> QED
  BY <1>1, <1>3, <1>4, InvocationStep DEF InvocationOK

LEMMA StartCellStep ==
  ASSUME BenchInv, NEW p \in Invocations, StartCell(p)
  PROVE  BenchInv'
<1>1. PICK c \in Todo(p) : inv' = [inv EXCEPT ![p].busy = @ \cup {c}]
  BY DEF StartCell
<1> DEFINE row == [inv[p] EXCEPT !.busy = inv[p].busy \cup {c}]
<1>2. inv[p] \in Invocation /\ InvocationOK(p) /\ inv[p].pc = "working"
  BY DEF BenchInv, BenchTypeOK, StartCell
<1>3. c \in Cells(inv[p].config.repetitions) /\ c \in (DOMAIN Cases) \X Nat
  BY <1>2 DEF Todo, Cells, Invocation, Config
<1>4. /\ row \in Invocation /\ row.config = inv[p].config /\ row.run = inv[p].run
      /\ row.pc = "working" /\ row.collected = inv[p].collected
      /\ row.busy = inv[p].busy \cup {c}
  BY <1>2, <1>3 DEF Invocation
<1>5. inv' = [inv EXCEPT ![p] = row] /\ UNCHANGED <<runs, facts>>
  BY <1>1 DEF StartCell
<1> HIDE DEF row
<1> QED
  BY <1>2, <1>3, <1>4, <1>5, InvocationStep DEF InvocationOK

LEMMA BeginStep ==
  ASSUME BenchInv, NEW p \in Invocations, Begin(p)
  PROVE  BenchInv'
<1>1. /\ inv[p] \in Invocation /\ InvocationOK(p) /\ inv[p].pc = "idle"
      /\ inv \in [Invocations -> Invocation] /\ runs \in Seq(RunRow) /\ UNCHANGED facts
  BY DEF BenchInv, BenchTypeOK, Begin
<1>2. CASE inv[p].config.resume /\ running # {}
  <2> DEFINE row == [inv[p] EXCEPT !.pc = "resuming", !.run = Newest(running)]
  <2>1. Newest(running) \in running
    <3>1. running \subseteq 1 .. Len(runs) /\ Len(runs) \in Nat
      BY <1>1 DEF running
    <3> QED  BY <1>2, <3>1, NewestOf
  <2>2. Newest(running) \in DOMAIN runs /\ Newest(running) \in Nat
    BY <1>1, <2>1 DEF running
  <2>3. /\ row \in Invocation /\ row.config = inv[p].config /\ row.run = Newest(running)
        /\ row.pc = "resuming" /\ row.collected = {} /\ row.busy = {}
    BY <1>1, <2>2 DEF Invocation, InvocationOK
  <2>4. inv' = [inv EXCEPT ![p] = row] /\ UNCHANGED runs
    BY <1>2 DEF Begin
  <2> HIDE DEF row
  <2> QED  BY <1>1, <2>2, <2>3, <2>4, InvocationStep
<1>3. CASE ~(inv[p].config.resume /\ running # {})
  <2> DEFINE n == Len(runs) + 1
             row == Row(inv[p].config)
             me  == [inv[p] EXCEPT !.pc = "working", !.run = n]
  <2>1. runs' = Append(runs, row) /\ inv' = [inv EXCEPT ![p] = me]
    BY <1>3 DEF Begin, start_run
  <2>2. row \in RunRow /\ row.status = "RUNNING"
    BY <1>1 DEF Row, RunRow, Invocation, Config, NoMetrics
  <2>3. /\ me \in Invocation /\ me.config = inv[p].config /\ me.run = n /\ n \in Nat
        /\ me.pc = "working" /\ me.collected = {} /\ me.busy = {}
    <3>1. n \in Nat
      BY <1>1
    <3> HIDE DEF n
    <3> QED  BY <1>1, <3>1 DEF Invocation, InvocationOK
  <2> HIDE DEF row, me
  <2>4. /\ DOMAIN runs' = DOMAIN runs \cup {n} /\ n \notin DOMAIN runs /\ 0 \notin DOMAIN runs
        /\ runs'[n] = row /\ \A r \in DOMAIN runs : runs'[r] = runs[r]
        /\ runs' \in Seq(RunRow)
    BY <1>1, <2>1, <2>2
  <2>5. inv'[p] = me /\ \A q \in Invocations : q # p => inv'[q] = inv[q]
    BY <1>1, <2>1
  <2>6. BenchTypeOK'
    BY <1>1, <2>1, <2>3, <2>4 DEF BenchInv, BenchTypeOK
  <2>7. \A q \in Invocations : InvocationOK(q)'
    BY <1>1, <2>3, <2>4, <2>5 DEF BenchInv, InvocationOK, FactsOf
  <2>8. \A r \in DOMAIN runs : \A q \in On(r) : q \in On(r)' /\ inv'[q].config = inv[q].config
    BY <1>1, <2>4, <2>5 DEF On, InvocationOK
  <2>9. FactsOK'
    <3>1. ASSUME NEW f \in facts
          PROVE  \E q \in On(f.run)' : /\ f.run \in DOMAIN runs'
                                       /\ f.seed = inv'[q].config.seed
                                       /\ f.cell \in Cells(inv'[q].config.repetitions)
      <4>1. PICK q \in On(f.run) : /\ f.run \in DOMAIN runs
                                   /\ f.seed = inv[q].config.seed
                                   /\ f.cell \in Cells(inv[q].config.repetitions)
        BY DEF BenchInv, FactsOK
      <4> QED  BY <2>4, <2>8, <4>1
    <3> QED  BY <1>1, <3>1 DEF FactsOK, BenchInv
  <2>10. RunsOK'
    <3> SUFFICES ASSUME NEW r \in completed'
                 PROVE  /\ runs'[r].raw \subseteq FactsOf(r)'
                        /\ \E q \in On(r)' :
                             CellsOf(runs'[r].raw) = Cells(inv'[q].config.repetitions)
                        /\ runs'[r].metrics = compute_metrics(runs'[r].raw)
      BY DEF RunsOK
    <3>1. r \in completed /\ r \in DOMAIN runs /\ runs'[r] = runs[r]
      BY <2>2, <2>4 DEF completed
    <3>2. PICK q \in On(r) : CellsOf(runs[r].raw) = Cells(inv[q].config.repetitions)
      BY <3>1 DEF BenchInv, RunsOK
    <3>3. q \in On(r)' /\ CellsOf(runs'[r].raw) = Cells(inv'[q].config.repetitions)
      BY <2>8, <3>1, <3>2
    <3> QED  BY <1>1, <3>1, <3>3 DEF BenchInv, RunsOK, FactsOf
  <2> QED  BY <2>6, <2>7, <2>9, <2>10 DEF BenchInv
<1> QED
  BY <1>2, <1>3

LEMMA FinishCellStep ==
  ASSUME BenchInv, NEW p \in Invocations, NEW c \in inv[p].busy, NEW outcome \in Outcomes,
         FinishCell(p, c, outcome)
  PROVE  BenchInv'
<1> DEFINE f == [run |-> inv[p].run, cell |-> c, outcome |-> outcome,
                 seed |-> inv[p].config.seed]
<1>1. /\ inv[p] \in Invocation /\ InvocationOK(p) /\ inv[p].pc = "working"
      /\ inv \in [Invocations -> Invocation] /\ UNCHANGED runs
  BY DEF BenchInv, BenchTypeOK, FinishCell
<1>2. CASE ~append_case(f)
  <2>1. End(p, "dead") /\ UNCHANGED facts
    BY <1>2 DEF FinishCell
  <2> QED  BY <1>1, <2>1, EndStep
<1>3. CASE append_case(f)
  <2> DEFINE me == [inv[p] EXCEPT !.busy = inv[p].busy \ {c},
                                  !.collected = inv[p].collected \cup {f}]
  <2>1. facts' = facts \cup {f} /\ inv' = [inv EXCEPT ![p] = me]
    BY <1>3 DEF FinishCell
  <2>2. /\ f \in Fact /\ f.run = inv[p].run /\ f.cell = c /\ f.seed = inv[p].config.seed
        /\ c \in Cells(inv[p].config.repetitions) /\ inv[p].run \in DOMAIN runs
    BY <1>1 DEF Fact, Invocation, Config, InvocationOK
  <2>3. \A g \in facts : g.run = f.run => g.cell # f.cell
    BY <1>3 DEF append_case, CellsOf, FactsOf
  <2> HIDE DEF f
  <2>4. /\ me \in Invocation /\ me.config = inv[p].config /\ me.run = inv[p].run
        /\ me.pc = "working" /\ me.collected = inv[p].collected \cup {f}
        /\ me.busy = inv[p].busy \ {c}
    BY <1>1, <2>2 DEF Invocation
  <2> HIDE DEF me
  <2>5. inv'[p] = me /\ \A q \in Invocations : q # p => inv'[q] = inv[q]
    BY <1>1, <2>1
  <2>6. \A r : FactsOf(r) \subseteq FactsOf(r)'
    BY <2>1 DEF FactsOf
  <2>7. BenchTypeOK'
    BY <1>1, <2>1, <2>2, <2>4, FS_AddElement DEF BenchInv, BenchTypeOK
  <2>8. \A q \in Invocations : InvocationOK(q)'
    <3>1. InvocationOK(p)'
      <4>1. f \in FactsOf(inv[p].run)'
        BY <2>1, <2>2, <2>4, <2>5 DEF FactsOf
      <4> QED  BY <1>1, <2>1, <2>4, <2>5, <4>1 DEF InvocationOK, FactsOf
    <3>2. ASSUME NEW q \in Invocations, q # p  PROVE InvocationOK(q)'
      <4>1. InvocationOK(q) /\ inv'[q] = inv[q]
        BY <2>5, <3>2 DEF BenchInv
      <4> QED  BY <1>1, <2>1, <4>1 DEF InvocationOK, FactsOf
    <3> QED  BY <3>1, <3>2
  <2>9. \A q \in Invocations : inv'[q].run = inv[q].run /\ inv'[q].config = inv[q].config
    BY <2>4, <2>5
  <2>10. FactsOK'
    <3>1. \A g, h \in facts' : g.run = h.run /\ g.cell = h.cell => g = h
      BY <2>1, <2>3 DEF BenchInv, FactsOK
    <3>2. ASSUME NEW g \in facts'
          PROVE  \E q \in On(g.run)' : /\ g.run \in DOMAIN runs'
                                       /\ g.seed = inv'[q].config.seed
                                       /\ g.cell \in Cells(inv'[q].config.repetitions)
      <4>1. PICK q \in On(g.run) : /\ g.run \in DOMAIN runs
                                   /\ g.seed = inv[q].config.seed
                                   /\ g.cell \in Cells(inv[q].config.repetitions)
        <5>1. CASE g \in facts
          BY <5>1 DEF BenchInv, FactsOK
        <5>2. CASE g = f
          BY <2>2, <5>2 DEF On
        <5> QED  BY <2>1, <5>1, <5>2
      <4> QED  BY <1>1, <2>9, <4>1 DEF On
    <3> QED  BY <3>1, <3>2 DEF FactsOK
  <2>11. RunsOK'
    <3> SUFFICES ASSUME NEW r \in completed
                 PROVE  /\ runs'[r].raw \subseteq FactsOf(r)'
                        /\ \E q \in On(r)' :
                             CellsOf(runs'[r].raw) = Cells(inv'[q].config.repetitions)
                        /\ runs'[r].metrics = compute_metrics(runs'[r].raw)
      BY <1>1 DEF RunsOK, completed
    <3>1. PICK q \in On(r) : CellsOf(runs[r].raw) = Cells(inv[q].config.repetitions)
      BY DEF BenchInv, RunsOK
    <3>2. q \in On(r)' /\ CellsOf(runs'[r].raw) = Cells(inv'[q].config.repetitions)
      BY <1>1, <2>9, <3>1 DEF On
    <3> QED  BY <1>1, <2>6, <3>2 DEF BenchInv, RunsOK
  <2> QED  BY <2>7, <2>8, <2>10, <2>11 DEF BenchInv
<1> QED
  BY <1>2, <1>3

LEMMA FinalizeStep ==
  ASSUME BenchInv, NEW p \in Invocations, Finalize(p)
  PROVE  BenchInv'
<1>1. /\ inv[p] \in Invocation /\ InvocationOK(p) /\ inv[p].pc = "working"
      /\ inv \in [Invocations -> Invocation] /\ runs \in Seq(RunRow) /\ UNCHANGED facts
  BY DEF BenchInv, BenchTypeOK, Finalize
<1>2. CASE End(p, "dead") /\ UNCHANGED runs
  BY <1>1, <1>2, EndStep
<1>3. CASE finalize_run(inv[p].run, Raw(p)) /\ End(p, "done")
  <2> DEFINE r   == inv[p].run
             raw == Raw(p)
             row == [runs[r] EXCEPT !.status = "COMPLETED", !.raw = raw,
                                    !.metrics = compute_metrics(raw)]
             me  == [inv[p] EXCEPT !.pc = "done", !.collected = {}, !.busy = {}]
  <2>1. runs' = [runs EXCEPT ![r] = row] /\ inv' = [inv EXCEPT ![p] = me]
    BY <1>3 DEF finalize_run, End
  <2>2. /\ r \in DOMAIN runs /\ runs[r] \in RunRow /\ raw \in SUBSET Fact
        /\ raw \subseteq FactsOf(r)
    BY <1>1 DEF InvocationOK, Raw, Invocation
  <2>3. CellsOf(raw) = Cells(inv[p].config.repetitions)
    <3>1. Cells(inv[p].config.repetitions) \subseteq CellsOf(inv[p].collected)
      BY DEF Finalize, Todo
    <3> QED  BY <3>1 DEF CellsOf, Raw
  <2> HIDE DEF raw
  <2>4. /\ row \in RunRow /\ row.raw = raw /\ row.metrics = compute_metrics(raw)
    <3>1. compute_metrics(raw) \in {compute_metrics(F) : F \in SUBSET Fact}
      BY <2>2
    <3> QED  BY <2>2, <3>1 DEF RunRow
  <2>5. /\ me \in Invocation /\ me.config = inv[p].config /\ me.run = r
        /\ me.pc = "done" /\ me.collected = {} /\ me.busy = {}
    BY <1>1 DEF Invocation
  <2> HIDE DEF row, me, r
  <2>6. /\ runs' \in Seq(RunRow) /\ DOMAIN runs' = DOMAIN runs /\ runs'[r] = row
        /\ \A s \in DOMAIN runs : s # r => runs'[s] = runs[s]
    BY <1>1, <2>1, <2>2, <2>4
  <2>7. inv'[p] = me /\ \A q \in Invocations : q # p => inv'[q] = inv[q]
    BY <1>1, <2>1
  <2>8. \A q \in Invocations : inv'[q].run = inv[q].run /\ inv'[q].config = inv[q].config
    BY <2>5, <2>7 DEF r
  <2>9. BenchTypeOK'
    BY <1>1, <2>1, <2>5, <2>6 DEF BenchInv, BenchTypeOK
  <2>10. \A q \in Invocations : InvocationOK(q)'
    <3>1. InvocationOK(p)'
      BY <2>2, <2>5, <2>6, <2>7 DEF InvocationOK
    <3>2. ASSUME NEW q \in Invocations, q # p  PROVE InvocationOK(q)'
      BY <1>1, <2>6, <2>7, <3>2 DEF BenchInv, InvocationOK, FactsOf
    <3> QED  BY <3>1, <3>2
  <2>11. FactsOK'
    BY <1>1, <2>6, <2>8 DEF BenchInv, FactsOK, On
  <2>12. RunsOK'
    <3> SUFFICES ASSUME NEW s \in completed'
                 PROVE  /\ runs'[s].raw \subseteq FactsOf(s)'
                        /\ \E q \in On(s)' :
                             CellsOf(runs'[s].raw) = Cells(inv'[q].config.repetitions)
                        /\ runs'[s].metrics = compute_metrics(runs'[s].raw)
      BY DEF RunsOK
    <3>1. CASE s = r
      <4>1. p \in On(s)' /\ CellsOf(runs'[s].raw) = Cells(inv'[p].config.repetitions)
        BY <2>3, <2>4, <2>6, <2>8, <3>1 DEF On, r
      <4> QED  BY <1>1, <2>2, <2>4, <2>6, <3>1, <4>1 DEF FactsOf
    <3>2. CASE s # r
      <4>1. s \in completed /\ runs'[s] = runs[s]
        BY <2>6, <3>2 DEF completed
      <4> QED  BY <1>1, <2>8, <4>1 DEF BenchInv, RunsOK, On, FactsOf
    <3> QED  BY <3>1, <3>2
  <2> QED  BY <2>9, <2>10, <2>11, <2>12 DEF BenchInv
<1> QED
  BY <1>2, <1>3 DEF Finalize

LEMMA BenchStep ==
  ASSUME BenchInv, [BenchNext]_benchVars
  PROVE  BenchInv'
<1>1. CASE UNCHANGED benchVars
  BY <1>1 DEF benchVars, BenchInv, BenchTypeOK, InvocationOK, FactsOK, RunsOK, FactsOf, On,
              completed
<1>2. ASSUME NEW p \in Invocations, LeakFound(p) \/ Kill(p)  PROVE BenchInv'
  <2>1. End(p, "stopped") /\ inv[p].pc # "idle" /\ UNCHANGED <<runs, facts>>
    BY <1>2 DEF LeakFound, Kill
  <2> QED  BY <2>1, EndStep
<1>3. ASSUME NEW p \in Invocations, Begin(p) \/ Advance(p)  PROVE BenchInv'
  BY <1>3, BeginStep, ResumeStep, StartCellStep, FinishCellStep, FinalizeStep DEF Advance
<1> QED
  BY <1>1, <1>2, <1>3 DEF BenchNext

LEMMA BenchStart == BenchInit => BenchInv
<1> SUFFICES ASSUME BenchInit  PROVE BenchInv
  OBVIOUS
<1>1. PICK c \in Setups : inv = [p \in Invocations |-> Idle(c[p])]
  BY DEF BenchInit
<1>2. runs = <<>> /\ facts = {} /\ c \in [Invocations -> Config]
  BY SetupsAssumption DEF BenchInit
<1>3. \A p \in Invocations : /\ inv[p] = Idle(c[p]) /\ inv[p] \in Invocation
                             /\ inv[p].pc = "idle" /\ inv[p].run = 0
                             /\ inv[p].collected = {} /\ inv[p].busy = {}
  BY <1>1, <1>2 DEF Idle, Invocation
<1>4. BenchTypeOK
  BY <1>1, <1>2, <1>3, FS_EmptySet DEF BenchTypeOK
<1> QED
  BY <1>2, <1>3, <1>4 DEF BenchInv, InvocationOK, FactsOK, RunsOK, completed

\* The inductive invariant of the benchmark: rows, facts and invocations fit together,
\* whatever invocations share a run, collide on a cell or are stopped.
THEOREM BenchInvariant == BenchSpec => []BenchInv
<1>1. BenchInv /\ [BenchNext]_benchVars => BenchInv'
  BY BenchStep
<1> QED
  BY <1>1, BenchStart, PTL DEF BenchSpec

\* BenchmarkRunner.run, finalize_run: a COMPLETED run has measured each cell of its suite once,
\* and its raw_runs are its durable facts.
THEOREM CompletedRunsWhole == BenchSpec => []CompletedIsWhole
<1>1. BenchInv => CompletedIsWhole
  BY CompletedRaw, FactsCounted DEF CompletedIsWhole
<1> QED
  BY <1>1, BenchInvariant, PTL

\* finalize_run, append_case: a finished run stays as it is and gets no more facts, as long as
\* its invocations all ask for the cells that it was started with.
THEOREM FinishedRunsFrozen == BenchSpec => FinishedFrozen
<1> DEFINE Frozen == /\ facts \subseteq facts'
                     /\ \A r \in completed :
                          /\ runs'[r] = runs[r]
                          /\ SameConfiguration(r)' => FactsOf(r)' = FactsOf(r)
<1>1. BenchInv /\ [BenchNext]_benchVars => [Frozen]_benchVars
  <2> SUFFICES ASSUME BenchInv, BenchNext  PROVE Frozen
    OBVIOUS
  <2>1. PICK p \in Invocations : Begin(p) \/ Advance(p) \/ LeakFound(p) \/ Kill(p)
    BY DEF BenchNext
  <2>2. runs \in Seq(RunRow)
    BY DEF BenchInv, BenchTypeOK
  <2>3. \A r \in completed : runs'[r] = runs[r]
    <3>1. CASE UNCHANGED runs
      BY <3>1
    <3>2. CASE Begin(p) /\ ~UNCHANGED runs
      <4>1. runs' = Append(runs, Row(inv[p].config))
        BY <3>2 DEF Begin, start_run
      <4> QED  BY <2>2, <4>1 DEF completed
    <3>3. CASE Finalize(p) /\ ~UNCHANGED runs
      <4>1. finalize_run(inv[p].run, Raw(p))
        BY <3>3 DEF Finalize
      <4> QED  BY <2>2, <4>1 DEF finalize_run, completed
    <3> QED
      BY <2>1, <3>1, <3>2, <3>3
         DEF Begin, Advance, LeakFound, Kill, completed_cases, StartCell, FinishCell
  <2>4. CASE UNCHANGED facts
    BY <2>3, <2>4 DEF FactsOf
  <2>5. CASE ~UNCHANGED facts
    <3>1. PICK c \in inv[p].busy, outcome \in Outcomes : FinishCell(p, c, outcome)
      BY <2>1, <2>5 DEF Begin, Advance, LeakFound, Kill, completed_cases, StartCell, Finalize
    <3> DEFINE f == [run |-> inv[p].run, cell |-> c, outcome |-> outcome,
                     seed |-> inv[p].config.seed]
               me == [inv[p] EXCEPT !.busy = inv[p].busy \ {c},
                                    !.collected = inv[p].collected \cup {f}]
    <3>2. /\ append_case(f) /\ facts' = facts \cup {f} /\ UNCHANGED runs
          /\ inv' = [inv EXCEPT ![p] = me]
      BY <2>5, <3>1 DEF FinishCell
    <3>3. /\ inv[p] \in Invocation /\ InvocationOK(p) /\ inv \in [Invocations -> Invocation]
      BY DEF BenchInv, BenchTypeOK
    <3>4. me.run = inv[p].run /\ me.config = inv[p].config
      BY <3>3 DEF Invocation
    <3>5. f.run = inv[p].run /\ f.cell = c
      OBVIOUS
    <3> HIDE DEF me, f
    <3>6. \A q \in Invocations : inv'[q].run = inv[q].run /\ inv'[q].config = inv[q].config
      BY <3>2, <3>3, <3>4
    <3>7. ASSUME NEW r \in completed, SameConfiguration(r)'  PROVE f.run # r
      <4> SUFFICES ASSUME f.run = r  PROVE FALSE
        OBVIOUS
      <4>1. SameConfiguration(r)
        BY <3>2, <3>6, <3>7 DEF SameConfiguration, On
      <4>2. CellsOf(FactsOf(r)) = Cells(runs[r].repetitions)
        BY <4>1, CompletedRaw
      <4>3. inv[p].config.repetitions = runs[r].repetitions
        BY <3>5, <4>1 DEF SameConfiguration, On
      <4>4. c \in Cells(inv[p].config.repetitions)
        BY <3>3 DEF InvocationOK
      <4> QED  BY <3>2, <3>5, <4>2, <4>3, <4>4 DEF append_case
    <3> QED  BY <2>3, <3>2, <3>7 DEF FactsOf
  <2> QED  BY <2>4, <2>5
<1> QED
  BY <1>1, BenchInvariant, PTL DEF BenchSpec, FinishedFrozen

\* The numbers the gate looks at, for the facts of a finished run.
LEMMA MetricsSay ==
  ASSUME NEW F \in SUBSET Fact, IsFiniteSet(F), compute_metrics(F).false_positives = 0,
         4 * compute_metrics(F).discovered >= 3 * compute_metrics(F).evaluable
  PROVE  /\ \A f \in F : Confirmed(f) => CaseOf(f) \in Vulnerable
         /\ LET measured == {CaseOf(f) : f \in {g \in F : g.outcome # "FAILED"}}
                found    == {CaseOf(f) : f \in {g \in F : Confirmed(g)}}
            IN 4 * Cardinality(found) >= 3 * Cardinality(measured \cap Vulnerable)
<1> DEFINE valid      == eligible(F)
           vulnerable == {f \in valid : CaseOf(f) \in Vulnerable}
           wrong      == {f \in valid \ vulnerable : Confirmed(f)}
           measured   == {CaseOf(f) : f \in {g \in F : g.outcome # "FAILED"}}
           found      == {CaseOf(f) : f \in {g \in F : Confirmed(g)}}
           hits       == {CaseOf(f) : f \in {g \in vulnerable : Confirmed(g)}}
           asked      == {CaseOf(f) : f \in vulnerable}
           errors     == {CaseOf(f) : f \in wrong}
<1>1. /\ Cardinality(errors) = 0
      /\ 4 * Cardinality(hits) >= 3 * Cardinality(asked)
  BY DEF compute_metrics
<1>2. errors = {}
  <2>1. IsFiniteSet(wrong)
    <3>1. wrong \in SUBSET F
      BY DEF eligible
    <3> QED  BY <3>1, FS_Subset
  <2>2. IsFiniteSet(errors)
    <3> DEFINE m == [f \in wrong |-> CaseOf(f)]
    <3>1. m \in Surjection(wrong, errors)
      <4> HIDE DEF wrong
      <4> QED  BY DEF Surjection
    <3> QED  BY <2>1, <3>1, FS_Surjection
  <2> HIDE DEF errors
  <2> QED  BY <1>1, <2>2, FS_EmptySet
<1>3. wrong = {}
  BY <1>2
<1>4. \A f \in F : Confirmed(f) => f \in valid /\ CaseOf(f) \in Vulnerable
  BY <1>3 DEF Confirmed, eligible
<1>5. found = hits
  BY <1>4 DEF eligible
<1>6. measured \cap Vulnerable = asked
  BY DEF eligible
<1> HIDE DEF hits, asked, found, measured
<1>7. 4 * Cardinality(found) >= 3 * Cardinality(measured \cap Vulnerable)
  BY <1>1, <1>5, <1>6
<1> QED
  BY <1>4, <1>7 DEF found, measured

\* ReleaseGate.evaluate: what lets a release through is what was measured, with the seed that
\* was asked for, in the newest finished run.
THEOREM GateIsSound == BenchSpec => []GateSound
<1>1. BenchInv => GateSound
  <2> SUFFICES ASSUME BenchInv, completed # {}, NEW p \in Invocations,
                      ReleaseGate(Newest(completed), inv[p].config.seed),
                      SameConfiguration(Newest(completed))
               PROVE  LET r == Newest(completed)
                          measured == {CaseOf(f) : f \in {g \in FactsOf(r) : g.outcome # "FAILED"}}
                          found    == {CaseOf(f) : f \in {g \in FactsOf(r) : Confirmed(g)}}
                      IN  /\ \A f \in FactsOf(r) : f.seed = inv[p].config.seed
                          /\ \A f \in FactsOf(r) : Confirmed(f) => CaseOf(f) \in Vulnerable
                          /\ 4 * Cardinality(found) >= 3 * Cardinality(measured \cap Vulnerable)
    BY DEF GateSound
  <2> DEFINE r == Newest(completed)
             F == FactsOf(r)
  <2>1. r \in completed
    <3>1. completed \subseteq 1 .. Len(runs) /\ Len(runs) \in Nat
      BY DEF BenchInv, BenchTypeOK, completed
    <3> QED  BY <3>1, NewestOf
  <2> HIDE DEF r
  <2>2. ReleaseGate(r, inv[p].config.seed) /\ SameConfiguration(r)
    BY DEF r
  <2>3. runs[r].raw = F /\ \A f \in F : f.seed = runs[r].seed
    BY <2>1, <2>2, CompletedRaw
  <2>4. runs[r].metrics = compute_metrics(F)
    BY <2>1, <2>3 DEF BenchInv, RunsOK
  <2>5. F \in SUBSET Fact /\ IsFiniteSet(F)
    BY FS_Subset DEF BenchInv, BenchTypeOK, FactsOf
  <2> HIDE DEF F
  <2>6. /\ runs[r].seed = inv[p].config.seed
        /\ compute_metrics(F).false_positives = 0
        /\ 4 * compute_metrics(F).discovered >= 3 * compute_metrics(F).evaluable
    BY <2>2, <2>4 DEF ReleaseGate
  <2> QED  BY <2>3, <2>5, <2>6, MetricsSay DEF F, r
<1> QED
  BY <1>1, BenchInvariant, PTL
=============================================================================
