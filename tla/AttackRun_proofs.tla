-------------------------- MODULE AttackRun_proofs --------------------------
(***************************************************************************)
(* Proofs about attack runs, for any number of workers and strategies and  *)
(* for any budget, with crashes, redeliveries and cancellations anywhere:  *)
(* types, outcomes, then the budget's split and the charging of steps.     *)
(***************************************************************************)
EXTENDS AttackRun, Sums_proofs, TLAPS

\* Where a worker counts the current strategy among strategies_left, and where no longer.
Counted == {"idle", "begin", "recover", "resume", "loop", "pick", "search", "save", "mark",
            "marking", "after"}
Spent == {"prep", "replay", "persist", "complete"}
InLoop == {"pick", "search", "save", "mark", "marking", "after"} \cup Spent

\* strategies_left and the position in the loop go together, so the split never divides by 0.
LoopOK(r) ==
  /\ r.pc \in Counted => r.s + r.left = n + 1
  /\ r.pc \in Spent => r.s + r.left = n
  /\ r.pc \in InLoop => r.s <= n

WorkersOK == /\ wk \in [Workers -> Worker]
             /\ \A w \in Workers : LoopOK(wk[w])

LEMMA IdleOK == Idle \in Worker /\ LoopOK(Idle)
  BY StrategiesAssumption DEF Idle, Worker, PCs, AttackStatus, LoopOK, Counted, Spent, InLoop

LEMMA WorkerUpdate ==
  ASSUME WorkersOK, NEW w \in Workers, NEW r \in Worker, LoopOK(r), wk' = [wk EXCEPT ![w] = r]
  PROVE  WorkersOK'
  BY DEF WorkersOK, LoopOK

\* Return and Move keep the workers well formed.
LEMMA ReturnOK ==
  ASSUME WorkersOK, NEW w \in Workers, Return(w)
  PROVE  WorkersOK'
  BY IdleOK, WorkerUpdate DEF Return

LEMMA MoveOK ==
  ASSUME WorkersOK, NEW w \in Workers, NEW next \in PCs, Move(w, next),
         \/ wk[w].pc \in Counted /\ next \in Counted \ InLoop
         \/ wk[w].pc \in Counted /\ next \in Counted /\ wk[w].s <= n
         \/ wk[w].pc \in Spent /\ next \in Spent
         \/ next \in {"finish", "fail"}
  PROVE  WorkersOK'
<1> DEFINE r == [wk[w] EXCEPT !.pc = next]
<1>1. wk[w] \in Worker /\ LoopOK(wk[w])
  BY DEF WorkersOK
<1>2. r \in Worker /\ r.pc = next /\ r.s = wk[w].s /\ r.left = wk[w].left
  BY <1>1 DEF Worker
<1>3. LoopOK(r)
  <2> HIDE DEF r
  <2> QED  BY <1>1, <1>2 DEF LoopOK, Counted, Spent, InLoop, Worker
<1> HIDE DEF r
<1> QED
  BY <1>2, <1>3, WorkerUpdate DEF Move, r

-----------------------------------------------------------------------------
(* Types *)

TInv == TypeOK /\ WorkersOK

LEMMA CasType ==
  ASSUME TypeOK, NEW expected, NEW target \in AttackStatus, NEW out \in AttackOutcome,
         cas(expected, target, out)
  PROVE  status' \in AttackStatus /\ outcome' \in AttackOutcome
  BY DEF TypeOK, cas

LEMMA EnsureType ==
  ASSUME TypeOK, NEW S, NEW budget \in Nat, ensure_strategy(S, budget)
  PROVE  strat' \in [Strategies -> [exists : BOOLEAN, budget : Nat, used : Nat]]
  BY DEF TypeOK, ensure_strategy

LEMMA UpdateType ==
  ASSUME TypeOK, NEW s \in Strategies, NEW steps \in Nat, update_strategy(s, steps)
  PROVE  strat' \in [Strategies -> [exists : BOOLEAN, budget : Nat, used : Nat]]
  BY DEF TypeOK, update_strategy

\* A worker inside the loop is at a strategy.
LEMMA AtStrategy ==
  ASSUME TInv, NEW w \in Workers, wk[w].pc \in InLoop
  PROVE  /\ wk[w] \in Worker /\ LoopOK(wk[w]) /\ wk[w].s \in Strategies
         /\ strat[wk[w].s] \in [exists : BOOLEAN, budget : Nat, used : Nat]
         /\ ckpt[wk[w].s] \in [version : Nat, len : Nat, cand : BOOLEAN]
<1>1. wk[w] \in Worker /\ LoopOK(wk[w])
  BY DEF TInv, WorkersOK
<1>2. wk[w].s \in Strategies
  BY <1>1, StrategiesAssumption DEF Worker, LoopOK, Strategies
<1> QED
  BY <1>1, <1>2 DEF TInv, TypeOK

LEMMA BeginType ==
  ASSUME TInv, NEW w \in Workers, Begin(w)
  PROVE  TInv'
<1>1. status' \in AttackStatus /\ outcome' \in AttackOutcome
  BY CasType DEF TInv, TypeOK, Begin, AttackStatus, AttackOutcome
<1>2. WorkersOK'
  <2>1. Return(w) \/ \E next \in {"resume", "recover"} : Move(w, next)
    BY DEF Begin
  <2>2. wk[w].pc = "begin"
    BY DEF Begin, At
  <2> QED
    BY <2>1, <2>2, ReturnOK, MoveOK DEF TInv, PCs, Counted, InLoop, Spent
<1> QED
  BY <1>1, <1>2 DEF TInv, TypeOK, WorkersOK, Begin, otherVars, verdictVars, queueVars

LEMMA RecoverType ==
  ASSUME TInv, NEW w \in Workers, Recover(w)
  PROVE  TInv'
<1>1. remaining_budget(0, n) \in Nat
  <2>1. total - 0 = total /\ total \in Nat
    BY DEF TInv, TypeOK
  <2> QED  BY <2>1, StrategiesAssumption DEF remaining_budget
<1>2. strat' \in [Strategies -> [exists : BOOLEAN, budget : Nat, used : Nat]]
  BY <1>1, EnsureType DEF TInv, Recover
<1>3. status' \in AttackStatus /\ outcome' \in AttackOutcome
  BY DEF TInv, TypeOK, Recover, cas, AttackStatus, AttackOutcome
<1>4. WorkersOK'
  <2>1. Return(w) \/ Move(w, "resume")
    BY DEF Recover
  <2>2. wk[w].pc = "recover"
    BY DEF Recover, At
  <2> QED
    BY <2>1, <2>2, ReturnOK, MoveOK DEF TInv, PCs, Counted, InLoop, Spent
<1> QED
  BY <1>2, <1>3, <1>4 DEF TInv, TypeOK, WorkersOK, Recover, otherVars, verdictVars, queueVars

LEMMA ResumeType ==
  ASSUME TInv, NEW w \in Workers, Resume(w)
  PROVE  TInv'
<1>1. status' \in AttackStatus /\ outcome' \in AttackOutcome
  BY DEF TInv, TypeOK, Resume, cas, AttackStatus, AttackOutcome
<1>2. WorkersOK'
  BY ReturnOK, MoveOK DEF TInv, Resume, At, PCs, Counted, InLoop, Spent
<1> QED
  BY <1>1, <1>2 DEF TInv, TypeOK, WorkersOK, Resume, otherVars, verdictVars, queueVars

\* The share handed out is viable, so it is at least one step for every strategy left.
LEMMA LoopType ==
  ASSUME TInv, NEW w \in Workers, Loop(w)
  PROVE  TInv'
<1>0. wk[w] \in Worker /\ LoopOK(wk[w]) /\ wk[w].pc = "loop"
  BY DEF TInv, WorkersOK, Loop, At
<1>1. status' \in AttackStatus /\ outcome' \in AttackOutcome
  BY DEF TInv, TypeOK, Loop, ConfirmCancel, cas, AttackStatus, AttackOutcome
<1>2. CASE Move(w, "finish") /\ UNCHANGED strat
  BY <1>1, <1>2, MoveOK
     DEF TInv, TypeOK, WorkersOK, Loop, otherVars, verdictVars, queueVars, PCs
<1>3. CASE ConfirmCancel(w) /\ UNCHANGED strat
  BY <1>1, <1>3, ReturnOK
     DEF TInv, TypeOK, WorkersOK, Loop, ConfirmCancel, otherVars, verdictVars, queueVars
<1>4. CASE Move(w, "fail") /\ UNCHANGED strat
  BY <1>1, <1>4, MoveOK
     DEF TInv, TypeOK, WorkersOK, Loop, otherVars, verdictVars, queueVars, PCs
<1>5. CASE /\ wk[w].s <= n
           /\ Viable(wk[w].used, wk[w].left)
           /\ ensure_strategy({wk[w].s}, remaining_budget(wk[w].used, wk[w].left))
           /\ wk' = [wk EXCEPT ![w] = [wk[w] EXCEPT !.steps = strat[wk[w].s].used,
                                                   !.pc = "pick"]]
  <2>1. wk[w].left \in Nat \ {0} /\ wk[w].used \in Nat /\ wk[w].s \in Strategies
    BY <1>0, <1>5, StrategiesAssumption DEF Worker, LoopOK, Counted, Strategies
  <2>2. remaining_budget(wk[w].used, wk[w].left) \in Nat
    <3>1. total - wk[w].used \in Nat
      BY <1>5, <2>1 DEF TInv, TypeOK, Viable, MIN_VIABLE_STRATEGY_STEPS
    <3> QED  BY <2>1, <3>1 DEF remaining_budget
  <2>3. strat' \in [Strategies -> [exists : BOOLEAN, budget : Nat, used : Nat]]
    BY <1>5, <2>2, EnsureType DEF TInv
  <2>4. WorkersOK'
    <3> DEFINE r == [wk[w] EXCEPT !.steps = strat[wk[w].s].used, !.pc = "pick"]
    <3>1. strat[wk[w].s].used \in Nat
      BY <2>1 DEF TInv, TypeOK
    <3>2. /\ r \in Worker /\ r.pc = "pick" /\ r.s = wk[w].s /\ r.left = wk[w].left
      BY <1>0, <3>1 DEF Worker, PCs
    <3>3. LoopOK(r)
      <4> HIDE DEF r
      <4> QED  BY <1>0, <1>5, <3>2 DEF LoopOK, Counted, Spent, InLoop
    <3>4. wk' = [wk EXCEPT ![w] = r]
      BY <1>5
    <3> HIDE DEF r
    <3> QED  BY <3>2, <3>3, <3>4, WorkerUpdate DEF TInv
  <2> QED
    BY <1>1, <2>3, <2>4 DEF TInv, TypeOK, WorkersOK, Loop, otherVars, verdictVars, queueVars
<1> QED
  BY <1>2, <1>3, <1>4, <1>5 DEF Loop

LEMMA PickType ==
  ASSUME TInv, NEW w \in Workers, Pick(w)
  PROVE  TInv'
<1> DEFINE s       == wk[w].s
           pending == status = "REPLAYING" /\ ckpt[s].cand
           next    == IF pending THEN "after" ELSE "search"
           r       == [wk[w] EXCEPT !.len = ckpt[s].len, !.ver = ckpt[s].version,
                                    !.found = pending, !.pc = next]
<1>0. wk[w].pc = "pick"
  BY DEF Pick, At
<1>1. /\ wk[w] \in Worker /\ LoopOK(wk[w]) /\ s \in Strategies
      /\ ckpt[s] \in [version : Nat, len : Nat, cand : BOOLEAN]
  BY <1>0, AtStrategy DEF InLoop
<1>2. WorkersOK'
  <2>1. next \in {"after", "search"} /\ pending \in BOOLEAN
    OBVIOUS
  <2>2. r \in Worker /\ r.pc = next /\ r.s = s /\ r.left = wk[w].left
    <3> HIDE DEF next, pending
    <3> QED  BY <1>1, <2>1 DEF Worker, PCs
  <2>3. LoopOK(r)
    <3> HIDE DEF r, next
    <3> QED  BY <1>0, <1>1, <2>1, <2>2 DEF LoopOK, Counted, Spent, InLoop
  <2>4. wk' = [wk EXCEPT ![w] = r]
    BY DEF Pick
  <2> HIDE DEF r
  <2> QED  BY <2>2, <2>3, <2>4, WorkerUpdate DEF TInv
<1>3. strat' \in [Strategies -> [exists : BOOLEAN, budget : Nat, used : Nat]]
  <2>1. wk[w].steps \in Nat
    BY <1>1 DEF Worker
  <2>2. CASE UNCHANGED strat
    BY <2>2 DEF TInv, TypeOK
  <2>3. CASE update_strategy(s, wk[w].steps)
    BY <1>1, <2>1, <2>3, UpdateType DEF TInv
  <2> QED  BY <2>2, <2>3 DEF Pick
<1> QED
  BY <1>2, <1>3 DEF TInv, TypeOK, WorkersOK, Pick, otherVars, verdictVars, queueVars

LEMMA SearchType ==
  ASSUME TInv, NEW w \in Workers, Search(w)
  PROVE  TInv'
<1> DEFINE s == wk[w].s
           r == [wk[w] EXCEPT !.steps = wk[w].steps + 1, !.pc = "save"]
<1>0. wk[w].pc = "search"
  BY DEF Search, At
<1>1. wk[w] \in Worker /\ LoopOK(wk[w]) /\ s \in Strategies
  BY <1>0, AtStrategy DEF InLoop
<1>2. wk[w].steps \in Nat /\ wk[w].steps + 1 \in Nat /\ s <= n
  BY <1>0, <1>1 DEF Worker, LoopOK, InLoop
<1>3. strat' \in [Strategies -> [exists : BOOLEAN, budget : Nat, used : Nat]]
  <2>1. CASE UNCHANGED strat
    BY <2>1 DEF TInv, TypeOK
  <2>2. ASSUME NEW steps \in Nat, update_strategy(s, steps)
        PROVE  strat' \in [Strategies -> [exists : BOOLEAN, budget : Nat, used : Nat]]
    BY <1>1, <2>2, UpdateType DEF TInv
  <2> QED  BY <1>2, <2>1, <2>2 DEF Search
<1>4. WorkersOK'
  <2>1. CASE \E next \in {"after", "fail", "mark"} : Move(w, next)
    BY <1>0, <1>2, <2>1, MoveOK DEF TInv, PCs, Counted, Spent, InLoop
  <2>2. CASE wk' = [wk EXCEPT ![w] = r]
    <3>1. r \in Worker /\ r.pc = "save" /\ r.s = s /\ r.left = wk[w].left
      BY <1>1, <1>2 DEF Worker, PCs
    <3>2. LoopOK(r)
      <4> HIDE DEF r
      <4> QED  BY <1>0, <1>1, <3>1 DEF LoopOK, Counted, Spent, InLoop
    <3> HIDE DEF r
    <3> QED  BY <2>2, <3>1, <3>2, WorkerUpdate DEF TInv
  <2> QED  BY <2>1, <2>2 DEF Search
<1> QED
  BY <1>3, <1>4 DEF TInv, TypeOK, WorkersOK, Search, otherVars, verdictVars, queueVars

LEMMA SaveCheckpointType ==
  ASSUME TypeOK, NEW s \in Strategies, NEW expected,
         NEW row \in [version : Nat, len : Nat, cand : BOOLEAN],
         save_checkpoint(s, expected, row)
  PROVE  ckpt' \in [Strategies -> [version : Nat, len : Nat, cand : BOOLEAN]]
  BY DEF TypeOK, save_checkpoint

LEMMA SaveType ==
  ASSUME TInv, NEW w \in Workers, Save(w)
  PROVE  TInv'
<1> DEFINE s   == wk[w].s
           row == [version |-> wk[w].ver + 1, len |-> wk[w].len + 1, cand |-> FALSE]
<1>0. wk[w].pc = "save"
  BY DEF Save, At
<1>1. wk[w] \in Worker /\ LoopOK(wk[w]) /\ s \in Strategies
  BY <1>0, AtStrategy DEF InLoop
<1>2. wk[w].ver + 1 \in Nat /\ wk[w].len + 1 \in Nat
  BY <1>1 DEF Worker
<1>3. CASE Move(w, "fail") /\ UNCHANGED ckpt
  BY <1>3, MoveOK DEF TInv, TypeOK, WorkersOK, Save, otherVars, verdictVars, queueVars, PCs
<1>4. ASSUME NEW next \in {"search", "mark"},
             save_checkpoint(s, wk[w].ver, row),
             wk' = [wk EXCEPT ![w] = [wk[w] EXCEPT !.len = wk[w].len + 1,
                                                   !.ver = wk[w].ver + 1, !.pc = next]]
      PROVE  TInv'
  <2> DEFINE r == [wk[w] EXCEPT !.len = wk[w].len + 1, !.ver = wk[w].ver + 1, !.pc = next]
  <2>1. row \in [version : Nat, len : Nat, cand : BOOLEAN]
    BY <1>2
  <2>2. ckpt' \in [Strategies -> [version : Nat, len : Nat, cand : BOOLEAN]]
    <3> HIDE DEF row
    <3> QED  BY <1>1, <1>4, <2>1, SaveCheckpointType DEF TInv
  <2>3. r \in Worker /\ r.pc = next /\ r.s = s /\ r.left = wk[w].left
    BY <1>1, <1>2 DEF Worker, PCs
  <2>4. LoopOK(r)
    <3> HIDE DEF r
    <3> QED  BY <1>0, <1>1, <2>3 DEF LoopOK, Counted, Spent, InLoop
  <2>5. wk' = [wk EXCEPT ![w] = r]
    BY <1>4
  <2>6. WorkersOK'
    <3> HIDE DEF r
    <3> QED  BY <2>3, <2>4, <2>5, WorkerUpdate DEF TInv
  <2> QED
    BY <2>2, <2>6 DEF TInv, TypeOK, WorkersOK, Save, otherVars, verdictVars, queueVars
<1> QED
  BY <1>3, <1>4 DEF Save

LEMMA LoadMarkType ==
  ASSUME TInv, NEW w \in Workers, LoadMark(w)
  PROVE  TInv'
<1> DEFINE r == [wk[w] EXCEPT !.ver = ckpt[wk[w].s].version, !.pc = "marking"]
<1>0. wk[w].pc = "mark"
  BY DEF LoadMark, At
<1>1. wk[w] \in Worker /\ LoopOK(wk[w]) /\ ckpt[wk[w].s].version \in Nat
  BY <1>0, AtStrategy DEF InLoop
<1>2. r \in Worker /\ r.pc = "marking" /\ r.s = wk[w].s /\ r.left = wk[w].left
  BY <1>1 DEF Worker, PCs
<1>3. LoopOK(r)
  <2> HIDE DEF r
  <2> QED  BY <1>0, <1>1, <1>2 DEF LoopOK, Counted, Spent, InLoop
<1>4. WorkersOK'
  <2>1. wk' = [wk EXCEPT ![w] = r]
    BY DEF LoadMark
  <2> HIDE DEF r
  <2> QED  BY <1>2, <1>3, <2>1, WorkerUpdate DEF TInv
<1> QED
  BY <1>4 DEF TInv, TypeOK, WorkersOK, LoadMark, storeVars, otherVars, verdictVars, queueVars

LEMMA MarkType ==
  ASSUME TInv, NEW w \in Workers, Mark(w)
  PROVE  TInv'
<1> DEFINE s   == wk[w].s
           row == [version |-> wk[w].ver + 1, len |-> ckpt[s].len, cand |-> TRUE]
           r   == [wk[w] EXCEPT !.found = TRUE, !.pc = "after"]
<1>0. wk[w].pc = "marking"
  BY DEF Mark, At
<1>1. wk[w] \in Worker /\ LoopOK(wk[w]) /\ s \in Strategies /\ ckpt[s].len \in Nat
  BY <1>0, AtStrategy DEF InLoop
<1>2. wk[w].ver + 1 \in Nat /\ wk[w].steps \in Nat
  BY <1>1 DEF Worker
<1>3. CASE Move(w, "fail") /\ UNCHANGED <<ckpt, strat>>
  BY <1>3, MoveOK DEF TInv, TypeOK, WorkersOK, Mark, otherVars, verdictVars, queueVars, PCs
<1>4. CASE /\ save_checkpoint(s, wk[w].ver, row)
           /\ update_strategy(s, wk[w].steps)
           /\ wk' = [wk EXCEPT ![w] = r]
  <2>1. row \in [version : Nat, len : Nat, cand : BOOLEAN]
    BY <1>1, <1>2
  <2>2. ckpt' \in [Strategies -> [version : Nat, len : Nat, cand : BOOLEAN]]
    <3> HIDE DEF row
    <3> QED  BY <1>1, <1>4, <2>1, SaveCheckpointType DEF TInv
  <2>3. strat' \in [Strategies -> [exists : BOOLEAN, budget : Nat, used : Nat]]
    BY <1>1, <1>2, <1>4, UpdateType DEF TInv
  <2>4. r \in Worker /\ r.pc = "after" /\ r.s = s /\ r.left = wk[w].left
    BY <1>1 DEF Worker, PCs
  <2>5. LoopOK(r)
    <3> HIDE DEF r
    <3> QED  BY <1>0, <1>1, <2>4 DEF LoopOK, Counted, Spent, InLoop
  <2>6. WorkersOK'
    <3> HIDE DEF r
    <3> QED  BY <1>4, <2>4, <2>5, WorkerUpdate DEF TInv
  <2> QED
    BY <2>2, <2>3, <2>6 DEF TInv, TypeOK, WorkersOK, Mark, otherVars, verdictVars, queueVars
<1> QED
  BY <1>3, <1>4 DEF Mark

LEMMA AfterType ==
  ASSUME TInv, NEW w \in Workers, After(w)
  PROVE  TInv'
<1> DEFINE used  == wk[w].used + strat[wk[w].s].used
           left  == wk[w].left - 1
           s     == wk[w].s + 1
           spent == [wk[w] EXCEPT !.used = used, !.left = left]
           r     == IF wk[w].found THEN [spent EXCEPT !.pc = "prep"]
                    ELSE [spent EXCEPT !.pc = "loop", !.s = s]
<1>0. wk[w].pc = "after"
  BY DEF After, At
<1>1. wk[w] \in Worker /\ LoopOK(wk[w]) /\ wk[w].s <= n /\ strat[wk[w].s].used \in Nat
  BY <1>0, AtStrategy DEF LoopOK, InLoop
<1>2. used \in Nat /\ left \in Nat /\ s \in 1 .. n + 1 /\ s + left = n + 1
      /\ wk[w].s + left = n
  BY <1>0, <1>1, StrategiesAssumption DEF Worker, LoopOK, Counted
<1>3. spent \in Worker /\ spent.s = wk[w].s /\ spent.left = left
  <2> HIDE DEF used, left
  <2> QED  BY <1>1, <1>2 DEF Worker
<1>4. r \in Worker /\ LoopOK(r)
  <2> HIDE DEF spent, left, s
  <2>1. CASE wk[w].found
    <3>1. r \in Worker /\ r.pc = "prep" /\ r.s = wk[w].s /\ r.left = left
      BY <1>3, <2>1 DEF Worker, PCs
    <3> HIDE DEF r
    <3> QED  BY <1>1, <1>2, <3>1 DEF LoopOK, Counted, Spent, InLoop
  <2>2. CASE ~wk[w].found
    <3>1. r \in Worker /\ r.pc = "loop" /\ r.s = s /\ r.left = left
      BY <1>2, <1>3, <2>2 DEF Worker, PCs
    <3> HIDE DEF r
    <3> QED  BY <1>2, <3>1 DEF LoopOK, Counted, Spent, InLoop
  <2> QED  BY <2>1, <2>2
<1>5. WorkersOK'
  <2>1. wk' = [wk EXCEPT ![w] = r]
    BY DEF After
  <2> HIDE DEF r
  <2> QED  BY <1>4, <2>1, WorkerUpdate DEF TInv
<1> QED
  BY <1>5 DEF TInv, TypeOK, WorkersOK, After, storeVars, otherVars, verdictVars, queueVars

LEMMA PrepType ==
  ASSUME TInv, NEW w \in Workers, Prep(w)
  PROVE  TInv'
<1>1. status' \in AttackStatus /\ outcome' \in AttackOutcome
  BY DEF TInv, TypeOK, Prep, ConfirmCancel, cas, AttackStatus, AttackOutcome
<1>2. WorkersOK'
  BY ReturnOK, MoveOK DEF TInv, Prep, ConfirmCancel, At, PCs, Spent
<1> QED
  BY <1>1, <1>2 DEF TInv, TypeOK, WorkersOK, Prep, otherVars, verdictVars, queueVars

LEMMA NextStrategyOK ==
  ASSUME TInv, NEW w \in Workers, NEW unconfirmed \in BOOLEAN, wk[w].pc \in Spent,
         NextStrategy(w, unconfirmed)
  PROVE  WorkersOK'
<1> DEFINE s == wk[w].s + 1
           r == [wk[w] EXCEPT !.s = s, !.unconf = unconfirmed, !.found = FALSE, !.pc = "loop"]
<1>1. wk[w] \in Worker /\ LoopOK(wk[w]) /\ wk[w].s <= n
  BY AtStrategy DEF LoopOK, InLoop
<1>2. s \in 1 .. n + 1 /\ s + wk[w].left = n + 1
  BY <1>1, StrategiesAssumption DEF Worker, LoopOK
<1>3. r \in Worker /\ r.pc = "loop" /\ r.s = s /\ r.left = wk[w].left
  <2> HIDE DEF s
  <2> QED  BY <1>1, <1>2 DEF Worker, PCs
<1>4. LoopOK(r)
  <2> HIDE DEF r, s
  <2> QED  BY <1>2, <1>3 DEF LoopOK, Counted, Spent, InLoop
<1>5. wk' = [wk EXCEPT ![w] = r]
  BY DEF NextStrategy
<1> HIDE DEF r
<1> QED
  BY <1>3, <1>4, <1>5, WorkerUpdate DEF TInv

LEMMA KeyType ==
  ASSUME TInv, NEW w \in Workers, wk[w].pc \in Spent
  PROVE  candidate_key(w) \in Strategies \X Nat
<1>1. wk[w] \in Worker /\ wk[w].s \in Strategies
  BY AtStrategy DEF InLoop
<1> QED
  BY <1>1 DEF candidate_key, Worker

LEMMA ReplayType ==
  ASSUME TInv, NEW w \in Workers, Replay(w)
  PROVE  TInv'
<1>0. wk[w].pc = "replay"
  BY DEF Replay, At
<1>1. status' \in AttackStatus /\ outcome' \in AttackOutcome
  BY DEF TInv, TypeOK, Replay, cas, AttackStatus, AttackOutcome
<1>2. proven' \subseteq Strategies \X Nat /\ refuted' \subseteq Strategies \X Nat
  <2>1. candidate_key(w) \in Strategies \X Nat
    BY <1>0, KeyType DEF Spent
  <2> QED  BY <2>1 DEF TInv, TypeOK, Replay, verdictVars
<1>3. WorkersOK'
  BY <1>0, MoveOK, NextStrategyOK DEF TInv, Replay, PCs, Spent
<1> QED
  BY <1>1, <1>2, <1>3 DEF TInv, TypeOK, WorkersOK, Replay, queueVars

LEMMA PersistType ==
  ASSUME TInv, NEW w \in Workers, Persist(w)
  PROVE  TInv'
<1>0. wk[w].pc = "persist"
  BY DEF Persist, At
<1>1. counterexamples' \subseteq Strategies \X Nat
  <2>1. candidate_key(w) \in Strategies \X Nat
    BY <1>0, KeyType DEF Spent
  <2> QED  BY <2>1 DEF TInv, TypeOK, Persist
<1>2. WorkersOK'
  BY <1>0, MoveOK DEF TInv, Persist, PCs, Spent
<1> QED
  BY <1>1, <1>2 DEF TInv, TypeOK, WorkersOK, Persist, otherVars, verdictVars, queueVars

LEMMA EndType ==
  ASSUME TInv, NEW w \in Workers, Complete(w) \/ Finish(w) \/ Fail(w)
  PROVE  TInv'
<1>1. status' \in AttackStatus /\ outcome' \in AttackOutcome
  BY DEF TInv, TypeOK, Complete, Finish, Fail, cas, AttackStatus, AttackOutcome
<1>2. WorkersOK'
  BY ReturnOK DEF TInv, Complete, Finish, Fail
<1> QED
  BY <1>1, <1>2
     DEF TInv, TypeOK, WorkersOK, Complete, Finish, Fail, otherVars, verdictVars, queueVars

LEMMA DeliverType ==
  ASSUME TInv, NEW w \in Workers, Deliver(w)
  PROVE  TInv'
<1> DEFINE r == [Idle EXCEPT !.pc = "begin", !.seen = status]
<1>1. r \in Worker /\ r.pc = "begin" /\ r.s = Idle.s /\ r.left = Idle.left
  BY IdleOK DEF TInv, TypeOK, Worker, PCs
<1>2. LoopOK(r)
  <2> HIDE DEF r
  <2>1. Idle.pc = "idle"
    BY DEF Idle
  <2> QED  BY <1>1, <2>1, IdleOK DEF LoopOK, Counted, Spent, InLoop
<1>3. WorkersOK'
  <2>1. wk' = [wk EXCEPT ![w] = r]
    BY DEF Deliver
  <2> HIDE DEF r
  <2> QED  BY <1>1, <1>2, <2>1, WorkerUpdate DEF TInv
<1>4. queued' \in Nat
  BY DEF TInv, TypeOK, Deliver
<1> QED
  BY <1>3, <1>4 DEF TInv, TypeOK, WorkersOK, Deliver, storeVars, verdictVars

LEMMA CrashType ==
  ASSUME TInv, NEW w \in Workers, Crash(w)
  PROVE  TInv'
<1>1. WorkersOK'
  BY ReturnOK DEF TInv, Crash
<1> QED
  BY <1>1 DEF TInv, TypeOK, WorkersOK, Crash, storeVars, verdictVars

LEMMA LapseType ==
  ASSUME TInv, NEW w \in Workers, Lapse(w)
  PROVE  TInv'
<1>1. WorkersOK'
  BY DEF TInv, Lapse, WorkersOK, LoopOK
<1> QED
  BY <1>1 DEF TInv, TypeOK, WorkersOK, Lapse, storeVars, verdictVars

LEMMA OutsideType ==
  ASSUME TInv, Enqueue \/ request_cancel \/ Expire
  PROVE  TInv'
<1>1. UNCHANGED wk
  BY DEF Enqueue, request_cancel, Expire
<1>2. WorkersOK'
  BY <1>1 DEF TInv, WorkersOK, LoopOK
<1>3. CASE Enqueue
  BY <1>2, <1>3 DEF TInv, TypeOK, WorkersOK, Enqueue, storeVars, verdictVars
<1>4. CASE request_cancel
  BY <1>2, <1>4 DEF TInv, TypeOK, WorkersOK, request_cancel, cas, AttackStatus, AttackOutcome,
                    otherVars, verdictVars, queueVars
<1>5. CASE Expire
  BY <1>2, <1>5 DEF TInv, TypeOK, WorkersOK, Expire, storeVars, verdictVars
<1> QED
  BY <1>3, <1>4, <1>5

LEMMA TypeStep ==
  ASSUME TInv, [Next]_vars
  PROVE  TInv'
<1>1. ASSUME NEW w \in Workers, Step(w)  PROVE TInv'
  BY <1>1, BeginType, RecoverType, ResumeType, LoopType, PickType, SearchType, SaveType,
     LoadMarkType, MarkType, AfterType, PrepType, ReplayType, PersistType, EndType DEF Step
<1>2. CASE UNCHANGED vars
  BY <1>2 DEF vars, storeVars, verdictVars, queueVars, TInv, TypeOK, WorkersOK, LoopOK
<1> QED
  BY <1>1, <1>2, DeliverType, CrashType, LapseType, OutsideType DEF Next

LEMMA TypedAlways == Spec => []TInv
<1>1. Init => TInv
  <2> SUFFICES ASSUME Init  PROVE TInv
    OBVIOUS
  <2>1. TypeOK /\ wk = [w \in Workers |-> Idle]
    BY IdleOK, TotalsAssumption DEF Init, TypeOK, AttackStatus, AttackOutcome
  <2> QED  BY <2>1, IdleOK DEF TInv, TypeOK, WorkersOK
<1> QED
  BY <1>1, TypeStep, PTL DEF Spec

\* Rows and local variables are well formed whatever crashes and is delivered again: shares,
\* usages, versions and strategies_left never leave the natural numbers, and the loop never
\* runs past the last strategy.
THEOREM TypeCorrect == Spec => []TypeOK
<1>1. TInv => TypeOK
  BY DEF TInv
<1> QED
  BY <1>1, TypedAlways, PTL

-----------------------------------------------------------------------------
(* Outcomes *)

\* A worker about to complete the run has stored its counterexample.
StoredFirst == \A w \in Workers : At(w, "complete") => counterexamples # {}

OutcomeInv == OutcomeBacked /\ StoredFirst

\* A worker that goes anywhere but to "complete", with the counterexamples left alone.
LEMMA StoredStep ==
  ASSUME TypeOK, StoredFirst, NEW w \in Workers, UNCHANGED counterexamples,
         \/ Return(w)
         \/ \E next \in PCs \ {"complete"} : Move(w, next)
         \/ \E r : r.pc # "complete" /\ wk' = [wk EXCEPT ![w] = r]
  PROVE  StoredFirst'
<1>1. PICK r : wk' = [wk EXCEPT ![w] = r] /\ r.pc # "complete"
  <2>1. CASE Return(w)
    <3>1. wk' = [wk EXCEPT ![w] = Idle] /\ Idle.pc # "complete"
      BY <2>1 DEF Return, Idle
    <3> QED  BY <3>1
  <2>2. CASE \E next \in PCs \ {"complete"} : Move(w, next)
    <3>1. PICK next \in PCs \ {"complete"} : Move(w, next)
      BY <2>2
    <3> DEFINE r == [wk[w] EXCEPT !.pc = next]
    <3>2. wk' = [wk EXCEPT ![w] = r] /\ r.pc # "complete"
      BY <3>1 DEF Move, TypeOK, Worker
    <3> QED  BY <3>2
  <2> QED  BY <2>1, <2>2
<1> QED
  BY <1>1 DEF StoredFirst, At, TypeOK

\* Every compare_and_set_status of the worker leaves outcome and status in agreement.
LEMMA CasBacked ==
  ASSUME OutcomeBacked, UNCHANGED counterexamples, NEW expected, NEW target, NEW out,
         cas(expected, target, out),
         \/ target \in {"SEARCHING", "REPLAYING", "RECOVERING", "CANCEL_REQUESTED"} /\ out = "NONE"
         \/ target = "CANCELLED" /\ out = "CANCELLED"
         \/ target = "FAILED" /\ out = "INFRA_FAILED"
         \/ /\ target = "COMPLETED"
            /\ \/ out \in {"UNCONFIRMED_CANDIDATE", "NO_VIOLATION_WITHIN_BUDGET"}
               \/ out = "CONFIRMED_VIOLATION" /\ counterexamples # {}
  PROVE  OutcomeBacked'
  BY DEF OutcomeBacked, cas

LEMMA SameBacked ==
  ASSUME OutcomeBacked, UNCHANGED <<status, outcome>>, counterexamples \subseteq counterexamples'
  PROVE  OutcomeBacked'
  BY DEF OutcomeBacked

LEMMA EntryOutcome ==
  ASSUME TypeOK, OutcomeInv, NEW w \in Workers, Begin(w) \/ Recover(w) \/ Resume(w)
  PROVE  OutcomeInv'
<1>1. UNCHANGED counterexamples
  BY DEF Begin, Recover, Resume
<1>2. StoredFirst'
  <2>1. Return(w) \/ \E next \in {"resume", "recover", "loop"} : Move(w, next)
    BY DEF Begin, Recover, Resume
  <2> QED  BY <1>1, <2>1, StoredStep DEF OutcomeInv, PCs
<1>3. OutcomeBacked'
  <2>1. CASE Begin(w)
    BY <1>1, <2>1, CasBacked, SameBacked DEF OutcomeInv, Begin
  <2>2. CASE Recover(w)
    BY <1>1, <2>2, CasBacked DEF OutcomeInv, Recover
  <2>3. CASE Resume(w)
    BY <1>1, <2>3, CasBacked, SameBacked DEF OutcomeInv, Resume
  <2> QED  BY <2>1, <2>2, <2>3
<1> QED
  BY <1>2, <1>3 DEF OutcomeInv

LEMMA LoopOutcome ==
  ASSUME TypeOK, OutcomeInv, NEW w \in Workers,
         Loop(w) \/ Pick(w) \/ After(w) \/ Prep(w) \/ Replay(w)
  PROVE  OutcomeInv'
<1>1. UNCHANGED counterexamples
  BY DEF Loop, Pick, After, Prep, Replay, storeVars
<1>2. \/ Return(w)
      \/ \E next \in PCs \ {"complete"} : Move(w, next)
      \/ \E r : r.pc # "complete" /\ wk' = [wk EXCEPT ![w] = r]
  <2>1. wk[w] \in Worker
    BY DEF TypeOK
  <2>2. CASE Loop(w)
    <3> DEFINE r == [wk[w] EXCEPT !.steps = strat[wk[w].s].used, !.pc = "pick"]
    <3>1. r.pc # "complete"
      BY <2>1 DEF Worker
    <3>2. Return(w) \/ Move(w, "finish") \/ Move(w, "fail") \/ wk' = [wk EXCEPT ![w] = r]
      BY <2>2 DEF Loop, ConfirmCancel
    <3> HIDE DEF r
    <3> QED  BY <3>1, <3>2 DEF PCs
  <2>3. CASE Pick(w)
    <3>1. PICK r : /\ wk' = [wk EXCEPT ![w] = r]
                   /\ r = [wk[w] EXCEPT !.len = ckpt[wk[w].s].len, !.ver = ckpt[wk[w].s].version,
                             !.found = status = "REPLAYING" /\ ckpt[wk[w].s].cand,
                             !.pc = IF status = "REPLAYING" /\ ckpt[wk[w].s].cand
                                    THEN "after" ELSE "search"]
      BY <2>3 DEF Pick
    <3>2. r.pc # "complete"
      BY <2>1, <3>1 DEF Worker
    <3> QED  BY <3>1, <3>2
  <2>4. CASE After(w)
    <3> DEFINE spent == [wk[w] EXCEPT !.used = wk[w].used + strat[wk[w].s].used,
                                      !.left = wk[w].left - 1]
               prep == [spent EXCEPT !.pc = "prep"]
               loop == [spent EXCEPT !.pc = "loop", !.s = wk[w].s + 1]
    <3>1. prep.pc # "complete" /\ loop.pc # "complete"
      BY <2>1 DEF Worker
    <3>2. wk' = [wk EXCEPT ![w] = prep] \/ wk' = [wk EXCEPT ![w] = loop]
      BY <2>4 DEF After
    <3> HIDE DEF prep, loop
    <3> QED  BY <3>1, <3>2
  <2>5. CASE Prep(w)
    BY <2>5 DEF Prep, ConfirmCancel, PCs
  <2>6. CASE Replay(w)
    <3> DEFINE r == [wk[w] EXCEPT !.s = wk[w].s + 1, !.unconf = TRUE,
                                  !.found = FALSE, !.pc = "loop"]
    <3>1. r.pc # "complete"
      BY <2>1 DEF Worker
    <3>2. Move(w, "persist") \/ Move(w, "fail") \/ wk' = [wk EXCEPT ![w] = r]
      BY <2>6 DEF Replay, NextStrategy
    <3> HIDE DEF r
    <3> QED  BY <3>1, <3>2 DEF PCs
  <2> QED  BY <2>2, <2>3, <2>4, <2>5, <2>6
<1>3. StoredFirst'
  BY <1>1, <1>2, StoredStep DEF OutcomeInv
<1>4. OutcomeBacked'
  <2>1. CASE Loop(w) \/ Pick(w) \/ After(w)
    BY <1>1, <2>1, CasBacked, SameBacked
       DEF OutcomeInv, Loop, ConfirmCancel, Pick, After, storeVars
  <2>2. CASE Prep(w) \/ Replay(w)
    BY <1>1, <2>2, CasBacked, SameBacked DEF OutcomeInv, Prep, ConfirmCancel, Replay
  <2> QED  BY <2>1, <2>2
<1> QED
  BY <1>3, <1>4 DEF OutcomeInv

LEMMA SearchOutcome ==
  ASSUME TypeOK, OutcomeInv, NEW w \in Workers,
         Search(w) \/ Save(w) \/ LoadMark(w) \/ Mark(w)
  PROVE  OutcomeInv'
<1>1. UNCHANGED <<status, outcome, counterexamples>>
  BY DEF Search, Save, LoadMark, Mark, storeVars
<1>2. \/ \E next \in PCs \ {"complete"} : Move(w, next)
      \/ \E r : r.pc # "complete" /\ wk' = [wk EXCEPT ![w] = r]
  <2>1. wk[w] \in Worker
    BY DEF TypeOK
  <2>2. CASE Search(w)
    <3> DEFINE r == [wk[w] EXCEPT !.steps = wk[w].steps + 1, !.pc = "save"]
    <3>1. r.pc # "complete"
      BY <2>1 DEF Worker
    <3>2. Move(w, "after") \/ Move(w, "fail") \/ Move(w, "mark") \/ wk' = [wk EXCEPT ![w] = r]
      BY <2>2 DEF Search
    <3> HIDE DEF r
    <3> QED  BY <3>1, <3>2 DEF PCs
  <2>3. CASE Save(w)
    <3> DEFINE r(next) == [wk[w] EXCEPT !.len = wk[w].len + 1, !.ver = wk[w].ver + 1, !.pc = next]
    <3>1. r("search").pc # "complete" /\ r("mark").pc # "complete"
      BY <2>1 DEF Worker
    <3>2. Move(w, "fail") \/ wk' = [wk EXCEPT ![w] = r("search")]
                          \/ wk' = [wk EXCEPT ![w] = r("mark")]
      BY <2>3 DEF Save
    <3> HIDE DEF r
    <3> QED  BY <3>1, <3>2 DEF PCs
  <2>4. CASE LoadMark(w)
    <3> DEFINE r == [wk[w] EXCEPT !.ver = ckpt[wk[w].s].version, !.pc = "marking"]
    <3>1. r.pc # "complete"
      BY <2>1 DEF Worker
    <3>2. wk' = [wk EXCEPT ![w] = r]
      BY <2>4 DEF LoadMark
    <3> HIDE DEF r
    <3> QED  BY <3>1, <3>2
  <2>5. CASE Mark(w)
    <3> DEFINE r == [wk[w] EXCEPT !.found = TRUE, !.pc = "after"]
    <3>1. r.pc # "complete"
      BY <2>1 DEF Worker
    <3>2. Move(w, "fail") \/ wk' = [wk EXCEPT ![w] = r]
      BY <2>5 DEF Mark
    <3> HIDE DEF r
    <3> QED  BY <3>1, <3>2 DEF PCs
  <2> QED  BY <2>2, <2>3, <2>4, <2>5
<1> QED
  BY <1>1, <1>2, StoredStep, SameBacked DEF OutcomeInv

\* The counterexample is stored in the step that lets the worker complete.
LEMMA PersistOutcome ==
  ASSUME TypeOK, OutcomeInv, NEW w \in Workers, Persist(w)
  PROVE  OutcomeInv'
<1>1. counterexamples \subseteq counterexamples' /\ UNCHANGED <<status, outcome>>
  BY DEF Persist
<1>2. OutcomeBacked'
  BY <1>1, SameBacked DEF OutcomeInv
<1>3. CASE counterexamples' # {}
  BY <1>2, <1>3 DEF OutcomeInv, StoredFirst
<1>4. CASE Move(w, "fail") /\ UNCHANGED counterexamples
  BY <1>2, <1>4, StoredStep DEF OutcomeInv, PCs
<1> QED
  BY <1>3, <1>4 DEF Persist

LEMMA EndOutcome ==
  ASSUME TypeOK, OutcomeInv, NEW w \in Workers, Complete(w) \/ Finish(w) \/ Fail(w)
  PROVE  OutcomeInv'
<1>1. UNCHANGED counterexamples /\ Return(w)
  BY DEF Complete, Finish, Fail
<1>2. StoredFirst'
  BY <1>1, StoredStep DEF OutcomeInv
<1>3. CASE Complete(w)
  <2>1. counterexamples # {}
    BY <1>3 DEF Complete, OutcomeInv, StoredFirst
  <2> QED  BY <1>1, <1>2, <1>3, <2>1, CasBacked DEF OutcomeInv, Complete
<1>4. CASE Finish(w)
  BY <1>1, <1>2, <1>4, CasBacked DEF OutcomeInv, Finish
<1>5. CASE Fail(w)
  BY <1>1, <1>2, <1>5, CasBacked, SameBacked DEF OutcomeInv, Fail
<1> QED
  BY <1>3, <1>4, <1>5

LEMMA WorldOutcome ==
  ASSUME TypeOK, OutcomeInv,
         \/ \E w \in Workers : Deliver(w) \/ Crash(w) \/ Lapse(w)
         \/ Enqueue \/ request_cancel \/ Expire
  PROVE  OutcomeInv'
<1>1. ASSUME NEW w \in Workers, Deliver(w)  PROVE OutcomeInv'
  <2> DEFINE r == [Idle EXCEPT !.pc = "begin", !.seen = status]
  <2>1. r.pc # "complete" /\ wk' = [wk EXCEPT ![w] = r]
    BY <1>1, IdleOK DEF Deliver, TypeOK, Worker, PCs
  <2>2. UNCHANGED <<status, outcome, counterexamples>>
    BY <1>1 DEF Deliver, storeVars
  <2> HIDE DEF r
  <2> QED  BY <2>1, <2>2, StoredStep, SameBacked DEF OutcomeInv
<1>2. ASSUME NEW w \in Workers, Crash(w)  PROVE OutcomeInv'
  BY <1>2, StoredStep, SameBacked DEF OutcomeInv, Crash, storeVars
<1>3. CASE Enqueue \/ Expire
  BY <1>3 DEF OutcomeInv, OutcomeBacked, StoredFirst, At, Enqueue, Expire, storeVars
<1>4. CASE request_cancel
  BY <1>4, CasBacked DEF OutcomeInv, StoredFirst, At, request_cancel
<1>5. ASSUME NEW w \in Workers, Lapse(w)  PROVE OutcomeInv'
  BY <1>5 DEF OutcomeInv, OutcomeBacked, StoredFirst, At, Lapse, storeVars
<1> QED
  BY <1>1, <1>2, <1>3, <1>4, <1>5

\* A run says CONFIRMED_VIOLATION only with a counterexample in the store, and has an outcome
\* exactly in a terminal status: for any number of workers, deliveries and crashes.
THEOREM OutcomesBacked == Spec => []OutcomeBacked
<1>1. Init => OutcomeInv
  BY DEF Init, OutcomeInv, OutcomeBacked, StoredFirst, At, Idle
<1>2. TypeOK /\ OutcomeInv /\ [Next]_vars => OutcomeInv'
  <2> SUFFICES ASSUME TypeOK, OutcomeInv, [Next]_vars  PROVE OutcomeInv'
    OBVIOUS
  <2>1. ASSUME NEW w \in Workers, Step(w)  PROVE OutcomeInv'
    BY <2>1, EntryOutcome, LoopOutcome, SearchOutcome, PersistOutcome, EndOutcome DEF Step
  <2>2. CASE UNCHANGED vars
    BY <2>2 DEF vars, storeVars, OutcomeInv, OutcomeBacked, StoredFirst, At
  <2> QED  BY <2>1, <2>2, WorldOutcome DEF Next
<1>3. OutcomeInv => OutcomeBacked
  BY DEF OutcomeInv
<1> QED
  BY <1>1, <1>2, <1>3, TypeCorrect, PTL DEF Spec

\* No worker, however late or stale, and no cancellation rewrites a COMPLETED or CANCELLED run:
\* every transition is a compare-and-set from another status.
THEOREM TerminalsKept == Spec => TerminalNeverOverwritten
<1> DEFINE Kept == (status \in {"COMPLETED", "CANCELLED"}) => UNCHANGED <<status, outcome>>
<1>1. [Next]_vars => Kept
  <2> SUFFICES ASSUME [Next]_vars, status \in {"COMPLETED", "CANCELLED"}
               PROVE  UNCHANGED <<status, outcome>>
    OBVIOUS
  <2>1. ASSUME NEW w \in Workers, Step(w)  PROVE UNCHANGED <<status, outcome>>
    BY <2>1
       DEF Step, Begin, Recover, Resume, Loop, Pick, Search, Save, LoadMark, Mark, After, Prep,
           Replay, Persist, Complete, Finish, Fail, ConfirmCancel, cas, storeVars, Running
  <2>2. CASE \E w \in Workers : Deliver(w) \/ Crash(w) \/ Lapse(w)
    BY <2>2 DEF Deliver, Crash, Lapse, storeVars
  <2>3. CASE Enqueue \/ request_cancel \/ Expire
    BY <2>3 DEF Enqueue, request_cancel, Expire, cas, storeVars
  <2>4. CASE UNCHANGED vars
    BY <2>4 DEF vars, storeVars
  <2> QED  BY <2>1, <2>2, <2>3, <2>4 DEF Next
<1> QED
  BY <1>1, PTL DEF Spec, TerminalNeverOverwritten

-----------------------------------------------------------------------------
(* What a worker's step does to the rows and to its own position *)

Working == {"pick", "search", "save", "mark", "marking", "after"}

\* The other workers stand where they stood; this one goes from one place to another.
Others(w) == \A v \in Workers : v # w => wk'[v] = wk[v]
Goes(w, from, to) == wk[w].pc = from /\ wk'[w].pc = to
Keeps(w) == /\ wk'[w].seen = wk[w].seen /\ wk'[w].s = wk[w].s
            /\ wk'[w].used = wk[w].used /\ wk'[w].left = wk[w].left
KeepsSteps(w) == Keeps(w) /\ wk'[w].steps = wk[w].steps
KeepsPath(w) == wk'[w].len = wk[w].len /\ wk'[w].ver = wk[w].ver

Stops(w) ==
  /\ wk'[w].pc \in {"idle", "finish", "fail"} /\ UNCHANGED <<strat, ckpt>>
  /\ wk[w].pc = "save" => ckpt[wk[w].s].version # wk[w].ver
Enters(w) ==
  /\ wk[w].pc = "begin" /\ Keeps(w) /\ UNCHANGED <<strat, ckpt>>
  /\ \/ wk'[w].pc = "recover" /\ wk[w].seen = "FAILED"
     \/ wk'[w].pc = "resume" /\ (wk[w].seen \in Running \/ Viable(0, n))
Recovers(w) ==
  /\ wk[w].pc = "recover" /\ UNCHANGED ckpt
  /\ \E S : ensure_strategy(S, remaining_budget(0, n))
  /\ wk'[w].pc \in {"idle", "resume"}
Resumes(w) == Goes(w, "resume", "loop") /\ Keeps(w) /\ UNCHANGED <<strat, ckpt>>
Takes(w) ==
  /\ Goes(w, "loop", "pick") /\ Keeps(w) /\ UNCHANGED ckpt
  /\ wk[w].s <= n /\ Viable(wk[w].used, wk[w].left)
  /\ ensure_strategy({wk[w].s}, remaining_budget(wk[w].used, wk[w].left))
  /\ wk'[w].steps = strat[wk[w].s].used
Picks(w) ==
  /\ Goes(w, "pick", "after") \/ Goes(w, "pick", "search")
  /\ KeepsSteps(w) /\ UNCHANGED ckpt
  /\ wk'[w].len = ckpt[wk[w].s].len /\ wk'[w].ver = ckpt[wk[w].s].version
  /\ UNCHANGED strat \/ update_strategy(wk[w].s, wk[w].steps)
Quits(w) ==
  /\ Goes(w, "search", "after") /\ KeepsSteps(w) /\ UNCHANGED ckpt
  /\ update_strategy(wk[w].s, wk[w].steps)
Names(w) ==
  Goes(w, "search", "mark") /\ KeepsSteps(w) /\ KeepsPath(w) /\ UNCHANGED <<strat, ckpt>>
Charges(w) ==
  /\ Goes(w, "search", "save") /\ Keeps(w) /\ KeepsPath(w) /\ UNCHANGED ckpt
  /\ wk[w].steps < strat[wk[w].s].budget
  /\ update_strategy(wk[w].s, wk[w].steps + 1) /\ wk'[w].steps = wk[w].steps + 1
Saves(w) ==
  /\ Goes(w, "save", "search") \/ Goes(w, "save", "mark")
  /\ KeepsSteps(w) /\ UNCHANGED strat
  /\ save_checkpoint(wk[w].s, wk[w].ver, [version |-> wk[w].ver + 1, len |-> wk[w].len + 1,
                                          cand |-> FALSE])
  /\ wk'[w].len = wk[w].len + 1 /\ wk'[w].ver = wk[w].ver + 1
Loads(w) ==
  /\ Goes(w, "mark", "marking") /\ KeepsSteps(w) /\ UNCHANGED <<strat, ckpt>>
  /\ wk'[w].len = wk[w].len /\ wk'[w].ver = ckpt[wk[w].s].version
Marks(w) ==
  /\ Goes(w, "marking", "after") /\ KeepsSteps(w)
  /\ save_checkpoint(wk[w].s, wk[w].ver, [version |-> wk[w].ver + 1,
                                          len |-> ckpt[wk[w].s].len, cand |-> TRUE])
  /\ update_strategy(wk[w].s, wk[w].steps)
Spends(w) ==
  /\ \/ Goes(w, "after", "prep") /\ wk'[w].s = wk[w].s
     \/ Goes(w, "after", "loop") /\ wk'[w].s = wk[w].s + 1
  /\ wk'[w].used = wk[w].used + strat[wk[w].s].used /\ wk'[w].left = wk[w].left - 1
  /\ wk'[w].seen = wk[w].seen /\ UNCHANGED <<strat, ckpt>>
Replays(w) ==
  wk[w].pc \in Spent /\ wk'[w].pc \in Spent /\ Keeps(w) /\ UNCHANGED <<strat, ckpt>>
Refutes(w) ==
  /\ Goes(w, "replay", "loop") /\ UNCHANGED <<strat, ckpt>>
  /\ wk'[w].s = wk[w].s + 1 /\ wk'[w].used = wk[w].used /\ wk'[w].left = wk[w].left
  /\ wk'[w].seen = wk[w].seen

View(w) ==
  \/ Stops(w) \/ Enters(w) \/ Recovers(w) \/ Resumes(w) \/ Takes(w) \/ Picks(w) \/ Quits(w)
  \/ Names(w) \/ Charges(w) \/ Saves(w) \/ Loads(w) \/ Marks(w) \/ Spends(w) \/ Replays(w)
  \/ Refutes(w)

LEMMA ReturnView ==
  ASSUME TInv, NEW w \in Workers, Return(w)
  PROVE  Others(w) /\ wk'[w].pc = "idle"
  BY DEF Return, Others, Idle, TInv, TypeOK

LEMMA MoveView ==
  ASSUME TInv, NEW w \in Workers, NEW next, Move(w, next)
  PROVE  Others(w) /\ wk'[w].pc = next /\ KeepsSteps(w) /\ KeepsPath(w)
<1>1. wk[w] \in Worker /\ wk'[w] = [wk[w] EXCEPT !.pc = next]
  BY DEF Move, TInv, TypeOK
<1>2. Others(w)
  BY DEF Others, Move, TInv, TypeOK
<1> QED
  BY <1>1, <1>2 DEF Worker, KeepsSteps, Keeps, KeepsPath

\* A worker's step is one of these, and only the worker moves.
LEMMA EntryView ==
  ASSUME TInv, NEW w \in Workers, Begin(w) \/ Recover(w) \/ Resume(w)
  PROVE  View(w) /\ Others(w)
<1>1. CASE Begin(w)
  <2>1. /\ wk[w].pc = "begin" /\ UNCHANGED <<strat, ckpt>>
        /\ \/ Return(w)
           \/ Move(w, "recover") /\ wk[w].seen = "FAILED"
           \/ Move(w, "resume") /\ (wk[w].seen \in Running \/ Viable(0, n))
    BY <1>1 DEF Begin, At
  <2>2. Others(w) /\ (Stops(w) \/ Enters(w))
    BY <2>1, ReturnView, MoveView DEF Stops, Enters, KeepsSteps
  <2> QED  BY <2>2 DEF View
<1>2. CASE Recover(w)
  <2>1. /\ wk[w].pc = "recover" /\ UNCHANGED ckpt /\ (Return(w) \/ Move(w, "resume"))
        /\ \E S : ensure_strategy(S, remaining_budget(0, n))
    BY <1>2 DEF Recover, At
  <2>2. Others(w) /\ Recovers(w)
    BY <2>1, ReturnView, MoveView DEF Recovers
  <2> QED  BY <2>2 DEF View
<1>3. CASE Resume(w)
  <2>1. wk[w].pc = "resume" /\ UNCHANGED <<strat, ckpt>> /\ (Return(w) \/ Move(w, "loop"))
    BY <1>3 DEF Resume, At
  <2>2. Others(w) /\ (Stops(w) \/ Resumes(w))
    BY <2>1, ReturnView, MoveView DEF Stops, Resumes, Goes, KeepsSteps
  <2> QED  BY <2>2 DEF View
<1> QED
  BY <1>1, <1>2, <1>3

LEMMA LoopView ==
  ASSUME TInv, NEW w \in Workers, Loop(w) \/ Pick(w)
  PROVE  View(w) /\ Others(w)
<1>0. wk[w] \in Worker
  BY DEF TInv, TypeOK
<1>1. CASE Loop(w)
  <2> DEFINE r == [wk[w] EXCEPT !.steps = strat[wk[w].s].used, !.pc = "pick"]
  <2>1. wk[w].pc = "loop" /\ UNCHANGED ckpt
    BY <1>1 DEF Loop, At
  <2>2. CASE (Return(w) \/ Move(w, "finish") \/ Move(w, "fail")) /\ UNCHANGED strat
    <3>1. Others(w) /\ Stops(w)
      BY <2>1, <2>2, ReturnView, MoveView DEF Stops
    <3> QED  BY <3>1 DEF View
  <2>3. CASE /\ wk[w].s <= n /\ Viable(wk[w].used, wk[w].left)
             /\ ensure_strategy({wk[w].s}, remaining_budget(wk[w].used, wk[w].left))
             /\ wk' = [wk EXCEPT ![w] = r]
    <3>1. Others(w) /\ wk'[w] = r
      BY <2>3 DEF Others, TInv, TypeOK
    <3>2. r.pc = "pick" /\ r.steps = strat[wk[w].s].used /\ r.seen = wk[w].seen
          /\ r.s = wk[w].s /\ r.used = wk[w].used /\ r.left = wk[w].left
      BY <1>0 DEF Worker
    <3> HIDE DEF r
    <3>3. Takes(w)
      BY <2>1, <2>3, <3>1, <3>2 DEF Takes, Goes, Keeps
    <3> QED  BY <3>1, <3>3 DEF View
  <2> QED  BY <1>1, <2>2, <2>3 DEF Loop, ConfirmCancel
<1>2. CASE Pick(w)
  <2> DEFINE pending == status = "REPLAYING" /\ ckpt[wk[w].s].cand
             next == IF pending THEN "after" ELSE "search"
             r == [wk[w] EXCEPT !.len = ckpt[wk[w].s].len, !.ver = ckpt[wk[w].s].version,
                                !.found = pending, !.pc = next]
  <2>1. /\ wk[w].pc = "pick" /\ UNCHANGED ckpt
        /\ wk' = [wk EXCEPT ![w] = r]
        /\ UNCHANGED strat \/ update_strategy(wk[w].s, wk[w].steps)
    BY <1>2 DEF Pick, At
  <2>2. Others(w) /\ wk'[w] = r
    BY <2>1 DEF Others, TInv, TypeOK
  <2>3. next \in {"after", "search"}
    OBVIOUS
  <2> HIDE DEF pending, next
  <2>4. r.pc = next /\ r.len = ckpt[wk[w].s].len /\ r.ver = ckpt[wk[w].s].version
        /\ r.seen = wk[w].seen /\ r.s = wk[w].s /\ r.used = wk[w].used /\ r.left = wk[w].left
        /\ r.steps = wk[w].steps
    BY <1>0 DEF Worker
  <2> HIDE DEF r
  <2>5. Picks(w)
    BY <2>1, <2>2, <2>3, <2>4 DEF Picks, Goes, KeepsSteps, Keeps
  <2> QED  BY <2>2, <2>5 DEF View
<1> QED
  BY <1>1, <1>2

LEMMA SearchView ==
  ASSUME TInv, NEW w \in Workers, Search(w) \/ Save(w)
  PROVE  View(w) /\ Others(w)
<1>0. wk[w] \in Worker
  BY DEF TInv, TypeOK
<1>1. CASE Search(w)
  <2> DEFINE r == [wk[w] EXCEPT !.steps = wk[w].steps + 1, !.pc = "save"]
  <2>1. wk[w].pc = "search" /\ UNCHANGED ckpt
    BY <1>1 DEF Search, At
  <2>2. CASE Move(w, "after") /\ update_strategy(wk[w].s, wk[w].steps)
    <3>1. Others(w) /\ Quits(w)
      BY <2>1, <2>2, MoveView DEF Quits, Goes
    <3> QED  BY <3>1 DEF View
  <2>3. CASE Move(w, "fail") /\ UNCHANGED strat
    <3>1. Others(w) /\ Stops(w)
      BY <2>1, <2>3, MoveView DEF Stops
    <3> QED  BY <3>1 DEF View
  <2>4. CASE Move(w, "mark") /\ UNCHANGED strat
    <3>1. Others(w) /\ Names(w)
      BY <2>1, <2>4, MoveView DEF Names, Goes
    <3> QED  BY <3>1 DEF View
  <2>5. CASE /\ GoesOn(w) /\ update_strategy(wk[w].s, wk[w].steps + 1)
             /\ wk' = [wk EXCEPT ![w] = r]
    <3>1. Others(w) /\ wk'[w] = r
      BY <2>5 DEF Others, TInv, TypeOK
    <3>2. r.pc = "save" /\ r.steps = wk[w].steps + 1 /\ r.seen = wk[w].seen
          /\ r.s = wk[w].s /\ r.used = wk[w].used /\ r.left = wk[w].left
          /\ r.len = wk[w].len /\ r.ver = wk[w].ver
      BY <1>0 DEF Worker
    <3> HIDE DEF r
    <3>3. Charges(w)
      BY <2>1, <2>5, <3>1, <3>2 DEF Charges, Goes, Keeps, KeepsPath, GoesOn
    <3> QED  BY <3>1, <3>3 DEF View
  <2> QED  BY <1>1, <2>2, <2>3, <2>4, <2>5 DEF Search
<1>2. CASE Save(w)
  <2> DEFINE r(next) == [wk[w] EXCEPT !.len = wk[w].len + 1, !.ver = wk[w].ver + 1, !.pc = next]
             row == [version |-> wk[w].ver + 1, len |-> wk[w].len + 1, cand |-> FALSE]
  <2>1. wk[w].pc = "save" /\ UNCHANGED strat
    BY <1>2 DEF Save, At
  <2>2. CASE ckpt[wk[w].s].version # wk[w].ver /\ Move(w, "fail") /\ UNCHANGED ckpt
    <3>1. Others(w) /\ Stops(w)
      BY <2>1, <2>2, MoveView DEF Stops
    <3> QED  BY <3>1 DEF View
  <2>3. ASSUME NEW next \in {"search", "mark"}, save_checkpoint(wk[w].s, wk[w].ver, row),
               wk' = [wk EXCEPT ![w] = r(next)]
        PROVE  View(w) /\ Others(w)
    <3>1. Others(w) /\ wk'[w] = r(next)
      BY <2>3 DEF Others, TInv, TypeOK
    <3>2. r(next).pc = next /\ r(next).steps = wk[w].steps /\ r(next).seen = wk[w].seen
          /\ r(next).s = wk[w].s /\ r(next).used = wk[w].used /\ r(next).left = wk[w].left
          /\ r(next).len = wk[w].len + 1 /\ r(next).ver = wk[w].ver + 1
      BY <1>0 DEF Worker
    <3> HIDE DEF r
    <3>3. Saves(w)
      BY <2>1, <2>3, <3>1, <3>2 DEF Saves, Goes, KeepsSteps, Keeps
    <3> QED  BY <3>1, <3>3 DEF View
  <2> QED  BY <1>2, <2>2, <2>3 DEF Save
<1> QED
  BY <1>1, <1>2

LEMMA MarkView ==
  ASSUME TInv, NEW w \in Workers, LoadMark(w) \/ Mark(w)
  PROVE  View(w) /\ Others(w)
<1>0. wk[w] \in Worker
  BY DEF TInv, TypeOK
<1>1. CASE LoadMark(w)
  <2> DEFINE r == [wk[w] EXCEPT !.ver = ckpt[wk[w].s].version, !.pc = "marking"]
  <2>1. wk[w].pc = "mark" /\ UNCHANGED <<strat, ckpt>> /\ wk' = [wk EXCEPT ![w] = r]
    BY <1>1 DEF LoadMark, At, storeVars
  <2>2. Others(w) /\ wk'[w] = r
    BY <2>1 DEF Others, TInv, TypeOK
  <2>3. r.pc = "marking" /\ r.steps = wk[w].steps /\ r.seen = wk[w].seen
        /\ r.s = wk[w].s /\ r.used = wk[w].used /\ r.left = wk[w].left
        /\ r.len = wk[w].len /\ r.ver = ckpt[wk[w].s].version
    BY <1>0 DEF Worker
  <2> HIDE DEF r
  <2>4. Loads(w)
    BY <2>1, <2>2, <2>3 DEF Loads, Goes, KeepsSteps, Keeps
  <2> QED  BY <2>2, <2>4 DEF View
<1>2. CASE Mark(w)
  <2> DEFINE r == [wk[w] EXCEPT !.found = TRUE, !.pc = "after"]
             row == [version |-> wk[w].ver + 1, len |-> ckpt[wk[w].s].len, cand |-> TRUE]
  <2>1. wk[w].pc = "marking"
    BY <1>2 DEF Mark, At
  <2>2. CASE Move(w, "fail") /\ UNCHANGED <<ckpt, strat>>
    <3>1. Others(w) /\ Stops(w)
      BY <2>1, <2>2, MoveView DEF Stops
    <3> QED  BY <3>1 DEF View
  <2>3. CASE /\ save_checkpoint(wk[w].s, wk[w].ver, row) /\ update_strategy(wk[w].s, wk[w].steps)
             /\ wk' = [wk EXCEPT ![w] = r]
    <3>1. Others(w) /\ wk'[w] = r
      BY <2>3 DEF Others, TInv, TypeOK
    <3>2. r.pc = "after" /\ r.steps = wk[w].steps /\ r.seen = wk[w].seen
          /\ r.s = wk[w].s /\ r.used = wk[w].used /\ r.left = wk[w].left
      BY <1>0 DEF Worker
    <3> HIDE DEF r
    <3>3. Marks(w)
      BY <2>1, <2>3, <3>1, <3>2 DEF Marks, Goes, KeepsSteps, Keeps
    <3> QED  BY <3>1, <3>3 DEF View
  <2> QED  BY <1>2, <2>2, <2>3 DEF Mark
<1> QED
  BY <1>1, <1>2

LEMMA ReplayView ==
  ASSUME TInv, NEW w \in Workers,
         After(w) \/ Prep(w) \/ Replay(w) \/ Persist(w) \/ Complete(w) \/ Finish(w) \/ Fail(w)
  PROVE  View(w) /\ Others(w)
<1>0. wk[w] \in Worker
  BY DEF TInv, TypeOK
<1>1. CASE After(w)
  <2> DEFINE used == wk[w].used + strat[wk[w].s].used
             left == wk[w].left - 1
             spent == [wk[w] EXCEPT !.used = used, !.left = left]
             prep == [spent EXCEPT !.pc = "prep"]
             loop == [spent EXCEPT !.pc = "loop", !.s = wk[w].s + 1]
  <2>1. /\ wk[w].pc = "after" /\ UNCHANGED <<strat, ckpt>>
        /\ wk' = [wk EXCEPT ![w] = prep] \/ wk' = [wk EXCEPT ![w] = loop]
    BY <1>1 DEF After, At, storeVars
  <2>2. Others(w) /\ (wk'[w] = prep \/ wk'[w] = loop)
    BY <2>1 DEF Others, TInv, TypeOK
  <2> HIDE DEF used, left
  <2>3. prep.pc = "prep" /\ prep.seen = wk[w].seen /\ prep.s = wk[w].s
        /\ prep.used = used /\ prep.left = left
    BY <1>0 DEF Worker
  <2>4. loop.pc = "loop" /\ loop.seen = wk[w].seen /\ loop.s = wk[w].s + 1
        /\ loop.used = used /\ loop.left = left
    BY <1>0 DEF Worker
  <2> HIDE DEF prep, loop
  <2>5. Spends(w)
    BY <2>1, <2>2, <2>3, <2>4 DEF Spends, Goes, used, left
  <2> QED  BY <2>2, <2>5 DEF View
<1>2. CASE Prep(w) \/ Persist(w) \/ Complete(w) \/ Finish(w) \/ Fail(w)
  <2>1. /\ UNCHANGED <<strat, ckpt>> /\ wk[w].pc # "save"
        /\ \/ Return(w)
           \/ Move(w, "fail")
           \/ wk[w].pc \in Spent /\ (Move(w, "replay") \/ Move(w, "complete"))
    BY <1>2 DEF Prep, Persist, Complete, Finish, Fail, ConfirmCancel, At, Spent
  <2>2. Others(w) /\ (Stops(w) \/ Replays(w))
    BY <2>1, ReturnView, MoveView DEF Stops, Replays, KeepsSteps, Spent
  <2> QED  BY <2>2 DEF View
<1>3. CASE Replay(w)
  <2> DEFINE r == [wk[w] EXCEPT !.s = wk[w].s + 1, !.unconf = TRUE, !.found = FALSE, !.pc = "loop"]
  <2>1. /\ UNCHANGED <<strat, ckpt>> /\ wk[w].pc = "replay"
        /\ Move(w, "fail") \/ Move(w, "persist") \/ wk' = [wk EXCEPT ![w] = r]
    BY <1>3 DEF Replay, At, NextStrategy
  <2>2. CASE Move(w, "fail") \/ Move(w, "persist")
    <3>1. Others(w) /\ (Stops(w) \/ Replays(w))
      BY <2>1, <2>2, MoveView DEF Stops, Replays, KeepsSteps, Spent
    <3> QED  BY <3>1 DEF View
  <2>3. CASE wk' = [wk EXCEPT ![w] = r]
    <3>1. Others(w) /\ wk'[w] = r
      BY <2>3 DEF Others, TInv, TypeOK
    <3>2. r.pc = "loop" /\ r.seen = wk[w].seen /\ r.s = wk[w].s + 1
          /\ r.used = wk[w].used /\ r.left = wk[w].left
      BY <1>0 DEF Worker
    <3> HIDE DEF r
    <3>3. Refutes(w)
      BY <2>1, <3>1, <3>2 DEF Refutes, Goes
    <3> QED  BY <3>1, <3>3 DEF View
  <2> QED  BY <2>1, <2>2, <2>3
<1> QED
  BY <1>1, <1>2, <1>3

LEMMA StepView ==
  ASSUME TInv, NEW w \in Workers, Step(w)
  PROVE  /\ View(w) /\ Others(w)
         /\ UNCHANGED <<total, queued, enqueues, crashes>>
<1>1. View(w) /\ Others(w)
  BY EntryView, LoopView, SearchView, MarkView, ReplayView DEF Step
<1>2. UNCHANGED <<total, queued, enqueues, crashes>>
  BY DEF Step, Begin, Recover, Resume, Loop, Pick, Search, Save, LoadMark, Mark, After, Prep,
         Replay, Persist, Complete, Finish, Fail, storeVars, otherVars, queueVars
<1> QED
  BY <1>1, <1>2

-----------------------------------------------------------------------------
(* Shares: no strategy exceeds its own *)

StratRow == [exists : BOOLEAN, budget : Nat, used : Nat]

WithinShare == \A s \in Strategies :
  strat[s].used <= strat[s].budget /\ (~strat[s].exists => strat[s].used = 0)

\* A worker at a strategy has its row, and its own count of the steps is within the share: so
\* is what it writes back, even over what another worker wrote meanwhile.
SharesOK ==
  /\ WithinShare
  /\ \A w \in Workers : wk[w].pc \in Working =>
       strat[wk[w].s].exists /\ wk[w].steps <= strat[wk[w].s].budget

\* A row that is there stays and keeps its budget.
RowsKept == \A s \in Strategies :
  strat[s].exists => strat'[s].exists /\ strat'[s].budget = strat[s].budget

LEMMA RowType ==
  ASSUME TInv, NEW s \in Strategies
  PROVE  strat[s] \in StratRow
  BY DEF TInv, TypeOK, StratRow

LEMMA UpdateRows ==
  ASSUME TInv, WithinShare, NEW s \in Strategies, strat[s].exists,
         NEW steps \in Nat, steps <= strat[s].budget, update_strategy(s, steps)
  PROVE  /\ WithinShare' /\ RowsKept /\ strat'[s].used = steps
         /\ \A t \in Strategies : t # s => strat'[t] = strat[t]
<1>1. strat[s] \in StratRow
  BY RowType
<1>2. /\ strat'[s] = [strat[s] EXCEPT !.used = steps]
      /\ \A t \in Strategies : t # s => strat'[t] = strat[t]
  BY DEF update_strategy, TInv, TypeOK
<1>3. strat'[s].used = steps /\ strat'[s].budget = strat[s].budget
      /\ strat'[s].exists = strat[s].exists
  BY <1>1, <1>2 DEF StratRow
<1>4. ASSUME NEW t \in Strategies
      PROVE  /\ strat'[t].used <= strat'[t].budget /\ (~strat'[t].exists => strat'[t].used = 0)
             /\ strat[t].exists => strat'[t].exists /\ strat'[t].budget = strat[t].budget
  <2>1. CASE t = s
    BY <1>3, <2>1
  <2>2. CASE t # s
    BY <1>2, <2>2 DEF WithinShare
  <2> QED  BY <2>1, <2>2
<1> QED
  BY <1>2, <1>3, <1>4 DEF WithinShare, RowsKept

LEMMA EnsureRows ==
  ASSUME TInv, WithinShare, NEW S, NEW budget \in Nat, ensure_strategy(S, budget)
  PROVE  /\ WithinShare' /\ RowsKept
         /\ \A s \in Strategies : strat'[s].used = strat[s].used
         /\ \A s \in Strategies \cap S : /\ strat'[s].exists
                                         /\ ~strat[s].exists => strat'[s].budget = budget
         /\ \A s \in Strategies \ S : strat'[s] = strat[s]
<1> DEFINE row == [exists |-> TRUE, budget |-> budget, used |-> 0]
<1>1. \A s \in Strategies : strat'[s] = IF s \in S /\ ~strat[s].exists THEN row ELSE strat[s]
  BY DEF ensure_strategy
<1>2. row.exists /\ row.budget = budget /\ row.used = 0
  OBVIOUS
<1> HIDE DEF row
<1>3. ASSUME NEW s \in Strategies
      PROVE  /\ strat'[s].used <= strat'[s].budget /\ (~strat'[s].exists => strat'[s].used = 0)
             /\ strat[s].exists => strat'[s].exists /\ strat'[s].budget = strat[s].budget
             /\ strat'[s].used = strat[s].used
             /\ s \in S => strat'[s].exists /\ (~strat[s].exists => strat'[s].budget = budget)
             /\ s \notin S => strat'[s] = strat[s]
  <2>1. CASE s \in S /\ ~strat[s].exists
    <3>1. strat'[s] = row
      BY <1>1, <2>1
    <3> QED  BY <1>2, <2>1, <3>1 DEF WithinShare
  <2>2. CASE ~(s \in S /\ ~strat[s].exists)
    <3>1. strat'[s] = strat[s]
      BY <1>1, <2>2
    <3> QED  BY <2>2, <3>1 DEF WithinShare
  <2> QED  BY <2>1, <2>2
<1> QED
  BY <1>3 DEF WithinShare, RowsKept

LEMMA SameRows ==
  ASSUME WithinShare, UNCHANGED strat
  PROVE  WithinShare' /\ RowsKept
  BY DEF WithinShare, RowsKept

\* The shares other workers rely on are kept by any step that keeps the rows.
LEMMA SharesKept ==
  ASSUME TInv, SharesOK, NEW w \in Workers, Others(w), WithinShare', RowsKept,
         wk'[w].pc \in Working =>
           strat'[wk'[w].s].exists /\ wk'[w].steps <= strat'[wk'[w].s].budget
  PROVE  SharesOK'
<1>1. ASSUME NEW v \in Workers, wk'[v].pc \in Working
      PROVE  strat'[wk'[v].s].exists /\ wk'[v].steps <= strat'[wk'[v].s].budget
  <2>1. CASE v = w
    BY <1>1, <2>1
  <2>2. CASE v # w
    <3>1. wk'[v] = wk[v]
      BY <2>2 DEF Others
    <3>2. wk[v].s \in Strategies
      BY <1>1, <3>1, AtStrategy DEF Working, InLoop
    <3> QED  BY <1>1, <3>1, <3>2 DEF SharesOK, RowsKept
  <2> QED  BY <2>1, <2>2
<1> QED
  BY <1>1 DEF SharesOK

LEMMA ShareType ==
  ASSUME TInv, NEW used \in Nat, NEW parts \in Nat \ {0}, Viable(used, parts)
  PROVE  remaining_budget(used, parts) \in Nat
<1>1. total - used \in Nat
  BY DEF TInv, TypeOK, Viable, MIN_VIABLE_STRATEGY_STEPS
<1> QED
  BY <1>1 DEF remaining_budget

LEMMA WholeShareType ==
  ASSUME TInv
  PROVE  remaining_budget(0, n) \in Nat
<1>1. total - 0 = total /\ total \in Nat
  BY DEF TInv, TypeOK
<1> QED
  BY <1>1, StrategiesAssumption DEF remaining_budget

LEMMA SharesView ==
  ASSUME TInv, SharesOK, NEW w \in Workers, View(w), Others(w)
  PROVE  SharesOK'
<1> DEFINE s == wk[w].s
<1>1. WithinShare
  BY DEF SharesOK
<1>2. wk[w].pc \in Working => /\ s \in Strategies /\ wk[w].steps \in Nat
                              /\ strat[s] \in StratRow /\ strat[s].exists
                              /\ wk[w].steps <= strat[s].budget
  <2>1. wk[w].pc \in Working => wk[w] \in Worker /\ s \in Strategies
    BY AtStrategy DEF Working, InLoop
  <2> QED  BY <2>1, RowType DEF SharesOK, Worker
<1>3. CASE /\ UNCHANGED strat
           /\ \/ wk'[w].pc \notin Working
              \/ wk[w].pc \in Working /\ KeepsSteps(w)
  BY <1>1, <1>2, <1>3, SameRows, SharesKept DEF KeepsSteps, Keeps
<1>4. CASE /\ wk[w].pc \in Working /\ KeepsSteps(w)
           /\ update_strategy(s, wk[w].steps)
  <2>1. WithinShare' /\ RowsKept
    BY <1>1, <1>2, <1>4, UpdateRows
  <2>2. strat'[s].exists /\ strat'[s].budget = strat[s].budget
    BY <1>2, <1>4, <2>1 DEF RowsKept
  <2> HIDE DEF s
  <2> QED  BY <1>2, <1>4, <2>1, <2>2, SharesKept DEF KeepsSteps, Keeps, s
<1>5. CASE Charges(w)
  <2>1. wk[w].pc = "search" /\ wk'[w].s = s /\ wk'[w].steps = wk[w].steps + 1
    BY <1>5 DEF Charges, Goes, Keeps
  <2>2. s \in Strategies /\ wk[w].steps + 1 \in Nat /\ strat[s].exists
        /\ wk[w].steps + 1 <= strat[s].budget
    BY <1>2, <1>5, <2>1 DEF Charges, Working, StratRow
  <2>3. WithinShare' /\ RowsKept
    BY <1>1, <1>5, <2>2, UpdateRows DEF Charges
  <2>4. strat'[s].exists /\ strat'[s].budget = strat[s].budget
    BY <2>2, <2>3 DEF RowsKept
  <2> QED  BY <2>1, <2>2, <2>3, <2>4, SharesKept
<1>6. CASE Takes(w)
  <2>1. wk[w] \in Worker /\ LoopOK(wk[w]) /\ wk[w].pc = "loop" /\ s <= n /\ wk'[w].s = s
    BY <1>6 DEF TInv, WorkersOK, Takes, Goes, Keeps
  <2>2. s \in Strategies /\ wk[w].left \in Nat \ {0} /\ wk[w].used \in Nat
    BY <2>1, StrategiesAssumption DEF Worker, LoopOK, Counted, Strategies
  <2>3. remaining_budget(wk[w].used, wk[w].left) \in Nat
    BY <1>6, <2>2, ShareType DEF Takes
  <2>4. /\ WithinShare' /\ RowsKept /\ strat'[s].exists
        /\ strat'[s].used = strat[s].used
    BY <1>1, <1>6, <2>2, <2>3, EnsureRows DEF Takes
  <2>5. wk'[w].steps <= strat'[s].budget
    BY <1>6, <2>2, <2>4 DEF Takes, WithinShare
  <2> QED  BY <2>1, <2>4, <2>5, SharesKept
<1>7. CASE Recovers(w)
  <2>1. WithinShare' /\ RowsKept
    BY <1>1, <1>7, WholeShareType, EnsureRows DEF Recovers
  <2> QED  BY <1>7, <2>1, SharesKept DEF Recovers, Working
<1>8. CASE Stops(w) \/ Enters(w) \/ Resumes(w) \/ Names(w) \/ Loads(w) \/ Spends(w)
             \/ Replays(w) \/ Refutes(w)
  BY <1>3, <1>8 DEF Stops, Enters, Resumes, Names, Loads, Spends, Replays, Refutes, Goes,
                    Working, Spent
<1>9. CASE Picks(w) \/ Quits(w) \/ Saves(w) \/ Marks(w)
  BY <1>3, <1>4, <1>9 DEF Picks, Quits, Saves, Marks, Goes, Working
<1> QED
  BY <1>5, <1>6, <1>7, <1>8, <1>9 DEF View

\* Deliveries, crashes and lapses, and what happens outside the workers.
LEMMA SharesWorld ==
  ASSUME TInv, SharesOK, UNCHANGED strat,
         \/ UNCHANGED wk
         \/ \E w \in Workers : Others(w) /\ wk'[w].pc \notin Working
  PROVE  SharesOK'
<1>1. CASE UNCHANGED wk
  BY <1>1 DEF SharesOK, WithinShare
<1>2. ASSUME NEW w \in Workers, Others(w), wk'[w].pc \notin Working  PROVE SharesOK'
  BY <1>2, SameRows, SharesKept DEF SharesOK
<1> QED
  BY <1>1, <1>2

\* A delivery starts a worker from the beginning; a crash stops it.
LEMMA DeliverView ==
  ASSUME TInv, NEW w \in Workers, Deliver(w)
  PROVE  /\ Others(w) /\ UNCHANGED <<strat, ckpt, total, crashes, enqueues>>
         /\ wk'[w].pc = "begin" /\ wk'[w].seen = status /\ wk'[w].s = 1 /\ wk'[w].used = 0
<1> DEFINE r == [Idle EXCEPT !.pc = "begin", !.seen = status]
<1>1. wk' = [wk EXCEPT ![w] = r] /\ UNCHANGED <<strat, ckpt, total, crashes, enqueues>>
  BY DEF Deliver, storeVars
<1>2. Others(w) /\ wk'[w] = r
  BY <1>1 DEF Others, TInv, TypeOK
<1>3. r.pc = "begin" /\ r.seen = status /\ r.s = 1 /\ r.used = 0
  BY DEF Idle
<1> HIDE DEF r
<1> QED
  BY <1>1, <1>2, <1>3

LEMMA SharesStep ==
  ASSUME TInv, SharesOK, [Next]_vars
  PROVE  SharesOK'
<1>1. ASSUME NEW w \in Workers, Step(w)  PROVE SharesOK'
  BY <1>1, StepView, SharesView
<1>2. ASSUME NEW w \in Workers, Deliver(w)  PROVE SharesOK'
  BY <1>2, DeliverView, SharesWorld DEF Working
<1>3. ASSUME NEW w \in Workers, Crash(w)  PROVE SharesOK'
  BY <1>3, ReturnView, SharesWorld DEF Crash, storeVars, Working
<1>4. ASSUME NEW w \in Workers, Lapse(w)  PROVE SharesOK'
  BY <1>4, SharesWorld DEF Lapse, storeVars
<1>5. CASE Enqueue \/ request_cancel \/ Expire \/ UNCHANGED vars
  BY <1>5, SharesWorld DEF Enqueue, request_cancel, Expire, vars, storeVars
<1> QED
  BY <1>1, <1>2, <1>3, <1>4, <1>5 DEF Next

LEMMA SharesInit == Init => SharesOK
<1> SUFFICES ASSUME Init  PROVE SharesOK
  OBVIOUS
<1>1. \A s \in Strategies : strat[s].used = 0 /\ strat[s].budget = 0
  BY DEF Init
<1>2. \A w \in Workers : wk[w].pc = "idle"
  BY DEF Init, Idle
<1> QED
  BY <1>1, <1>2 DEF SharesOK, WithinShare, Working

\* No strategy is charged beyond the share its first caller fixed, for any number of workers:
\* whatever a stale worker writes back is within that share too.
THEOREM SharesInvariant == Spec => []SharesOK
<1>1. TInv /\ SharesOK /\ [Next]_vars => SharesOK'
  BY SharesStep
<1> QED
  BY <1>1, SharesInit, TypedAlways, PTL DEF Spec

-----------------------------------------------------------------------------
(* The split: within one delivery the shares add up to the run's budget *)

UsedSteps == [s \in Strategies |-> strat[s].used]

LEMMA StrategiesFinite == IsFiniteSet(Strategies)
  BY FS_Interval, StrategiesAssumption DEF Strategies

LEMMA StepsSummable ==
  ASSUME TInv
  PROVE  SummableFunction(UsedSteps) /\ StepsUsed = SumFunction(UsedSteps) /\ StepsUsed \in Int
<1>1. \A s \in Strategies : strat[s].used \in Nat
  BY RowType DEF StratRow
<1>2. SummableFunction(UsedSteps)
  BY <1>1, StrategiesFinite DEF SummableFunction, Summable, UsedSteps
<1>3. StepsUsed = SumFunction(UsedSteps)
  BY DEF StepsUsed, UsedSteps
<1> QED
  BY <1>2, <1>3, SumFunctionType

\* Charging one strategy changes the sum by as much.
LEMMA StepsUsedUpdate ==
  ASSUME TInv, TInv', NEW s \in Strategies,
         \A t \in Strategies : t # s => strat'[t].used = strat[t].used
  PROVE  StepsUsed' = StepsUsed + (strat'[s].used - strat[s].used)
<1> DEFINE f == UsedSteps
           e == UsedSteps'
<1>1. /\ SummableFunction(f) /\ StepsUsed = SumFunction(f) /\ StepsUsed' = SumFunction(e)
  BY StepsSummable DEF StepsUsed, UsedSteps
<1>2. /\ DOMAIN e = DOMAIN f /\ s \in DOMAIN f /\ e[s] = strat'[s].used /\ f[s] = strat[s].used
      /\ \A t \in DOMAIN f : t # s => e[t] = f[t]
  BY DEF UsedSteps
<1>3. e[s] \in Int
  <2>1. strat'[s] \in StratRow
    BY DEF TInv, TypeOK, StratRow
  <2> QED  BY <1>2, <2>1 DEF StratRow
<1> HIDE DEF f, e
<1>4. SumFunction(e) = SumFunction(f) + (e[s] - f[s])
  BY <1>1, <1>2, <1>3, SumFunctionUpdate
<1> QED
  BY <1>1, <1>2, <1>4

LEMMA StepsUsedSame ==
  ASSUME TInv, \A t \in Strategies : strat'[t].used = strat[t].used
  PROVE  StepsUsed' = StepsUsed
<1> DEFINE f == UsedSteps
           e == UsedSteps'
<1>1. /\ SummableFunction(f) /\ StepsUsed = SumFunction(f) /\ StepsUsed' = SumFunction(e)
  BY StepsSummable DEF StepsUsed, UsedSteps
<1>2. DOMAIN e = DOMAIN f /\ \A t \in DOMAIN f : e[t] = f[t]
  BY DEF UsedSteps
<1> HIDE DEF f, e
<1> QED
  BY <1>1, <1>2, SumFunctionSame

LEMMA StepsUsedZero ==
  ASSUME \A t \in Strategies : strat[t].used = 0
  PROVE  StepsUsed = 0
<1> DEFINE f == UsedSteps
<1>1. StepsUsed = SumFunctionOnSet(f, DOMAIN f)
  BY DEF StepsUsed, SumFunction, UsedSteps
<1>2. IsFiniteSet(DOMAIN f) /\ \A t \in DOMAIN f : f[t] = 0
  BY StrategiesFinite DEF UsedSteps
<1> HIDE DEF f
<1> QED
  BY <1>1, <1>2, SumZero

\* A strategy that stays within its part leaves every other strategy a viable part.
LEMMA Cancels ==
  ASSUME NEW k \in Nat \ {0}, NEW a \in Int, NEW b \in Int, k * a >= k * b
  PROVE  a >= b
  OBVIOUS

LEMMA SplitArithmetic ==
  ASSUME NEW rest \in Nat, NEW k \in Nat \ {0}, rest >= 2 * k, NEW x \in Nat, x <= rest \div k
  PROVE  rest - x >= 2 * (k - 1) /\ x <= rest
<1> DEFINE q == rest \div k
<1>1. q \in Nat /\ k * q <= rest
  OBVIOUS
<1>2. k * x <= k * q
  BY <1>1
<1>3. k * x <= rest
  BY <1>1, <1>2
<1>4. k * (rest - x) = k * rest - k * x
  OBVIOUS
<1>5. k * (rest - x) >= (k - 1) * rest
  BY <1>3, <1>4
<1>6. (k - 1) * rest >= (k - 1) * (2 * k)
  OBVIOUS
<1>7. (k - 1) * (2 * k) = k * (2 * (k - 1))
  OBVIOUS
<1>8. k * (rest - x) >= k * (2 * (k - 1))
  BY <1>5, <1>6, <1>7
<1>9. rest - x >= 2 * (k - 1)
  BY <1>8, Cancels
<1> QED
  BY <1>9

\* In the run's only delivery: the strategies before the worker's have used what it counted, its
\* own has the part of the rest that _remaining_budget gave it, the later ones are not there.
SplitOK(r) ==
  /\ r.pc # "recover"
  /\ r.pc = "begin" => r.seen \in {"READY", "CANCEL_REQUESTED"}
  /\ r.pc \in {"begin", "resume"} =>
       r.s = 1 /\ r.used = 0 /\ \A t \in Strategies : ~strat[t].exists
  /\ r.pc = "resume" => Viable(0, n)
  /\ r.pc \in {"loop"} \cup Working \cup Spent => Viable(r.used, r.left)
  /\ r.pc \in {"loop"} \cup Spent => StepsUsed = r.used
  /\ r.pc = "loop" => \A t \in Strategies : t >= r.s => ~strat[t].exists
  /\ r.pc \in Working \cup Spent => \A t \in Strategies : t > r.s => ~strat[t].exists
  /\ r.pc \in Working => /\ StepsUsed = r.used + strat[r.s].used
                         /\ strat[r.s].budget = remaining_budget(r.used, r.left)

\* The run was enqueued once, and no delivery was repeated.
OneDelivery == crashes = 0 /\ enqueues = 1

\* A delivery that is still owed finds the run untouched; one that was made has one worker.
DeliveryOK ==
  /\ queued \in {0, 1}
  /\ queued = 1 => /\ status \in {"READY", "CANCEL_REQUESTED"}
                   /\ \A w \in Workers : At(w, "idle")
                   /\ \A t \in Strategies : ~strat[t].exists
  /\ \A v, w \in Workers : ~At(v, "idle") /\ ~At(w, "idle") => v = w
  /\ StepsUsed <= total
  /\ \A w \in Workers : SplitOK(wk[w])

DeliveryInv == enqueues # 0 /\ (OneDelivery => DeliveryOK)

\* What a worker at a strategy knows.
LEMMA AtWork ==
  ASSUME TInv, SharesOK, NEW w \in Workers, wk[w].pc \in Working
  PROVE  /\ wk[w].s \in Strategies /\ strat[wk[w].s] \in StratRow /\ strat[wk[w].s].exists
         /\ wk[w].steps \in Nat /\ wk[w].steps <= strat[wk[w].s].budget
         /\ wk[w].used \in Nat /\ wk[w].left \in Nat \ {0}
         /\ wk[w].len \in Nat /\ wk[w].ver \in Nat
<1>1. wk[w] \in Worker /\ LoopOK(wk[w]) /\ wk[w].s \in Strategies
  BY AtStrategy DEF Working, InLoop
<1>2. wk[w].s + wk[w].left = n + 1 /\ wk[w].s <= n
  BY <1>1 DEF LoopOK, Working, Counted, InLoop
<1>3. wk[w].left \in Nat \ {0}
  BY <1>1, <1>2, StrategiesAssumption DEF Worker, Strategies
<1> QED
  BY <1>1, <1>3, RowType DEF SharesOK, Worker

\* From place to place at one strategy, only its row changes.
LEMMA WorkRows ==
  ASSUME TInv, SharesOK, NEW w \in Workers, View(w), wk[w].pc \in Working, wk'[w].pc \in Working
  PROVE  /\ Keeps(w) /\ RowsKept
         /\ \A t \in Strategies : t # wk[w].s => strat'[t] = strat[t]
<1>1. WithinShare
  BY DEF SharesOK
<1>2. /\ wk[w].s \in Strategies /\ strat[wk[w].s] \in StratRow /\ strat[wk[w].s].exists
      /\ wk[w].steps \in Nat /\ wk[w].steps <= strat[wk[w].s].budget
  BY AtWork
<1>3. CASE UNCHANGED strat /\ Keeps(w)
  BY <1>1, <1>3, SameRows
<1>4. CASE update_strategy(wk[w].s, wk[w].steps) /\ Keeps(w)
  BY <1>1, <1>2, <1>4, UpdateRows
<1>5. CASE Charges(w)
  <2>1. wk[w].steps + 1 \in Nat /\ wk[w].steps + 1 <= strat[wk[w].s].budget
    BY <1>2, <1>5 DEF Charges, StratRow
  <2> QED  BY <1>1, <1>2, <1>5, <2>1, UpdateRows DEF Charges
<1>6. CASE Picks(w) \/ Quits(w) \/ Names(w) \/ Saves(w) \/ Loads(w) \/ Marks(w)
  BY <1>3, <1>4, <1>6 DEF Picks, Quits, Names, Saves, Loads, Marks, KeepsSteps
<1> QED
  BY <1>5, <1>6 DEF View, Stops, Enters, Recovers, Resumes, Takes, Spends, Replays, Refutes,
                    Goes, Working, Spent

LEMMA WorkingSplit ==
  ASSUME TInv, TInv', SharesOK, SharesOK', NEW w \in Workers, View(w), UNCHANGED total,
         SplitOK(wk[w]), wk[w].pc \in Working, wk'[w].pc \in Working
  PROVE  SplitOK(wk[w])' /\ StepsUsed' <= total'
<1> DEFINE s == wk[w].s
           x == strat[s].used
           y == strat'[s].used
           used == wk[w].used
           left == wk[w].left
<1>1. Keeps(w) /\ RowsKept /\ \A t \in Strategies : t # s => strat'[t] = strat[t]
  BY WorkRows
<1>2. /\ s \in Strategies /\ x \in Nat /\ strat[s].exists
      /\ used \in Nat /\ left \in Nat \ {0}
  BY AtWork DEF StratRow
<1>3. /\ wk'[w].s = s /\ wk'[w].used = used /\ wk'[w].left = left
      /\ strat'[s].budget = strat[s].budget
  BY <1>1, <1>2 DEF Keeps, RowsKept
<1>4. y \in Nat /\ y <= strat'[s].budget
  <2>1. strat'[s] \in StratRow
    BY <1>2 DEF TInv, TypeOK, StratRow
  <2> QED  BY <1>2, <2>1 DEF SharesOK, WithinShare, StratRow
<1>5. /\ Viable(used, left) /\ StepsUsed = used + x
      /\ strat[s].budget = remaining_budget(used, left)
      /\ \A t \in Strategies : t > s => ~strat[t].exists
  BY DEF SplitOK
<1>6. StepsUsed' = StepsUsed + (y - x) /\ StepsUsed \in Int
  BY <1>1, <1>2, StepsUsedUpdate, StepsSummable
<1>7. StepsUsed' = used + y
  <2> HIDE DEF x, y, used
  <2> QED  BY <1>2, <1>4, <1>5, <1>6
<1>8. \A t \in Strategies : t > s => ~strat'[t].exists
  BY <1>1, <1>2, <1>5 DEF Strategies
<1>9. /\ Viable(wk[w].used, wk[w].left)'
      /\ (strat[wk[w].s].budget = remaining_budget(wk[w].used, wk[w].left))'
  <2> USE DEF Viable, remaining_budget
  <2>1. wk'[w].used = used /\ wk'[w].left = left /\ total' = total
    BY <1>3
  <2> QED  BY <1>3, <1>5, <2>1
<1>10. used + y <= total
  <2> DEFINE rest == total - used
  <2>1. rest \in Nat /\ rest >= 2 * left /\ total \in Nat
    BY <1>2, <1>5 DEF Viable, MIN_VIABLE_STRATEGY_STEPS, TInv, TypeOK
  <2>2. y <= rest \div left
    BY <1>3, <1>4, <1>5 DEF remaining_budget
  <2> HIDE DEF rest, y, used, left
  <2>3. y <= rest
    BY <1>2, <1>4, <2>1, <2>2, SplitArithmetic
  <2> QED  BY <1>2, <1>4, <2>1, <2>3 DEF rest
<1>11. StepsUsed' <= total'
  BY <1>7, <1>10
<1>12. wk'[w].pc \notin {"recover", "begin", "resume", "loop"} \cup Spent
  BY DEF Working, Spent
<1>13. SplitOK(wk[w])'
  <2> HIDE DEF s, y, used, left
  <2>1. /\ StepsUsed' = wk'[w].used + strat'[wk'[w].s].used
        /\ \A t \in Strategies : t > wk'[w].s => ~strat'[t].exists
    BY <1>3, <1>7, <1>8 DEF y
  <2> QED  BY <1>9, <1>12, <2>1 DEF SplitOK
<1> QED
  BY <1>11, <1>13

\* A step that leaves the strategies' rows alone leaves the sum alone.
LEMMA QuietSplit ==
  ASSUME TInv, UNCHANGED <<strat, total>>, StepsUsed <= total
  PROVE  StepsUsed' = StepsUsed /\ StepsUsed' <= total'
<1>1. StepsUsed' = StepsUsed
  BY StepsUsedSame
<1> QED
  BY <1>1

LEMMA EntrySplit ==
  ASSUME TInv, SharesOK, NEW w \in Workers, UNCHANGED total, SplitOK(wk[w]), StepsUsed <= total,
         Enters(w) \/ Resumes(w) \/ Stops(w)
  PROVE  SplitOK(wk[w])' /\ StepsUsed' <= total'
<1>1. UNCHANGED <<strat, total>>
  BY DEF Enters, Resumes, Stops
<1>2. StepsUsed' = StepsUsed /\ StepsUsed' <= total'
  BY <1>1, QuietSplit
<1>3. CASE Stops(w)
  BY <1>2, <1>3 DEF Stops, SplitOK, Working, Spent
<1>4. CASE Enters(w)
  <2>1. /\ wk[w].seen \in {"READY", "CANCEL_REQUESTED"} /\ wk[w].s = 1 /\ wk[w].used = 0
        /\ \A t \in Strategies : ~strat[t].exists
    BY <1>4 DEF SplitOK, Enters
  <2>2. wk'[w].pc = "resume" /\ Viable(0, n) /\ wk'[w].s = 1 /\ wk'[w].used = 0
    BY <1>4, <2>1 DEF Enters, Keeps, Running
  <2>3. Viable(0, n)'
    BY <2>2 DEF Viable
  <2> QED  BY <1>1, <1>2, <2>1, <2>2, <2>3 DEF SplitOK, Working, Spent
<1>5. CASE Resumes(w)
  <2>1. wk[w].pc = "resume" /\ wk'[w].pc = "loop" /\ Keeps(w)
    BY <1>5 DEF Resumes, Goes
  <2>2. wk[w].s = 1 /\ wk[w].used = 0 /\ Viable(0, n) /\ \A t \in Strategies : ~strat[t].exists
    BY <2>1 DEF SplitOK
  <2>3. wk[w].left = n
    <3>1. wk[w] \in Worker /\ LoopOK(wk[w])
      BY DEF TInv, WorkersOK
    <3> QED  BY <2>1, <2>2, <3>1, StrategiesAssumption DEF Worker, LoopOK, Counted
  <2>4. StepsUsed = 0
    BY <2>2, StepsUsedZero DEF SharesOK, WithinShare
  <2>5. Viable(wk[w].used, wk[w].left)'
    <3>1. wk'[w].used = 0 /\ wk'[w].left = n
      BY <2>1, <2>2, <2>3 DEF Keeps
    <3> QED  BY <2>2, <3>1 DEF Viable
  <2>6. StepsUsed' = wk'[w].used
    BY <1>2, <2>1, <2>2, <2>4 DEF Keeps
  <2> QED  BY <1>1, <1>2, <2>1, <2>2, <2>5, <2>6 DEF SplitOK, Working, Spent
<1> QED
  BY <1>3, <1>4, <1>5

\* A strategy that starts gets its part of what is left.
LEMMA TakesSplit ==
  ASSUME TInv, SharesOK, NEW w \in Workers, UNCHANGED total, SplitOK(wk[w]), StepsUsed <= total,
         Takes(w)
  PROVE  SplitOK(wk[w])' /\ StepsUsed' <= total'
<1> DEFINE s == wk[w].s
           share == remaining_budget(wk[w].used, wk[w].left)
<1>0. /\ wk[w].pc = "loop" /\ wk'[w].pc = "pick" /\ Keeps(w) /\ s <= n
      /\ Viable(wk[w].used, wk[w].left) /\ ensure_strategy({s}, share)
  BY DEF Takes, Goes
<1>1. s \in Strategies /\ wk[w].left \in Nat \ {0} /\ wk[w].used \in Nat
  <2>1. wk[w] \in Worker /\ LoopOK(wk[w])
    BY DEF TInv, WorkersOK
  <2> QED  BY <1>0, <2>1, StrategiesAssumption DEF Worker, LoopOK, Counted, Strategies
<1>2. share \in Nat
  BY <1>0, <1>1, ShareType
<1>3. /\ StepsUsed = wk[w].used /\ ~strat[s].exists
      /\ \A t \in Strategies : t > s => ~strat[t].exists
  BY <1>0, <1>1 DEF SplitOK, Strategies
<1>4. strat[s].used = 0
  BY <1>1, <1>3 DEF SharesOK, WithinShare
<1>5. /\ \A t \in Strategies : strat'[t].used = strat[t].used
      /\ strat'[s].budget = share /\ \A t \in Strategies \ {s} : strat'[t] = strat[t]
  <2> HIDE DEF share
  <2>1. WithinShare
    BY DEF SharesOK
  <2> QED  BY <1>0, <1>1, <1>2, <1>3, <2>1, EnsureRows
<1>6. StepsUsed' = StepsUsed
  BY <1>5, StepsUsedSame
<1>7. /\ wk'[w].s = s /\ wk'[w].used = wk[w].used /\ wk'[w].left = wk[w].left
  BY <1>0 DEF Keeps
<1>8. /\ Viable(wk[w].used, wk[w].left)'
      /\ (strat[wk[w].s].budget = remaining_budget(wk[w].used, wk[w].left))'
  BY <1>0, <1>5, <1>7 DEF Viable, remaining_budget
<1>9. StepsUsed' = wk'[w].used + strat'[wk'[w].s].used
  <2>1. strat'[s].used = 0
    BY <1>1, <1>4, <1>5
  <2> QED  BY <1>1, <1>3, <1>6, <1>7, <2>1
<1>10. \A t \in Strategies : t > wk'[w].s => ~strat'[t].exists
  <2>1. ASSUME NEW t \in Strategies, t > s  PROVE ~strat'[t].exists
    <3>1. t # s
      BY <1>1, <2>1 DEF Strategies
    <3> QED  BY <1>3, <1>5, <2>1, <3>1
  <2> QED  BY <1>7, <2>1
<1> HIDE DEF s, share
<1>11. SplitOK(wk[w])'
  BY <1>0, <1>8, <1>9, <1>10 DEF SplitOK, Working, Spent
<1> QED
  BY <1>6, <1>11

\* A strategy that is done leaves the later ones a viable part.
LEMMA SpendsSplit ==
  ASSUME TInv, SharesOK, NEW w \in Workers, UNCHANGED total, SplitOK(wk[w]), StepsUsed <= total,
         Spends(w)
  PROVE  SplitOK(wk[w])' /\ StepsUsed' <= total'
<1> DEFINE s == wk[w].s
           x == strat[s].used
           rest == total - wk[w].used
           k == wk[w].left
<1>0. wk[w].pc \in Working /\ UNCHANGED <<strat, total>>
      /\ wk'[w].used = wk[w].used + x /\ wk'[w].left = k - 1
      /\ \/ wk'[w].pc = "prep" /\ wk'[w].s = s
         \/ wk'[w].pc = "loop" /\ wk'[w].s = s + 1
  BY DEF Spends, Goes, Working
<1>1. s \in Strategies /\ x \in Nat /\ wk[w].used \in Nat /\ k \in Nat \ {0}
  BY <1>0, AtWork DEF StratRow
<1>2. /\ Viable(wk[w].used, k) /\ StepsUsed = wk[w].used + x
      /\ strat[s].budget = remaining_budget(wk[w].used, k)
      /\ \A t \in Strategies : t > s => ~strat[t].exists
  BY <1>0 DEF SplitOK
<1>3. rest \in Nat /\ rest >= 2 * k /\ total \in Nat
  BY <1>1, <1>2 DEF Viable, MIN_VIABLE_STRATEGY_STEPS, TInv, TypeOK
<1>4. x <= rest \div k
  BY <1>1, <1>2 DEF SharesOK, WithinShare, remaining_budget
<1>5. rest - x >= 2 * (k - 1)
  <2> HIDE DEF rest, x, k
  <2> QED  BY <1>1, <1>3, <1>4, SplitArithmetic
<1>6. Viable(wk[w].used, wk[w].left)'
  <2>1. total' - wk'[w].used = rest - x
    BY <1>0, <1>1, <1>3
  <2> HIDE DEF rest, x, k
  <2> QED  BY <1>0, <1>5, <2>1 DEF Viable, MIN_VIABLE_STRATEGY_STEPS
<1>7. StepsUsed' = StepsUsed /\ StepsUsed' <= total'
  BY <1>0, QuietSplit
<1>8. /\ wk'[w].pc = "prep" => \A t \in Strategies : t > wk'[w].s => ~strat'[t].exists
      /\ wk'[w].pc = "loop" => \A t \in Strategies : t >= wk'[w].s => ~strat'[t].exists
  BY <1>0, <1>1, <1>2 DEF Strategies
<1>9. StepsUsed' = wk'[w].used
  BY <1>0, <1>2, <1>7
<1>10. SplitOK(wk[w])'
  BY <1>0, <1>6, <1>8, <1>9 DEF SplitOK, Working, Spent
<1> QED
  BY <1>7, <1>10

LEMMA ReplaysSplit ==
  ASSUME TInv, SharesOK, NEW w \in Workers, UNCHANGED total, SplitOK(wk[w]), StepsUsed <= total,
         Replays(w) \/ Refutes(w)
  PROVE  SplitOK(wk[w])' /\ StepsUsed' <= total'
<1>0. wk[w].pc \in Spent /\ UNCHANGED <<strat, total>>
      /\ wk'[w].used = wk[w].used /\ wk'[w].left = wk[w].left
      /\ \/ wk'[w].pc \in Spent /\ wk'[w].s = wk[w].s
         \/ wk'[w].pc = "loop" /\ wk'[w].s = wk[w].s + 1
  <2>1. CASE Replays(w)
    BY <2>1 DEF Replays, Keeps
  <2>2. CASE Refutes(w)
    BY <2>2 DEF Refutes, Goes, Spent
  <2> QED  BY <2>1, <2>2
<1>1. wk[w].s \in Strategies
  BY <1>0, AtStrategy DEF InLoop
<1>2. /\ Viable(wk[w].used, wk[w].left) /\ StepsUsed = wk[w].used
      /\ \A t \in Strategies : t > wk[w].s => ~strat[t].exists
  BY <1>0 DEF SplitOK
<1>3. StepsUsed' = StepsUsed /\ StepsUsed' <= total'
  BY <1>0, QuietSplit
<1>4. Viable(wk[w].used, wk[w].left)'
  BY <1>0, <1>2 DEF Viable
<1>5. /\ wk'[w].pc \in Spent => \A t \in Strategies : t > wk'[w].s => ~strat'[t].exists
      /\ wk'[w].pc = "loop" => \A t \in Strategies : t >= wk'[w].s => ~strat'[t].exists
  BY <1>0, <1>1, <1>2 DEF Strategies, Spent
<1>6. SplitOK(wk[w])'
  BY <1>0, <1>2, <1>3, <1>4, <1>5 DEF SplitOK, Working, Spent
<1> QED
  BY <1>3, <1>6

LEMMA SplitView ==
  ASSUME TInv, TInv', SharesOK, SharesOK', NEW w \in Workers, View(w), UNCHANGED total,
         SplitOK(wk[w]), StepsUsed <= total
  PROVE  SplitOK(wk[w])' /\ StepsUsed' <= total'
<1>1. CASE Picks(w) \/ Quits(w) \/ Names(w) \/ Charges(w) \/ Saves(w) \/ Loads(w) \/ Marks(w)
  <2>1. wk[w].pc \in Working /\ wk'[w].pc \in Working
    BY <1>1 DEF Picks, Quits, Names, Charges, Saves, Loads, Marks, Goes, Working
  <2> QED  BY <2>1, WorkingSplit
<1>2. CASE Recovers(w)
  BY <1>2 DEF Recovers, SplitOK
<1> QED
  BY <1>1, <1>2, EntrySplit, TakesSplit, SpendsSplit, ReplaysSplit DEF View

LEMMA IdleSplit ==
  ASSUME NEW r, r.pc = "idle"
  PROVE  SplitOK(r) /\ SplitOK(r)'
  BY DEF SplitOK, Working, Spent

LEMMA StepBusy ==
  ASSUME NEW w \in Workers, Step(w)
  PROVE  wk[w].pc # "idle"
  BY DEF Step, Begin, Recover, Resume, Loop, Pick, Search, Save, LoadMark, Mark, After, Prep,
         Replay, Persist, Complete, Finish, Fail, At

LEMMA DeliveryWorker ==
  ASSUME TInv, TInv', SharesOK, SharesOK', DeliveryOK, NEW w \in Workers, Step(w)
  PROVE  DeliveryOK'
<1>1. wk[w].pc # "idle" /\ View(w) /\ Others(w) /\ UNCHANGED <<total, queued, enqueues, crashes>>
  BY StepBusy, StepView
<1>2. queued' = 0
  BY <1>1 DEF DeliveryOK, At
<1>3. \A v \in Workers : v # w => wk[v].pc = "idle"
  BY <1>1 DEF DeliveryOK, At
<1>4. \A v \in Workers : v # w => wk'[v].pc = "idle"
  BY <1>1, <1>3 DEF Others
<1>5. SplitOK(wk[w])' /\ StepsUsed' <= total'
  BY <1>1, SplitView DEF DeliveryOK
<1>6. ASSUME NEW v \in Workers  PROVE SplitOK(wk[v])'
  <2>1. CASE v = w
    BY <1>5, <2>1
  <2>2. CASE v # w
    BY <1>4, <2>2 DEF SplitOK, Working, Spent
  <2> QED  BY <2>1, <2>2
<1> QED
  BY <1>2, <1>4, <1>5, <1>6 DEF DeliveryOK, At

LEMMA DeliveryStarts ==
  ASSUME TInv, DeliveryOK, NEW w \in Workers, Deliver(w)
  PROVE  DeliveryOK'
<1>1. /\ Others(w) /\ UNCHANGED <<strat, ckpt, total, crashes, enqueues>>
      /\ wk'[w].pc = "begin" /\ wk'[w].seen = status /\ wk'[w].s = 1 /\ wk'[w].used = 0
  BY DeliverView
<1>2. /\ queued' = 0 /\ status \in {"READY", "CANCEL_REQUESTED"}
      /\ \A v \in Workers : wk[v].pc = "idle"
      /\ \A t \in Strategies : ~strat[t].exists
  BY DEF Deliver, DeliveryOK, At
<1>3. \A v \in Workers : v # w => wk'[v].pc = "idle"
  BY <1>1, <1>2 DEF Others
<1>4. StepsUsed' <= total'
  BY <1>1, QuietSplit DEF DeliveryOK
<1>5. ASSUME NEW v \in Workers  PROVE SplitOK(wk[v])'
  <2>1. CASE v = w
    BY <1>1, <1>2, <2>1 DEF SplitOK, Working, Spent
  <2>2. CASE v # w
    BY <1>3, <2>2 DEF SplitOK, Working, Spent
  <2> QED  BY <2>1, <2>2
<1> QED
  BY <1>2, <1>3, <1>4, <1>5 DEF DeliveryOK, At

LEMMA DeliveryOutside ==
  ASSUME TInv, DeliveryOK, request_cancel \/ Expire \/ UNCHANGED vars
  PROVE  DeliveryOK'
<1>1. UNCHANGED <<strat, total, queued, wk>>
  BY DEF request_cancel, Expire, vars, storeVars, otherVars, queueVars
<1>2. status' = status \/ status' = "CANCEL_REQUESTED"
  BY DEF request_cancel, cas, Expire, vars, storeVars
<1>3. StepsUsed' = StepsUsed /\ StepsUsed' <= total'
  BY <1>1, QuietSplit DEF DeliveryOK
<1>4. ASSUME NEW v \in Workers  PROVE SplitOK(wk[v])'
  <2>1. SplitOK(wk[v])
    BY DEF DeliveryOK
  <2> QED  BY <1>1, <1>3, <2>1 DEF SplitOK, Viable, remaining_budget
<1> QED
  BY <1>1, <1>2, <1>3, <1>4 DEF DeliveryOK, At

LEMMA DeliveryStep ==
  ASSUME TInv, TInv', SharesOK, SharesOK', DeliveryInv, [Next]_vars
  PROVE  DeliveryInv'
<1>1. crashes \in Nat /\ enqueues \in Nat /\ enqueues # 0
  BY DEF TInv, TypeOK, DeliveryInv
<1>2. CASE \E w \in Workers : Crash(w) \/ Lapse(w)
  BY <1>1, <1>2 DEF Crash, Lapse, DeliveryInv, OneDelivery
<1>3. CASE Enqueue
  BY <1>1, <1>3 DEF Enqueue, DeliveryInv, OneDelivery
<1>4. ASSUME NEW w \in Workers, Step(w)  PROVE DeliveryInv'
  <2>1. UNCHANGED <<enqueues, crashes>>
    BY <1>4, StepView
  <2> QED  BY <1>4, <2>1, DeliveryWorker DEF DeliveryInv, OneDelivery
<1>5. ASSUME NEW w \in Workers, Deliver(w)  PROVE DeliveryInv'
  <2>1. UNCHANGED <<enqueues, crashes>>
    BY <1>5 DEF Deliver
  <2> QED  BY <1>5, <2>1, DeliveryStarts DEF DeliveryInv, OneDelivery
<1>6. CASE request_cancel \/ Expire \/ UNCHANGED vars
  <2>1. UNCHANGED <<enqueues, crashes>>
    BY <1>6 DEF request_cancel, Expire, vars, otherVars, queueVars
  <2> QED  BY <1>6, <2>1, DeliveryOutside DEF DeliveryInv, OneDelivery
<1> QED
  BY <1>2, <1>3, <1>4, <1>5, <1>6 DEF Next

LEMMA DeliveryInit == Init => DeliveryInv
<1> SUFFICES ASSUME Init  PROVE DeliveryInv
  OBVIOUS
<1>1. /\ queued = 1 /\ enqueues = 1 /\ status = "READY" /\ total \in Nat
      /\ \A w \in Workers : wk[w].pc = "idle"
      /\ \A s \in Strategies : strat[s].used = 0 /\ ~strat[s].exists
  BY TotalsAssumption DEF Init, Idle
<1>2. StepsUsed <= total
  <2>1. StepsUsed = 0
    BY <1>1, StepsUsedZero
  <2> QED  BY <1>1, <2>1
<1>3. \A w \in Workers : SplitOK(wk[w])
  BY <1>1, IdleSplit
<1> QED
  BY <1>1, <1>2, <1>3 DEF DeliveryInv, DeliveryOK, OneDelivery, At

\* In its only delivery a run has one worker, which keeps the split.
THEOREM DeliveryInvariant == Spec => []DeliveryInv
<1>1. TInv /\ TInv' /\ SharesOK /\ SharesOK' /\ DeliveryInv /\ [Next]_vars => DeliveryInv'
  BY DeliveryStep
<1> QED
  BY <1>1, DeliveryInit, TypedAlways, SharesInvariant, PTL DEF Spec

\* No strategy exceeds its share, and in one uninterrupted delivery the strategies together keep
\* within the run's budget and _remaining_budget never raises once the run has started: for any
\* number of workers and strategies and any budget.
THEOREM BudgetsSplit == Spec => []BudgetSplit
<1>1. SharesOK /\ DeliveryInv => BudgetSplit
  BY DEF SharesOK, WithinShare, DeliveryInv, OneDelivery, DeliveryOK, SplitOK, BudgetSplit, At
<1> QED
  BY <1>1, SharesInvariant, DeliveryInvariant, PTL

-----------------------------------------------------------------------------
(* Charged and durable steps, with one worker process *)

Pathed == {"search", "save", "mark", "marking"}

\* The worker's own counts are the store's: nobody else writes them.
LedgerOK(w) ==
  /\ wk[w].pc \in Working => wk[w].steps = strat[wk[w].s].used
  /\ wk[w].pc \in Pathed => /\ wk[w].len = ckpt[wk[w].s].len
                            /\ wk[w].ver = ckpt[wk[w].s].version
  /\ wk[w].pc = "save" => ckpt[wk[w].s].len < strat[wk[w].s].used
  /\ \A s \in Strategies : ckpt[s].len <= strat[s].used
  /\ UnsavedSteps <= crashes + (IF wk[w].pc = "save" THEN 1 ELSE 0)

Unsaved == [s \in Strategies |-> strat[s].used - ckpt[s].len]
CkptRow == [version : Nat, len : Nat, cand : BOOLEAN]

LEMMA PathType ==
  ASSUME TInv, NEW s \in Strategies
  PROVE  ckpt[s] \in CkptRow
  BY DEF TInv, TypeOK, CkptRow

LEMMA UnsavedSummable ==
  ASSUME TInv
  PROVE  /\ SummableFunction(Unsaved) /\ UnsavedSteps = SumFunction(Unsaved)
         /\ UnsavedSteps \in Int
<1>1. \A s \in Strategies : strat[s].used \in Nat /\ ckpt[s].len \in Nat
  BY RowType, PathType DEF StratRow, CkptRow
<1>2. SummableFunction(Unsaved)
  BY <1>1, StrategiesFinite DEF SummableFunction, Summable, Unsaved
<1>3. UnsavedSteps = SumFunction(Unsaved)
  BY DEF UnsavedSteps, Unsaved
<1> QED
  BY <1>2, <1>3, SumFunctionType

LEMMA UnsavedUpdate ==
  ASSUME TInv, TInv', NEW s \in Strategies,
         \A t \in Strategies : t # s => strat'[t].used = strat[t].used /\ ckpt'[t].len = ckpt[t].len
  PROVE  UnsavedSteps' = UnsavedSteps + ((strat'[s].used - ckpt'[s].len)
                                          - (strat[s].used - ckpt[s].len))
<1> DEFINE f == Unsaved
           e == Unsaved'
<1>1. /\ SummableFunction(f) /\ UnsavedSteps = SumFunction(f) /\ UnsavedSteps' = SumFunction(e)
  BY UnsavedSummable DEF UnsavedSteps, Unsaved
<1>2. /\ DOMAIN e = DOMAIN f /\ s \in DOMAIN f
      /\ e[s] = strat'[s].used - ckpt'[s].len /\ f[s] = strat[s].used - ckpt[s].len
      /\ \A t \in DOMAIN f : t # s => e[t] = f[t]
  BY DEF Unsaved
<1>3. e[s] \in Int
  <2>1. strat'[s] \in StratRow /\ ckpt'[s] \in CkptRow
    BY DEF TInv, TypeOK, StratRow, CkptRow
  <2> QED  BY <1>2, <2>1 DEF StratRow, CkptRow
<1> HIDE DEF f, e
<1>4. SumFunction(e) = SumFunction(f) + (e[s] - f[s])
  BY <1>1, <1>2, <1>3, SumFunctionUpdate
<1> QED
  BY <1>1, <1>2, <1>4

LEMMA UnsavedSame ==
  ASSUME TInv,
         \A t \in Strategies : strat'[t].used = strat[t].used /\ ckpt'[t].len = ckpt[t].len
  PROVE  UnsavedSteps' = UnsavedSteps
<1> DEFINE f == Unsaved
           e == Unsaved'
<1>1. /\ SummableFunction(f) /\ UnsavedSteps = SumFunction(f) /\ UnsavedSteps' = SumFunction(e)
  BY UnsavedSummable DEF UnsavedSteps, Unsaved
<1>2. DOMAIN e = DOMAIN f /\ \A t \in DOMAIN f : e[t] = f[t]
  BY DEF Unsaved
<1> HIDE DEF f, e
<1> QED
  BY <1>1, <1>2, SumFunctionSame

LEMMA UnsavedZero ==
  ASSUME \A t \in Strategies : strat[t].used = 0 /\ ckpt[t].len = 0
  PROVE  UnsavedSteps = 0
<1> DEFINE f == Unsaved
<1>1. UnsavedSteps = SumFunctionOnSet(f, DOMAIN f)
  BY DEF UnsavedSteps, SumFunction, Unsaved
<1>2. IsFiniteSet(DOMAIN f) /\ \A t \in DOMAIN f : f[t] = 0
  BY StrategiesFinite DEF Unsaved
<1> HIDE DEF f
<1> QED
  BY <1>1, <1>2, SumZero

\* Steps that charge nothing and save nothing.
LEMMA LedgerKept ==
  ASSUME TInv, NEW w \in Workers, LedgerOK(w), wk[w].pc # "save", wk'[w].pc # "save",
         crashes' = crashes \/ crashes' = crashes + 1,
         \A t \in Strategies : strat'[t].used = strat[t].used /\ ckpt'[t].len = ckpt[t].len,
         wk'[w].pc \in Working => wk'[w].steps = strat'[wk'[w].s].used,
         wk'[w].pc \in Pathed => /\ wk'[w].len = ckpt'[wk'[w].s].len
                                 /\ wk'[w].ver = ckpt'[wk'[w].s].version
  PROVE  LedgerOK(w)'
<1>1. UnsavedSteps' = UnsavedSteps /\ UnsavedSteps \in Int
  BY UnsavedSame, UnsavedSummable
<1>2. UnsavedSteps' <= crashes'
  <2>1. UnsavedSteps <= crashes /\ crashes \in Nat
    BY DEF LedgerOK, TInv, TypeOK
  <2> QED  BY <1>1, <2>1
<1>3. \A t \in Strategies : ckpt'[t].len <= strat'[t].used
  BY DEF LedgerOK
<1>4. crashes' + 0 = crashes'
  BY DEF TInv, TypeOK
<1> QED
  BY <1>2, <1>3, <1>4 DEF LedgerOK

\* Writing back the count the row already has.
LEMMA SameCount ==
  ASSUME TInv, NEW s \in Strategies, NEW steps, steps = strat[s].used, update_strategy(s, steps)
  PROVE  \A t \in Strategies : strat'[t].used = strat[t].used
<1>1. strat[s] \in StratRow
  BY RowType
<1>2. /\ strat'[s] = [strat[s] EXCEPT !.used = steps]
      /\ \A t \in Strategies : t # s => strat'[t] = strat[t]
  BY DEF update_strategy, TInv, TypeOK
<1>3. strat'[s].used = steps
  BY <1>1, <1>2 DEF StratRow
<1> QED
  BY <1>2, <1>3

LEMMA SavedRow ==
  ASSUME TInv, NEW s \in Strategies, NEW expected, NEW row, save_checkpoint(s, expected, row)
  PROVE  ckpt'[s] = row /\ \A t \in Strategies : t # s => ckpt'[t] = ckpt[t]
  BY DEF save_checkpoint, TInv, TypeOK

LEMMA LedgerQuiet ==
  ASSUME TInv, SharesOK, NEW w \in Workers, LedgerOK(w), UNCHANGED crashes,
         \/ Stops(w) \/ Enters(w) \/ Recovers(w) \/ Resumes(w) \/ Spends(w)
         \/ Replays(w) \/ Refutes(w)
  PROVE  LedgerOK(w)'
<1>1. wk[w].pc # "save"
  BY DEF LedgerOK, Stops, Enters, Recovers, Resumes, Spends, Replays, Refutes, Goes, Pathed, Spent
<1>2. wk'[w].pc \notin Working /\ wk'[w].pc \notin Pathed /\ wk'[w].pc # "save"
  BY DEF Stops, Enters, Recovers, Resumes, Spends, Replays, Refutes, Goes, Pathed, Spent, Working
<1>3. \A t \in Strategies : strat'[t].used = strat[t].used /\ ckpt'[t].len = ckpt[t].len
  <2>1. CASE Recovers(w)
    BY <2>1, WholeShareType, EnsureRows DEF Recovers, SharesOK
  <2>2. CASE ~Recovers(w)
    BY <2>2 DEF Stops, Enters, Resumes, Spends, Replays, Refutes
  <2> QED  BY <2>1, <2>2
<1> QED
  BY <1>1, <1>2, <1>3, LedgerKept

LEMMA LedgerTakes ==
  ASSUME TInv, SharesOK, NEW w \in Workers, LedgerOK(w), UNCHANGED crashes, Takes(w)
  PROVE  LedgerOK(w)'
<1>0. /\ wk[w].pc = "loop" /\ wk'[w].pc = "pick" /\ wk[w].s <= n /\ wk'[w].s = wk[w].s
      /\ Viable(wk[w].used, wk[w].left) /\ UNCHANGED ckpt
      /\ ensure_strategy({wk[w].s}, remaining_budget(wk[w].used, wk[w].left))
      /\ wk'[w].steps = strat[wk[w].s].used
  BY DEF Takes, Goes, Keeps
<1>1. wk[w].s \in Strategies /\ wk[w].left \in Nat \ {0} /\ wk[w].used \in Nat
  <2>1. wk[w] \in Worker /\ LoopOK(wk[w])
    BY DEF TInv, WorkersOK
  <2> QED  BY <1>0, <2>1, StrategiesAssumption DEF Worker, LoopOK, Counted, Strategies
<1>2. remaining_budget(wk[w].used, wk[w].left) \in Nat
  BY <1>0, <1>1, ShareType
<1>3. \A t \in Strategies : strat'[t].used = strat[t].used /\ ckpt'[t].len = ckpt[t].len
  BY <1>0, <1>2, EnsureRows DEF SharesOK
<1> QED
  BY <1>0, <1>1, <1>3, LedgerKept DEF Pathed

\* At the strategy, without charging or saving.
LEMMA LedgerWorking ==
  ASSUME TInv, SharesOK, NEW w \in Workers, LedgerOK(w), UNCHANGED crashes,
         Picks(w) \/ Quits(w) \/ Names(w) \/ Loads(w) \/ Marks(w)
  PROVE  LedgerOK(w)'
<1> DEFINE s == wk[w].s
<1>0. /\ wk[w].pc \in Working \ {"save"} /\ wk'[w].pc \in Working \ {"save"}
      /\ wk'[w].s = s /\ wk'[w].steps = wk[w].steps
      /\ UNCHANGED strat \/ update_strategy(s, wk[w].steps)
  BY DEF Picks, Quits, Names, Loads, Marks, Goes, KeepsSteps, Keeps, Working
<1>1. s \in Strategies /\ wk[w].steps = strat[s].used
  BY <1>0, AtWork DEF LedgerOK
<1>2. \A t \in Strategies : strat'[t].used = strat[t].used
  BY <1>0, <1>1, SameCount
<1>3. CASE Marks(w)
  <2> DEFINE row == [version |-> wk[w].ver + 1, len |-> ckpt[s].len, cand |-> TRUE]
  <2>1. save_checkpoint(s, wk[w].ver, row) /\ row.len = ckpt[s].len /\ wk'[w].pc = "after"
    BY <1>3 DEF Marks, Goes
  <2> HIDE DEF row
  <2>2. \A t \in Strategies : ckpt'[t].len = ckpt[t].len
    BY <1>1, <2>1, SavedRow
  <2> QED  BY <1>0, <1>1, <1>2, <2>1, <2>2, LedgerKept DEF Pathed
<1>4. CASE Picks(w) \/ Quits(w) \/ Names(w) \/ Loads(w)
  <2>1. UNCHANGED ckpt
    BY <1>4 DEF Picks, Quits, Names, Loads
  <2>2. wk'[w].pc \in Pathed => wk'[w].len = ckpt[s].len /\ wk'[w].ver = ckpt[s].version
    BY <1>4 DEF Picks, Quits, Names, Loads, Goes, KeepsPath, LedgerOK, Pathed
  <2> QED  BY <1>0, <1>1, <1>2, <2>1, <2>2, LedgerKept
<1> QED
  BY <1>3, <1>4

\* A step is charged: one more that is not durable, and the worker is about to save it.
LEMMA LedgerCharges ==
  ASSUME TInv, TInv', SharesOK, NEW w \in Workers, LedgerOK(w), UNCHANGED crashes, Charges(w)
  PROVE  LedgerOK(w)'
<1> DEFINE s == wk[w].s
           x == strat[s].used
           l == ckpt[s].len
<1>0. /\ wk[w].pc = "search" /\ wk'[w].pc = "save" /\ UNCHANGED ckpt
      /\ wk'[w].s = s /\ wk'[w].len = wk[w].len /\ wk'[w].ver = wk[w].ver
      /\ wk[w].steps < strat[s].budget
      /\ update_strategy(s, wk[w].steps + 1) /\ wk'[w].steps = wk[w].steps + 1
  BY DEF Charges, Goes, Keeps, KeepsPath
<1>1. s \in Strategies /\ strat[s].exists /\ x \in Nat /\ wk[w].steps = x /\ strat[s].budget \in Nat
  BY <1>0, AtWork DEF LedgerOK, Working, StratRow
<1>2. l \in Nat /\ l <= x /\ wk[w].len = l /\ wk[w].ver = ckpt[s].version
  BY <1>0, <1>1, PathType DEF LedgerOK, Pathed, CkptRow
<1>3. strat'[s].used = x + 1 /\ \A t \in Strategies : t # s => strat'[t] = strat[t]
  <2>1. wk[w].steps + 1 \in Nat /\ wk[w].steps + 1 <= strat[s].budget /\ WithinShare
    BY <1>0, <1>1 DEF SharesOK
  <2> QED  BY <1>0, <1>1, <2>1, UpdateRows
<1>4. UnsavedSteps' = UnsavedSteps + ((x + 1 - l) - (x - l)) /\ UnsavedSteps \in Int
  <2>1. \A t \in Strategies : t # s => strat'[t].used = strat[t].used /\ ckpt'[t].len = ckpt[t].len
    BY <1>0, <1>3
  <2>2. UnsavedSteps' = UnsavedSteps + ((strat'[s].used - ckpt'[s].len)
                                         - (strat[s].used - ckpt[s].len))
    BY <1>1, <2>1, UnsavedUpdate
  <2>3. ckpt'[s].len = l
    BY <1>0
  <2>4. UnsavedSteps' = UnsavedSteps + ((x + 1 - l) - (x - l))
    <3> DEFINE a == strat'[s].used
               b == ckpt'[s].len
    <3>1. a = x + 1 /\ b = l /\ UnsavedSteps' = UnsavedSteps + ((a - b) - (x - l))
      BY <1>3, <2>2, <2>3
    <3> HIDE DEF a, b, x, l
    <3> QED  BY <1>1, <1>2, <3>1, UnsavedSummable
  <2> QED  BY <2>4, UnsavedSummable
<1>5. UnsavedSteps <= crashes /\ crashes \in Nat
  BY <1>0 DEF LedgerOK, TInv, TypeOK
<1>6. UnsavedSteps' <= crashes' + 1
  <2> HIDE DEF x, l
  <2> QED  BY <1>1, <1>2, <1>4, <1>5
<1>7. ASSUME NEW t \in Strategies  PROVE ckpt'[t].len <= strat'[t].used
  <2>1. CASE t = s
    BY <1>0, <1>1, <1>2, <1>3, <2>1
  <2>2. CASE t # s
    BY <1>0, <1>3, <2>2 DEF LedgerOK
  <2> QED  BY <2>1, <2>2
<1>8. ckpt'[s].len < strat'[s].used
  BY <1>0, <1>1, <1>2, <1>3
<1> HIDE DEF s
<1>9. /\ wk'[w].steps = strat'[wk'[w].s].used
      /\ wk'[w].len = ckpt'[wk'[w].s].len /\ wk'[w].ver = ckpt'[wk'[w].s].version
      /\ ckpt'[wk'[w].s].len < strat'[wk'[w].s].used
  BY <1>0, <1>1, <1>2, <1>3, <1>8
<1> QED
  BY <1>0, <1>6, <1>7, <1>9 DEF LedgerOK

\* The step is saved: one less.
LEMMA LedgerSaves ==
  ASSUME TInv, TInv', SharesOK, NEW w \in Workers, LedgerOK(w), UNCHANGED crashes, Saves(w)
  PROVE  LedgerOK(w)'
<1> DEFINE s == wk[w].s
           x == strat[s].used
           l == ckpt[s].len
           row == [version |-> wk[w].ver + 1, len |-> wk[w].len + 1, cand |-> FALSE]
<1>0. /\ wk[w].pc = "save" /\ wk'[w].pc \in {"search", "mark"} /\ UNCHANGED strat
      /\ wk'[w].s = s /\ wk'[w].steps = wk[w].steps
      /\ wk'[w].len = wk[w].len + 1 /\ wk'[w].ver = wk[w].ver + 1
      /\ save_checkpoint(s, wk[w].ver, row)
  BY DEF Saves, Goes, KeepsSteps, Keeps
<1>1. s \in Strategies /\ x \in Nat /\ wk[w].steps = x
  BY <1>0, AtWork DEF LedgerOK, Working, StratRow
<1>2. l \in Nat /\ l < x /\ wk[w].len = l
  BY <1>0, <1>1, PathType DEF LedgerOK, Pathed, CkptRow
<1>3. row.len = l + 1 /\ row.version = wk[w].ver + 1
  BY <1>2
<1> HIDE DEF row
<1>4. ckpt'[s] = row /\ \A t \in Strategies : t # s => ckpt'[t] = ckpt[t]
  BY <1>0, <1>1, SavedRow
<1>5. ckpt'[s].len = l + 1 /\ ckpt'[s].version = wk[w].ver + 1
  BY <1>3, <1>4
<1>6. UnsavedSteps' = UnsavedSteps + ((x - (l + 1)) - (x - l)) /\ UnsavedSteps \in Int
  <2>1. \A t \in Strategies : t # s => strat'[t].used = strat[t].used /\ ckpt'[t].len = ckpt[t].len
    BY <1>0, <1>4
  <2>2. UnsavedSteps' = UnsavedSteps + ((strat'[s].used - ckpt'[s].len)
                                         - (strat[s].used - ckpt[s].len))
    BY <1>1, <2>1, UnsavedUpdate
  <2>3. strat'[s].used = x
    BY <1>0
  <2> QED  BY <1>5, <2>2, <2>3, UnsavedSummable
<1>7. UnsavedSteps <= crashes + 1 /\ crashes \in Nat
  BY <1>0 DEF LedgerOK, TInv, TypeOK
<1>8. UnsavedSteps' <= crashes' + 0
  <2> HIDE DEF x, l
  <2> QED  BY <1>1, <1>2, <1>6, <1>7
<1>9. ASSUME NEW t \in Strategies  PROVE ckpt'[t].len <= strat'[t].used
  <2>1. CASE t = s
    BY <1>0, <1>1, <1>2, <1>5, <2>1
  <2>2. CASE t # s
    BY <1>0, <1>4, <2>2 DEF LedgerOK
  <2> QED  BY <2>1, <2>2
<1>10. /\ wk'[w].steps = strat'[wk'[w].s].used
       /\ wk'[w].len = ckpt'[wk'[w].s].len /\ wk'[w].ver = ckpt'[wk'[w].s].version
  BY <1>0, <1>1, <1>2, <1>5
<1>11. wk'[w].pc # "save"
  BY <1>0
<1> QED
  BY <1>8, <1>9, <1>10, <1>11 DEF LedgerOK

LEMMA LedgerView ==
  ASSUME TInv, TInv', SharesOK, NEW w \in Workers, LedgerOK(w), UNCHANGED crashes, View(w)
  PROVE  LedgerOK(w)'
  BY LedgerQuiet, LedgerTakes, LedgerWorking, LedgerCharges, LedgerSaves DEF View

LEMMA LedgerStep ==
  ASSUME TInv, TInv', SharesOK, NEW w, Workers = {w}, LedgerOK(w), [Next]_vars
  PROVE  LedgerOK(w)'
<1>0. w \in Workers
  OBVIOUS
<1>1. CASE Step(w)
  BY <1>0, <1>1, StepView, LedgerView
<1>2. CASE Deliver(w)
  <2>1. wk[w].pc = "idle" /\ wk'[w].pc = "begin" /\ UNCHANGED <<strat, ckpt, crashes>>
    BY <1>0, <1>2, DeliverView DEF Deliver, At
  <2> QED  BY <1>0, <2>1, LedgerKept DEF Working, Pathed
<1>3. CASE Crash(w)
  <2>1. wk'[w].pc = "idle" /\ UNCHANGED <<strat, ckpt>> /\ crashes' = crashes + 1
    BY <1>0, <1>3, ReturnView DEF Crash, storeVars
  <2>2. UnsavedSteps' = UnsavedSteps /\ UnsavedSteps \in Int
    BY <2>1, UnsavedSame, UnsavedSummable
  <2>3. UnsavedSteps' <= crashes' + 0
    BY <2>1, <2>2 DEF LedgerOK, TInv, TypeOK
  <2> QED  BY <2>1, <2>3 DEF LedgerOK, Working, Pathed
<1>4. CASE Lapse(w)
  <2>1. UNCHANGED <<strat, ckpt, wk>> /\ crashes' = crashes + 1
    BY <1>4 DEF Lapse, storeVars
  <2>2. UnsavedSteps' = UnsavedSteps /\ UnsavedSteps \in Int
    BY <2>1, UnsavedSame, UnsavedSummable
  <2>3. UnsavedSteps' <= crashes' + (IF wk'[w].pc = "save" THEN 1 ELSE 0)
    BY <2>1, <2>2 DEF LedgerOK, TInv, TypeOK
  <2> QED  BY <2>1, <2>3 DEF LedgerOK
<1>5. CASE Enqueue \/ request_cancel \/ Expire \/ UNCHANGED vars
  <2>1. UNCHANGED <<strat, ckpt, wk, crashes>>
    BY <1>5 DEF Enqueue, request_cancel, Expire, vars, storeVars, otherVars, queueVars
  <2>2. UnsavedSteps' = UnsavedSteps
    BY <2>1, UnsavedSame
  <2> QED  BY <2>1, <2>2 DEF LedgerOK
<1> QED
  BY <1>1, <1>2, <1>3, <1>4, <1>5 DEF Next

LEMMA LedgerInit ==
  ASSUME NEW w \in Workers, Init
  PROVE  LedgerOK(w)
<1>1. /\ wk[w].pc = "idle" /\ crashes = 0
      /\ \A s \in Strategies : strat[s].used = 0 /\ ckpt[s].len = 0
  BY DEF Init, Idle
<1>2. UnsavedSteps = 0
  BY <1>1, UnsavedZero
<1> QED
  BY <1>1, <1>2 DEF LedgerOK, Working, Pathed

LEMMA SavingWorkers ==
  ASSUME NEW w, Workers = {w}
  PROVE  Cardinality({v \in Workers : At(v, "save")}) = IF wk[w].pc = "save" THEN 1 ELSE 0
<1> DEFINE S == {v \in Workers : At(v, "save")}
<1>1. wk[w].pc = "save" => S = {w}
  BY DEF At
<1>2. wk[w].pc # "save" => S = {}
  BY DEF At
<1>3. Cardinality({w}) = 1 /\ Cardinality({}) = 0
  BY FS_Singleton, FS_EmptySet
<1>4. Cardinality(S) = IF wk[w].pc = "save" THEN 1 ELSE 0
  <2> HIDE DEF S
  <2> QED  BY <1>1, <1>2, <1>3
<1> QED
  BY <1>4

\* With one worker process the store never holds a path with a step that was not charged, and
\* all but as many charged steps as there were crashes, and the one in hand, are durable: for
\* any number of strategies, crashes, deliveries and any budget.  With two processes it is not
\* so: update_strategy writes back a count that may be out of date.
THEOREM StepsCharged ==
  ASSUME NEW w, Workers = {w}
  PROVE  Spec => []ChargedSteps
<1>1. Init => LedgerOK(w)
  BY LedgerInit
<1>2. TInv /\ TInv' /\ SharesOK /\ LedgerOK(w) /\ [Next]_vars => LedgerOK(w)'
  BY LedgerStep
<1>3. LedgerOK(w) => ChargedSteps
  BY SavingWorkers DEF LedgerOK, ChargedSteps
<1> QED
  BY <1>1, <1>2, <1>3, TypedAlways, SharesInvariant, PTL DEF Spec
=============================================================================
