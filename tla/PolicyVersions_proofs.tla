----------------------- MODULE PolicyVersions_proofs -----------------------
(***************************************************************************)
(* Proofs about compile requests that share one recording adapter, and     *)
(* about confirmations that number the versions of a policy.               *)
(***************************************************************************)
EXTENDS PolicyVersions, FiniteSetTheorems, TLAPS

-----------------------------------------------------------------------------
(* Calls *)

Attempts == 1 .. MaxAttempts
Call == Policies \X Attempts
DraftStatus == {"NONE", "REJECTED", "NEEDS_CONFIRMATION", "COMPILED"}
Draft == [status : DraftStatus, spec : Specs \cup {NoSpec}, calls : Seq(Call)]

CompileTypeOK ==
  /\ work \in [Policies -> 0 .. MaxAttempts + 1]
  /\ pending \in Seq(Call)
  /\ draft \in [Policies -> Draft]

\* The attempts of p that are on record are the ones it has made, in number and in order.
AttemptsOK(p) ==
  IF Over(p)
  THEN IF p \in Refused
       THEN CallsOf(p) = {}
       ELSE /\ draft[p].calls # <<>>
            /\ \E k \in Attempts : CallsOf(p) = 1 .. k /\ Last(draft[p].calls) = <<p, k>>
  ELSE /\ CallsOf(p) = 1 .. work[p] - 1
       /\ p \in Refused => work[p] = 0

\* A request has a draft when it is over, and what is compiled needs no question.
DraftOK(p) ==
  /\ ~Over(p) => draft[p] = NoDraft
  /\ Over(p) => draft[p].status # "NONE"
  /\ draft[p].status = "COMPILED" =>
       draft[p].spec \in Specs \ (Ambiguous \cup Invalid) /\ p \notin Vague

CompileInv ==
  /\ CompileTypeOK /\ ChargedOnce
  /\ \A p \in Policies : AttemptsOK(p) /\ DraftOK(p)

LEMMA AppendCall ==
  ASSUME NEW S, NEW s \in Seq(S), NEW x \in S
  PROVE  /\ Append(s, x) \in Seq(S) /\ Append(s, x) # <<>>
         /\ ToSet(Append(s, x)) = ToSet(s) \cup {x}
         /\ Last(Append(s, x)) = x
         /\ IsInjective(s) /\ x \notin ToSet(s) => IsInjective(Append(s, x))
<1> DEFINE t == Append(s, x)
           n == Len(s) + 1
<1>1. /\ t \in Seq(S) /\ Len(t) = n /\ Len(s) \in Nat
      /\ DOMAIN s = 1 .. Len(s) /\ DOMAIN t = 1 .. n
      /\ t[n] = x /\ \A i \in 1 .. Len(s) : t[i] = s[i]
  OBVIOUS
<1> HIDE DEF t
<1>2. /\ n \in DOMAIN t /\ \A i \in DOMAIN s : i \in DOMAIN t /\ t[i] = s[i]
      /\ \A i \in DOMAIN t : i = n \/ i \in DOMAIN s
  BY <1>1
<1> HIDE DEF n
<1>3. t # <<>>
  BY <1>2
<1>4. ToSet(t) = ToSet(s) \cup {x}
  BY <1>1, <1>2 DEF ToSet
<1>5. Last(t) = x
  BY <1>1 DEF Last
<1>6. IsInjective(s) /\ x \notin ToSet(s) => IsInjective(t)
  BY <1>1, <1>2 DEF ToSet, IsInjective
<1> QED
  BY <1>1, <1>3, <1>4, <1>5, <1>6 DEF t

LEMMA NoCalls == ToSet(<<>>) = {} /\ IsInjective(<<>>) /\ <<>> \in Seq(Call)
<1>1. DOMAIN <<>> = {} /\ <<>> \in Seq(Call)
  OBVIOUS
<1> QED  BY <1>1 DEF ToSet, IsInjective

LEMMA CompileStart == PolicyInit => CompileInv
<1> SUFFICES ASSUME PolicyInit  PROVE CompileInv
  OBVIOUS
<1>1. /\ work = [p \in Policies |-> 0] /\ pending = <<>> /\ draft = [p \in Policies |-> NoDraft]
  BY DEF PolicyInit
<1>2. NoDraft \in Draft /\ NoDraft.calls = <<>> /\ NoDraft.status = "NONE"
  BY NoCalls DEF NoDraft, Draft, DraftStatus
<1>3. CompileTypeOK
  BY <1>1, <1>2, NoCalls DEF CompileTypeOK, MaxAttempts
<1>4. \A p \in Policies : draft[p] = NoDraft /\ work[p] = 0 /\ ~Over(p)
  BY <1>1 DEF Over, MaxAttempts
<1>5. ChargedOnce
  BY <1>1, <1>2, <1>4, NoCalls DEF ChargedOnce
<1>6. Recorded = {}
  BY <1>1, <1>2, <1>4, NoCalls DEF Recorded
<1>7. \A p \in Policies : CallsOf(p) = {}
  BY <1>6 DEF CallsOf
<1>8. 1 .. 0 - 1 = {}
  OBVIOUS
<1>9. \A p \in Policies : AttemptsOK(p)
  BY <1>4, <1>7, <1>8 DEF AttemptsOK
<1>10. \A p \in Policies : DraftOK(p)
  BY <1>2, <1>4 DEF DraftOK
<1> QED
  BY <1>3, <1>5, <1>9, <1>10 DEF CompileInv

\* The call a request is waiting for is not on record.
LEMMA NewCall ==
  ASSUME CompileInv, NEW p \in Policies, work[p] \in Attempts
  PROVE  /\ <<p, work[p]>> \in Call /\ <<p, work[p]>> \notin Recorded
         /\ ~Over(p) /\ p \notin Refused /\ draft[p] = NoDraft
         /\ CallsOf(p) = 1 .. work[p] - 1
<1>1. ~Over(p) /\ work[p] # 0 /\ work[p] \in Nat
  BY DEF Over, MaxAttempts, Attempts
<1>2. p \notin Refused /\ draft[p] = NoDraft /\ CallsOf(p) = 1 .. work[p] - 1
  BY <1>1 DEF CompileInv, AttemptsOK, DraftOK
<1>3. work[p] \notin CallsOf(p)
  BY <1>1, <1>2
<1> QED
  BY <1>1, <1>2, <1>3 DEF Call, CallsOf, Attempts

\* A call goes on record: what is known of the calls of other requests, and of this one's.
LEMMA CallsGrow ==
  ASSUME CompileInv, NEW p \in Policies, work[p] \in Attempts,
         Recorded' = Recorded \cup {<<p, work[p]>>}
  PROVE  /\ CallsOf(p)' = 1 .. work[p]
         /\ \A q \in Policies : q # p => CallsOf(q)' = CallsOf(q)
<1>1. CallsOf(p)' = CallsOf(p) \cup {work[p]}
  BY DEF CallsOf, Attempts
<1>2. CallsOf(p) = 1 .. work[p] - 1 /\ work[p] \in Nat /\ work[p] > 0
  <2>1. CallsOf(p) = 1 .. work[p] - 1
    BY NewCall
  <2> QED  BY <2>1 DEF Attempts, MaxAttempts
<1>3. \A q \in Policies : q # p => CallsOf(q)' = CallsOf(q)
  BY DEF CallsOf
<1> QED
  BY <1>1, <1>2, <1>3

LEMMA FinishCompile ==
  ASSUME CompileInv, NEW p \in Policies, NEW status \in DraftStatus \ {"NONE"},
         NEW spec \in Specs \cup {NoSpec}, work[p] \in Attempts,
         status = "COMPILED" => spec \in Specs \ (Ambiguous \cup Invalid) /\ p \notin Vague,
         Finish(p, status, spec, complete_structured(p))
  PROVE  CompileInv'
<1>0. PICK x : x = <<p, work[p]>>
  OBVIOUS
<1> DEFINE calls == Append(pending, x)
<1>1. /\ work' = [work EXCEPT ![p] = MaxAttempts + 1] /\ pending' = <<>>
      /\ draft' = [draft EXCEPT ![p] = [status |-> status, spec |-> spec, calls |-> calls]]
  BY <1>0 DEF Finish, record_compile, complete_structured
<1>2. /\ x \in Call /\ x \notin Recorded
      /\ ~Over(p) /\ p \notin Refused /\ draft[p] = NoDraft
  BY <1>0, NewCall
<1>3. /\ CompileTypeOK /\ ChargedOnce
      /\ \A q \in Policies : AttemptsOK(q) /\ DraftOK(q)
  BY DEF CompileInv
<1>4. /\ calls \in Seq(Call) /\ calls # <<>> /\ ToSet(calls) = ToSet(pending) \cup {x}
      /\ Last(calls) = x /\ IsInjective(calls)
  <2>1. x \notin ToSet(pending) /\ IsInjective(pending) /\ pending \in Seq(Call)
    BY <1>2, <1>3 DEF Recorded, ChargedOnce, CompileTypeOK
  <2> QED  BY <1>2, <2>1, AppendCall
<1> HIDE DEF calls
<1>5. /\ work'[p] = MaxAttempts + 1 /\ Over(p)'
      /\ \A q \in Policies : q # p => /\ work'[q] = work[q] /\ draft'[q] = draft[q]
                                      /\ Over(q)' <=> Over(q)
      /\ draft'[p].status = status /\ draft'[p].spec = spec /\ draft'[p].calls = calls
  BY <1>1, <1>3 DEF CompileTypeOK, Over
<1>6. CompileTypeOK'
  <2>1. [status |-> status, spec |-> spec, calls |-> calls] \in Draft
    BY <1>4 DEF Draft
  <2>2. MaxAttempts + 1 \in 0 .. MaxAttempts + 1
    BY DEF MaxAttempts
  <2> QED  BY <1>1, <1>3, <2>1, <2>2, NoCalls DEF CompileTypeOK
<1>7. Recorded' = Recorded \cup {x}
  <2>1. ToSet(pending') = {} /\ ToSet(draft[p].calls) = {}
    BY <1>1, <1>2, NoCalls DEF NoDraft
  <2>2. \A q \in Policies : q # p => ToSet(draft'[q].calls) = ToSet(draft[q].calls)
    BY <1>5
  <2>3. ToSet(draft'[p].calls) = ToSet(pending) \cup {x}
    BY <1>4, <1>5
  <2>4. ASSUME NEW y  PROVE y \in Recorded' <=> y \in Recorded \cup {x}
    <3>1. y \in Recorded <=> y \in ToSet(pending) \/ \E q \in Policies : y \in ToSet(draft[q].calls)
      BY DEF Recorded
    <3>2. y \in Recorded' <=> y \in ToSet(pending') \/ \E q \in Policies : y \in ToSet(draft'[q].calls)
      BY DEF Recorded
    <3> QED  BY <2>1, <2>2, <2>3, <3>1, <3>2
  <2> QED  BY <2>4
<1>8. /\ CallsOf(p)' = 1 .. work[p]
      /\ \A q \in Policies : q # p => CallsOf(q)' = CallsOf(q)
  BY <1>0, <1>7, CallsGrow
<1>9. ChargedOnce'
  <2>1. ToSet(pending') = {} /\ IsInjective(pending')
    BY <1>1, NoCalls
  <2>2. \A q \in Policies : q # p => /\ ToSet(calls) \cap ToSet(draft[q].calls) = {}
                                     /\ draft'[q] = draft[q] /\ IsInjective(draft[q].calls)
    BY <1>2, <1>3, <1>4, <1>5 DEF ChargedOnce, Recorded
  <2>3. draft'[p].calls = calls
    BY <1>5
  <2>4. \A q \in Policies : IsInjective(draft'[q].calls)
    BY <1>4, <2>2, <2>3
  <2>5. \A q, r \in Policies : q # r => ToSet(draft'[q].calls) \cap ToSet(draft'[r].calls) = {}
    BY <1>3, <2>2, <2>3 DEF ChargedOnce
  <2> QED  BY <2>1, <2>4, <2>5 DEF ChargedOnce
<1>10. ASSUME NEW q \in Policies  PROVE AttemptsOK(q)' /\ DraftOK(q)'
  <2>1. CASE q = p
    <3>1. AttemptsOK(p)'
      BY <1>0, <1>2, <1>4, <1>5, <1>8 DEF AttemptsOK
    <3>2. DraftOK(p)'
      BY <1>5 DEF DraftOK
    <3> QED  BY <2>1, <3>1, <3>2
  <2>2. CASE q # p
    BY <1>3, <1>5, <1>8, <2>2 DEF AttemptsOK, DraftOK
  <2> QED  BY <2>1, <2>2
<1> QED
  BY <1>6, <1>9, <1>10 DEF CompileInv

LEMMA RetryCompile ==
  ASSUME CompileInv, NEW p \in Policies, work[p] \in Attempts, work[p] < MaxAttempts,
         work' = [work EXCEPT ![p] = work[p] + 1], pending' = complete_structured(p),
         UNCHANGED draft
  PROVE  CompileInv'
<1>0. PICK x : x = <<p, work[p]>>
  OBVIOUS
<1>1. x \in Call /\ x \notin Recorded /\ ~Over(p) /\ p \notin Refused
  BY <1>0, NewCall
<1>2. /\ CompileTypeOK /\ ChargedOnce
      /\ \A q \in Policies : AttemptsOK(q) /\ DraftOK(q)
  BY DEF CompileInv
<1>3. /\ pending' \in Seq(Call) /\ ToSet(pending') = ToSet(pending) \cup {x}
      /\ IsInjective(pending')
  <2>1. x \notin ToSet(pending) /\ IsInjective(pending) /\ pending \in Seq(Call)
    BY <1>1, <1>2 DEF Recorded, ChargedOnce, CompileTypeOK
  <2>2. pending' = Append(pending, x)
    BY <1>0 DEF complete_structured
  <2> QED  BY <1>1, <2>1, <2>2, AppendCall
<1>4. /\ work'[p] = work[p] + 1 /\ ~Over(p)'
      /\ \A q \in Policies : q # p => work'[q] = work[q] /\ (Over(q)' <=> Over(q))
  BY <1>2 DEF CompileTypeOK, Over, Attempts, MaxAttempts
<1>5. CompileTypeOK'
  <2>1. work[p] + 1 \in 0 .. MaxAttempts + 1
    BY DEF Attempts, MaxAttempts
  <2> QED  BY <1>2, <1>3, <2>1 DEF CompileTypeOK
<1>6. Recorded' = Recorded \cup {x}
  <2>1. Recorded' = ToSet(pending') \cup UNION {ToSet(draft[q].calls) : q \in Policies}
    BY DEF Recorded
  <2> QED  BY <1>3, <2>1 DEF Recorded
<1>7. /\ CallsOf(p)' = 1 .. work[p]
      /\ \A q \in Policies : q # p => CallsOf(q)' = CallsOf(q)
  BY <1>0, <1>6, CallsGrow
<1>8. ChargedOnce'
  <2>1. \A q \in Policies : x \notin ToSet(draft[q].calls)
    BY <1>1 DEF Recorded
  <2> QED  BY <1>2, <1>3, <2>1 DEF ChargedOnce
<1>9. ASSUME NEW q \in Policies  PROVE AttemptsOK(q)' /\ DraftOK(q)'
  <2>1. CASE q = p
    <3>1. work'[p] - 1 = work[p]
      BY <1>4 DEF Attempts
    <3>2. AttemptsOK(p)'
      BY <1>1, <1>4, <1>7, <3>1 DEF AttemptsOK
    <3>3. DraftOK(p)'
      BY <1>1, <1>2, <1>4 DEF DraftOK
    <3> QED  BY <2>1, <3>2, <3>3
  <2>2. CASE q # p
    BY <1>2, <1>4, <1>7, <2>2 DEF AttemptsOK, DraftOK
  <2> QED  BY <2>1, <2>2
<1> QED
  BY <1>5, <1>8, <1>9 DEF CompileInv

LEMMA BeginCompile ==
  ASSUME CompileInv, NEW p \in Policies, Compile(p)
  PROVE  CompileInv'
<1>1. /\ CompileTypeOK /\ ChargedOnce
      /\ \A q \in Policies : AttemptsOK(q) /\ DraftOK(q)
  BY DEF CompileInv
<1>2. work[p] = 0 /\ ~Over(p) /\ draft[p] = NoDraft /\ CallsOf(p) = {}
  <2>1. work[p] = 0 /\ ~Over(p)
    BY DEF Compile, Over, MaxAttempts
  <2>2. 1 .. 0 - 1 = {}
    OBVIOUS
  <2> QED  BY <1>1, <2>1, <2>2 DEF AttemptsOK, DraftOK
<1>3. PICK k \in {1, MaxAttempts + 1} :
        /\ work' = [work EXCEPT ![p] = k] /\ (k = 1 <=> p \notin Refused)
        /\ IF k = 1 THEN UNCHANGED draft ELSE draft' = [draft EXCEPT ![p].status = "REJECTED"]
  BY DEF Compile, MaxAttempts
<1>4. /\ work'[p] = k /\ pending' = pending
      /\ \A q \in Policies : q # p => /\ work'[q] = work[q] /\ draft'[q] = draft[q]
                                      /\ Over(q)' <=> Over(q)
  BY <1>1, <1>3 DEF CompileTypeOK, Over, Compile
<1>5. /\ draft'[p].calls = draft[p].calls
      /\ k = 1 => draft'[p] = NoDraft
      /\ k # 1 => draft'[p].status = "REJECTED"
      /\ draft' \in [Policies -> Draft]
  <2>1. NoDraft.calls = <<>> /\ draft \in [Policies -> Draft]
    BY <1>1 DEF NoDraft, CompileTypeOK
  <2>2. CASE k = 1
    BY <1>2, <1>3, <2>1, <2>2
  <2>3. CASE k # 1
    <3>1. draft' = [draft EXCEPT ![p].status = "REJECTED"] /\ "REJECTED" \in DraftStatus
      BY <1>3, <2>3 DEF DraftStatus
    <3> QED  BY <2>1, <2>3, <3>1 DEF Draft
  <2> QED  BY <2>2, <2>3
<1>6. \A q \in Policies : draft'[q].calls = draft[q].calls
  BY <1>4, <1>5
<1>7. Recorded' = Recorded /\ ChargedOnce'
  BY <1>1, <1>4, <1>6 DEF Recorded, ChargedOnce
<1>8. \A q \in Policies : CallsOf(q)' = CallsOf(q)
  BY <1>7 DEF CallsOf
<1>9. CompileTypeOK'
  <2>1. k \in 0 .. MaxAttempts + 1
    BY DEF MaxAttempts
  <2> QED  BY <1>1, <1>3, <1>4, <1>5, <2>1 DEF CompileTypeOK
<1>10. ASSUME NEW q \in Policies  PROVE AttemptsOK(q)' /\ DraftOK(q)'
  <2>1. CASE q = p /\ k = 1
    <3>1. ~Over(p)' /\ 1 .. work'[p] - 1 = {} /\ p \notin Refused
      BY <1>3, <1>4, <2>1 DEF Over, MaxAttempts
    <3>2. NoDraft.status = "NONE"
      BY DEF NoDraft
    <3> QED  BY <1>2, <1>5, <1>8, <2>1, <3>1, <3>2 DEF AttemptsOK, DraftOK
  <2>2. CASE q = p /\ k # 1
    <3>1. Over(p)' /\ p \in Refused
      BY <1>3, <1>4, <2>2 DEF Over
    <3> QED  BY <1>2, <1>5, <1>8, <2>2, <3>1 DEF AttemptsOK, DraftOK
  <2>3. CASE q # p
    BY <1>1, <1>4, <1>8, <2>3 DEF AttemptsOK, DraftOK
  <2> QED  BY <2>1, <2>2, <2>3
<1> QED
  BY <1>7, <1>9, <1>10 DEF CompileInv

LEMMA AnsweredCompile ==
  ASSUME CompileInv, NEW p \in Policies, NEW reply, Answered(p, reply)
  PROVE  CompileInv'
<1>1. work[p] \in Attempts
  BY DEF Answered, Attempts
<1>2. CASE /\ reply \in Specs /\ validate_rule_spec(reply)
           /\ Finish(p, Verdict(p, reply), reply, complete_structured(p))
  <2>1. /\ Verdict(p, reply) \in DraftStatus \ {"NONE"}
        /\ Verdict(p, reply) = "COMPILED" =>
             reply \in Specs \ (Ambiguous \cup Invalid) /\ p \notin Vague
    BY <1>2 DEF Verdict, DraftStatus, validate_rule_spec
  <2> QED  BY <1>1, <1>2, <2>1, FinishCompile
<1>3. CASE Finish(p, "REJECTED", NoSpec, complete_structured(p))
  <2>1. "REJECTED" \in DraftStatus \ {"NONE"} /\ "REJECTED" # "COMPILED"
    BY DEF DraftStatus
  <2> QED  BY <1>1, <1>3, <2>1, FinishCompile
<1>4. CASE /\ work[p] < MaxAttempts /\ work' = [work EXCEPT ![p] = @ + 1]
           /\ pending' = complete_structured(p) /\ UNCHANGED draft
  BY <1>1, <1>4, RetryCompile
<1> QED
  BY <1>2, <1>3, <1>4 DEF Answered

LEMMA CompileStep ==
  ASSUME CompileInv, [PolicyNext]_policyVars
  PROVE  CompileInv'
<1>1. CASE UNCHANGED compileVars
  <2>1. work' = work /\ pending' = pending /\ draft' = draft
    BY <1>1 DEF compileVars
  <2>2. Recorded' = Recorded
    BY <2>1 DEF Recorded
  <2>3. \A p : CallsOf(p)' = CallsOf(p)
    BY <2>2 DEF CallsOf
  <2> QED
    BY <2>1, <2>3 DEF CompileInv, CompileTypeOK, ChargedOnce, AttemptsOK, DraftOK, Over
<1>2. UNCHANGED compileVars
      \/ (\E p \in Policies : Compile(p))
      \/ \E p \in Policies, direct, proxy \in Replies : Answered(p, call(direct, proxy))
  BY DEF PolicyNext, policyVars, Confirm, Lock, CommitVersion
<1> QED
  BY <1>1, <1>2, BeginCompile, AnsweredCompile

\* RuleCompiler.compile: however requests overlap on the shared adapter, the calls on record are
\* the calls that were made.
THEOREM CompileInvariant == PolicySpec => []CompileInv
<1>1. CompileInv /\ [PolicyNext]_policyVars => CompileInv'
  BY CompileStep
<1> QED
  BY <1>1, CompileStart, PTL DEF PolicySpec

\* RecordedLLMAdapter: for any number of overlapping compile requests every call is charged to
\* exactly one draft, and the last record of a draft is that of the request's own last answer.
THEOREM CallsAreAccountedOnce == PolicySpec => []CallsAccountedOnce
<1>1. CompileInv => CallsAccountedOnce
  <2> SUFFICES ASSUME CompileInv, NEW p \in Policies
               PROVE  /\ \A n \in CallsOf(p) : n = 1 \/ n - 1 \in CallsOf(p)
                      /\ ~Over(p) => Cardinality(CallsOf(p)) = Max({0, work[p] - 1})
                      /\ Over(p) /\ p \notin Refused =>
                           /\ draft[p].calls # <<>>
                           /\ Last(draft[p].calls) = <<p, Max(CallsOf(p))>>
    BY DEF CallsAccountedOnce, CompileInv
  <2>1. AttemptsOK(p) /\ work[p] \in 0 .. 4
    BY DEF CompileInv, CompileTypeOK, MaxAttempts
  <2>2. CASE ~Over(p)
    <3>1. CallsOf(p) = 1 .. work[p] - 1
      BY <2>1, <2>2 DEF AttemptsOK
    <3>2. Cardinality(1 .. work[p] - 1) = IF 1 > work[p] - 1 THEN 0 ELSE work[p] - 1 - 1 + 1
      BY <2>1, FS_Interval
    <3>3. Max({0, work[p] - 1}) = IF work[p] - 1 > 0 THEN work[p] - 1 ELSE 0
      BY <2>1 DEF Max
    <3> QED  BY <2>1, <2>2, <3>1, <3>2, <3>3
  <2>3. CASE Over(p) /\ p \in Refused
    BY <2>1, <2>3 DEF AttemptsOK
  <2>4. CASE Over(p) /\ p \notin Refused
    <3>1. PICK k \in Attempts : CallsOf(p) = 1 .. k /\ Last(draft[p].calls) = <<p, k>>
      BY <2>1, <2>4 DEF AttemptsOK
    <3>2. k \in Nat /\ k > 0
      BY DEF Attempts
    <3>3. Max(1 .. k) = k
      BY <3>2 DEF Max
    <3> QED  BY <2>1, <2>4, <3>1, <3>2, <3>3 DEF AttemptsOK
  <2> QED  BY <2>2, <2>3, <2>4
<1> QED
  BY <1>1, CompileInvariant, PTL

-----------------------------------------------------------------------------
(* Versions *)

Pc == {"new", "waiting", "refused", "locked", "error", "done"}
Settled == Specs \ (Ambiguous \cup Invalid)
Version == [policy : Policies, version : Nat, spec : Settled]
NoPolicy == CHOOSE p \in Policies : TRUE

VersionTypeOK ==
  /\ versions \subseteq Version
  /\ conf \in [Confirmers -> [pc : Pc, policy : Policies \cup {NoPolicy},
                              spec : Specs \cup {NoSpec}, version : Nat]]

\* What a vague text became was settled by the one who confirms it.
Asked(p) == p \in Vague => draft[p].status = "NEEDS_CONFIRMATION"

\* A confirmation on its way to the store has a policy and a settled spec; the one that holds
\* the policy's lock has a number that is still the right one.
ConfirmationOK(c) ==
  /\ conf[c].pc # "error"
  /\ conf[c].pc \in {"waiting", "locked", "done"} =>
       conf[c].policy \in Policies /\ conf[c].spec \in Settled /\ Asked(conf[c].policy)
  /\ conf[c].pc = "locked" => conf[c].version = Number(c)
  /\ conf[c].pc = "done" => New(c) \in versions

LocksExclude ==
  \A c, d \in Confirmers :
    conf[c].pc = "locked" /\ conf[d].pc = "locked" /\ conf[c].policy = conf[d].policy => c = d

\* The versions of a policy are numbered 1 to n, and number and content each identify one.
NumbersOK(p) ==
  /\ IsFiniteSet(Of(p))
  /\ {v.version : v \in Of(p)} = 1 .. Cardinality(Of(p))
  /\ \A v, w \in Of(p) : v.version = w.version \/ v.spec = w.spec => v = w

VersionInv ==
  /\ VersionTypeOK
  /\ \A c \in Confirmers : ConfirmationOK(c)
  /\ LocksExclude
  /\ \A p \in Policies : NumbersOK(p)
  /\ \A v \in versions : Asked(v.policy)

LEMMA VersionStart == PolicyInit => VersionInv
<1> SUFFICES ASSUME PolicyInit  PROVE VersionInv
  OBVIOUS
<1>1. versions = {} /\ \A p : Of(p) = {}
  BY DEF PolicyInit, Of
<1>2. VersionTypeOK
  BY DEF PolicyInit, VersionTypeOK, NoPolicy, Pc
<1>3. \A c \in Confirmers : conf[c].pc = "new"
  BY DEF PolicyInit
<1>4. \A p \in Policies : NumbersOK(p)
  <2>1. 1 .. 0 = {}
    OBVIOUS
  <2> QED  BY <1>1, <2>1, FS_EmptySet DEF NumbersOK
<1> QED
  BY <1>1, <1>2, <1>3, <1>4 DEF VersionInv, ConfirmationOK, LocksExclude

LEMMA LastNumber ==
  ASSUME NEW p \in Policies, NumbersOK(p)
  PROVE  Cardinality(Of(p)) \in Nat /\ MaxVersion(p) = Cardinality(Of(p))
<1> DEFINE n == Cardinality(Of(p))
<1>1. n \in Nat
  BY FS_CardinalityType DEF NumbersOK
<1>2. {v.version : v \in Of(p)} \cup {0} = (1 .. n) \cup {0}
  BY DEF NumbersOK
<1> HIDE DEF n
<1>3. Max((1 .. n) \cup {0}) = n
  <2>1. n \in (1 .. n) \cup {0} /\ \A y \in (1 .. n) \cup {0} : n >= y
    BY <1>1
  <2>2. \A x \in (1 .. n) \cup {0} : (\A y \in (1 .. n) \cup {0} : x >= y) => x = n
    BY <1>1, <2>1
  <2> QED  BY <2>1, <2>2 DEF Max
<1> QED
  BY <1>1, <1>2, <1>3 DEF MaxVersion, n

\* The number is that of the version with this content, or one that is free.
LEMMA NumberIsRight ==
  ASSUME VersionInv, NEW c \in Confirmers, conf[c].policy \in Policies
  PROVE  LET p == conf[c].policy IN
         /\ Number(c) \in Nat
         /\ \A v \in Of(p) : v.version = Number(c) <=> v.spec = conf[c].spec
         /\ (\A v \in Of(p) : v.spec # conf[c].spec) => Number(c) = Cardinality(Of(p)) + 1
<1> DEFINE p == conf[c].policy
<1>1. NumbersOK(p)
  BY DEF VersionInv
<1>2. \A v \in Of(p) : v \in Version /\ v.version \in 1 .. Cardinality(Of(p)) /\ v.version \in Nat
  BY <1>1 DEF VersionInv, VersionTypeOK, NumbersOK, Of, Version
<1>3. Cardinality(Of(p)) \in Nat /\ MaxVersion(p) = Cardinality(Of(p))
  BY <1>1, LastNumber
<1>4. CASE Existing(c) = {}
  <2>1. Number(c) = Cardinality(Of(p)) + 1
    BY <1>3, <1>4 DEF Number
  <2>2. \A v \in Of(p) : v.spec # conf[c].spec
    BY <1>4 DEF Existing
  <2>3. \A v \in Of(p) : v.version # Number(c)
    BY <1>2, <1>3, <2>1
  <2> QED  BY <1>3, <2>1, <2>2, <2>3
<1>5. CASE Existing(c) # {}
  <2>1. PICK w : w = CHOOSE v \in Existing(c) : TRUE
    OBVIOUS
  <2>2. w \in Of(p) /\ w.spec = conf[c].spec /\ Number(c) = w.version
    BY <1>5, <2>1 DEF Number, Existing
  <2>3. \A v \in Of(p) : v.version = w.version <=> v.spec = w.spec
    BY <1>1, <2>2 DEF NumbersOK
  <2> QED  BY <1>2, <2>2, <2>3
<1> QED  BY <1>4, <1>5

\* A draft does not change once there is one.
LEMMA AskedStays ==
  ASSUME CompileInv, [PolicyNext]_policyVars, NEW p \in Policies, draft[p].status # "NONE"
  PROVE  draft'[p] = draft[p]
<1>1. Over(p) /\ draft \in [Policies -> Draft]
  BY DEF CompileInv, DraftOK, CompileTypeOK, NoDraft
<1>2. ASSUME NEW q \in Policies, Compile(q)  PROVE draft'[p] = draft[p]
  BY <1>1, <1>2 DEF Compile, Over, MaxAttempts
<1>3. ASSUME NEW q \in Policies, NEW reply, Answered(q, reply)  PROVE draft'[p] = draft[p]
  <2>1. q # p
    <3>1. work[q] \in 1 .. MaxAttempts
      BY <1>3 DEF Answered
    <3> QED  BY <1>1, <3>1 DEF Over, MaxAttempts
  <2> QED  BY <1>1, <1>3, <2>1 DEF Answered, Finish, record_compile
<1>4. \/ UNCHANGED draft \/ (\E q \in Policies : Compile(q))
      \/ \E q \in Policies, direct, proxy \in Replies : Answered(q, call(direct, proxy))
  BY DEF PolicyNext, policyVars, Confirm, Lock, CommitVersion, compileVars
<1> QED
  BY <1>2, <1>3, <1>4

\* Only a locked confirmation changes the versions, and never those of another policy.
LEMMA NumberStays ==
  ASSUME VersionInv, NEW c \in Confirmers, conf'[c] = conf[c], Of(conf[c].policy)' = Of(conf[c].policy)
  PROVE  Number(c)' = Number(c)
<1>1. PICK q : q = conf[c].policy
  OBVIOUS
<1>2. Of(q)' = Of(q) /\ conf'[c].policy = q /\ conf'[c].spec = conf[c].spec
  BY <1>1
<1>3. Existing(c)' = Existing(c)
  <2>1. Existing(c)' = {v \in Of(q)' : v.spec = conf[c].spec}
    BY <1>2 DEF Existing, Of
  <2> QED  BY <1>1, <1>2, <2>1 DEF Existing
<1>4. MaxVersion(conf[c].policy)' = MaxVersion(conf[c].policy)
  <2>1. MaxVersion(conf[c].policy)' = Max({v.version : v \in Of(q)'} \cup {0})
    BY <1>2 DEF MaxVersion, Of
  <2> QED  BY <1>1, <1>2, <2>1 DEF MaxVersion
<1> QED
  BY <1>3, <1>4 DEF Number

\* A step that leaves the versions alone and moves at most one confirmation.
LEMMA SameVersions ==
  ASSUME CompileInv, VersionInv, [PolicyNext]_policyVars, UNCHANGED versions
  PROVE  /\ \A p \in Policies : Of(p)' = Of(p) /\ NumbersOK(p)'
         /\ \A v \in versions : Asked(v.policy)'
         /\ \A p \in Policies : Asked(p) /\ draft[p].status # "NONE" => Asked(p)'
         /\ \A c \in Confirmers : conf'[c] = conf[c] => ConfirmationOK(c)'
<1>1. \A p : Of(p)' = Of(p)
  BY DEF Of
<1>2. \A p \in Policies : NumbersOK(p)'
  BY <1>1 DEF VersionInv, NumbersOK
<1>3. \A p \in Policies : Asked(p) /\ draft[p].status # "NONE" => Asked(p)'
  BY AskedStays DEF Asked
<1>4. \A p \in Policies : p \notin Vague => Asked(p)'
  BY DEF Asked
<1>5. \A p \in Policies : Asked(p) => Asked(p)'
  BY <1>3, <1>4 DEF Asked
<1>6. \A v \in versions : v.policy \in Policies
  BY DEF VersionInv, VersionTypeOK, Version
<1>7. ASSUME NEW c \in Confirmers, conf'[c] = conf[c]  PROVE ConfirmationOK(c)'
  <2>1. ConfirmationOK(c)
    BY DEF VersionInv
  <2>2. Number(c)' = Number(c)
    BY <1>1, <1>7, NumberStays DEF Of
  <2>3. New(c)' = New(c)
    BY <1>7 DEF New
  <2>4. conf[c].policy \in Policies => (Asked(conf[c].policy) => Asked(conf[c].policy)')
    <3>1. PICK q : q = conf[c].policy
      OBVIOUS
    <3>2. Asked(conf[c].policy)' <=> Asked(q)'
      BY <1>7, <3>1 DEF Asked
    <3> QED  BY <1>5, <3>1, <3>2
  <2> QED  BY <1>7, <2>1, <2>2, <2>3, <2>4 DEF ConfirmationOK
<1> QED
  BY <1>1, <1>2, <1>3, <1>5, <1>6, <1>7 DEF VersionInv

\* Confirmation c moves to r and the others stay.
LEMMA Moved ==
  ASSUME VersionInv, NEW c \in Confirmers, NEW r, Set(c, r)
  PROVE  /\ conf'[c] = r
         /\ \A d \in Confirmers : d # c => conf'[d] = conf[d]
         /\ r \in [pc : Pc, policy : Policies \cup {NoPolicy},
                   spec : Specs \cup {NoSpec}, version : Nat]
              => conf' \in [Confirmers -> [pc : Pc, policy : Policies \cup {NoPolicy},
                                           spec : Specs \cup {NoSpec}, version : Nat]]
  BY DEF VersionInv, VersionTypeOK, Set

LEMMA ConfirmVersions ==
  ASSUME CompileInv, VersionInv, [PolicyNext]_policyVars, NEW c \in Confirmers,
         NEW p \in Policies, NEW s \in Specs \cup {NoSpec}, Confirm(c, p, s)
  PROVE  VersionInv'
<1> DEFINE spec == IF s = NoSpec THEN draft[p].spec ELSE s
           pc == IF Confirmable(p, s) THEN "waiting" ELSE "refused"
           r == [conf[c] EXCEPT !.pc = pc, !.policy = p, !.spec = spec]
<1>1. /\ conf[c].pc = "new" /\ draft[p].status # "NONE" /\ Set(c, r)
      /\ UNCHANGED versions
  BY DEF Confirm
<1>2. /\ r.pc = pc /\ r.policy = p /\ r.spec = spec
      /\ r \in [pc : Pc, policy : Policies \cup {NoPolicy}, spec : Specs \cup {NoSpec}, version : Nat]
  <2>1. /\ conf[c] \in [pc : Pc, policy : Policies \cup {NoPolicy},
                        spec : Specs \cup {NoSpec}, version : Nat]
        /\ draft[p] \in Draft
    BY DEF VersionInv, VersionTypeOK, CompileInv, CompileTypeOK
  <2>2. spec \in Specs \cup {NoSpec} /\ pc \in Pc
    BY <2>1 DEF Draft, Pc
  <2> HIDE DEF spec, pc
  <2> QED  BY <2>1, <2>2
<1>3. pc = "waiting" => spec \in Settled /\ Asked(p)
  <2>1. DraftOK(p) /\ NoSpec \notin Specs
    BY SpecsAssumption DEF CompileInv, NoSpec
  <2> QED
    BY <2>1 DEF Confirmable, DraftOK, Settled, Asked, validate_rule_spec
<1>4. pc \in {"waiting", "refused"}
  OBVIOUS
<1> HIDE DEF spec, pc, r
<1>5. /\ conf'[c] = r
      /\ \A d \in Confirmers : d # c => conf'[d] = conf[d]
      /\ VersionTypeOK'
  BY <1>1, <1>2, Moved DEF VersionInv, VersionTypeOK
<1>6. /\ \A q \in Policies : Of(q)' = Of(q) /\ NumbersOK(q)'
      /\ \A v \in versions : Asked(v.policy)'
      /\ \A q \in Policies : Asked(q) /\ draft[q].status # "NONE" => Asked(q)'
      /\ \A d \in Confirmers : conf'[d] = conf[d] => ConfirmationOK(d)'
  BY <1>1, SameVersions
<1>7. ConfirmationOK(c)'
  <2>1. conf'[c].pc = "waiting" => conf'[c].spec \in Settled /\ Asked(conf[c].policy)'
    <3>1. Asked(conf[c].policy)' <=> Asked(p)'
      BY <1>2, <1>5 DEF Asked
    <3> QED  BY <1>1, <1>2, <1>3, <1>5, <1>6, <3>1
  <2> QED  BY <1>2, <1>4, <1>5, <2>1 DEF ConfirmationOK
<1>8. LocksExclude'
  <2>1. \A d \in Confirmers : conf'[d].pc = "locked" => conf[d].pc = "locked" /\ conf'[d] = conf[d]
    BY <1>2, <1>4, <1>5
  <2> QED  BY <2>1 DEF VersionInv, LocksExclude
<1> QED
  BY <1>1, <1>5, <1>6, <1>7, <1>8 DEF VersionInv

LEMMA LockVersions ==
  ASSUME CompileInv, VersionInv, [PolicyNext]_policyVars, NEW c \in Confirmers, Lock(c)
  PROVE  VersionInv'
<1>0. PICK p : p = conf[c].policy
  OBVIOUS
<1> DEFINE r == [conf[c] EXCEPT !.pc = "locked", !.version = Number(c)]
<1>1. /\ conf[c].pc = "waiting" /\ ~Locked(p) /\ Set(c, r) /\ UNCHANGED <<versions, draft>>
  BY <1>0 DEF Lock, compileVars
<1>2. p \in Policies /\ conf[c].spec \in Settled /\ Asked(p) /\ ConfirmationOK(c)
  BY <1>0, <1>1 DEF VersionInv, ConfirmationOK
<1>3. Number(c) \in Nat
  BY <1>0, <1>2, NumberIsRight
<1>4. /\ r.pc = "locked" /\ r.policy = p /\ r.spec = conf[c].spec /\ r.version = Number(c)
      /\ r \in [pc : Pc, policy : Policies \cup {NoPolicy}, spec : Specs \cup {NoSpec}, version : Nat]
  <2>1. conf[c] \in [pc : Pc, policy : Policies \cup {NoPolicy},
                     spec : Specs \cup {NoSpec}, version : Nat]
    BY DEF VersionInv, VersionTypeOK
  <2> QED  BY <1>0, <1>3, <2>1 DEF Pc
<1> HIDE DEF r
<1>5. /\ conf'[c] = r
      /\ \A d \in Confirmers : d # c => conf'[d] = conf[d]
      /\ VersionTypeOK'
  BY <1>1, <1>4, Moved DEF VersionInv, VersionTypeOK
<1>6. /\ \A q \in Policies : Of(q)' = Of(q) /\ NumbersOK(q)'
      /\ \A v \in versions : Asked(v.policy)'
      /\ \A d \in Confirmers : conf'[d] = conf[d] => ConfirmationOK(d)'
  BY <1>1, SameVersions
<1>7. Number(c)' = Number(c)
  <2>1. conf'[c].policy = p /\ conf'[c].spec = conf[c].spec
    BY <1>4, <1>5
  <2>2. Existing(c)' = Existing(c)
    BY <1>0, <1>1, <2>1 DEF Existing, Of
  <2>3. MaxVersion(conf[c].policy)' = MaxVersion(conf[c].policy)
    BY <1>0, <1>1, <2>1 DEF MaxVersion, Of
  <2> QED  BY <2>2, <2>3 DEF Number
<1>8. ConfirmationOK(c)'
  <2>1. Asked(conf[c].policy)'
    BY <1>1, <1>2, <1>4, <1>5 DEF Asked
  <2> QED  BY <1>2, <1>4, <1>5, <1>7, <2>1 DEF ConfirmationOK
<1>9. LocksExclude'
  <2>1. \A d \in Confirmers : conf[d].pc = "locked" => conf[d].policy # p
    BY <1>1 DEF Locked
  <2> QED  BY <1>4, <1>5, <2>1 DEF VersionInv, LocksExclude
<1> QED
  BY <1>1, <1>5, <1>6, <1>8, <1>9 DEF VersionInv

LEMMA CommitVersions ==
  ASSUME CompileInv, VersionInv, [PolicyNext]_policyVars, NEW c \in Confirmers, CommitVersion(c)
  PROVE  VersionInv'
<1>0. PICK p, n : p = conf[c].policy /\ n = New(c)
  OBVIOUS
<1> DEFINE r == [conf[c] EXCEPT !.pc = "done"]
<1>1. /\ conf[c].pc = "locked" /\ UNCHANGED draft
      /\ IF Collides(n) THEN Set(c, [conf[c] EXCEPT !.pc = "error"]) /\ UNCHANGED versions
                        ELSE Set(c, r) /\ versions' = versions \cup {n}
  BY <1>0 DEF CommitVersion, compileVars
<1>2. /\ p \in Policies /\ conf[c].spec \in Settled /\ Asked(p) /\ conf[c].version = Number(c)
      /\ ConfirmationOK(c)
  BY <1>0, <1>1 DEF VersionInv, ConfirmationOK
<1>3. /\ Number(c) \in Nat
      /\ \A v \in Of(p) : v.version = Number(c) <=> v.spec = conf[c].spec
      /\ (\A v \in Of(p) : v.spec # conf[c].spec) => Number(c) = Cardinality(Of(p)) + 1
  BY <1>0, <1>2, NumberIsRight
<1>4. n.policy = p /\ n.version = Number(c) /\ n.spec = conf[c].spec /\ n \in Version
  BY <1>0, <1>2, <1>3 DEF New, Version
<1>5. Set(c, r) /\ versions' = versions \cup {n}
  <2>1. ~Collides(n)
    BY <1>3, <1>4 DEF Collides
  <2> QED  BY <1>1, <2>1
<1>6. /\ r.pc = "done" /\ r.policy = p /\ r.spec = conf[c].spec /\ r.version = conf[c].version
      /\ r \in [pc : Pc, policy : Policies \cup {NoPolicy}, spec : Specs \cup {NoSpec}, version : Nat]
  <2>1. conf[c] \in [pc : Pc, policy : Policies \cup {NoPolicy},
                     spec : Specs \cup {NoSpec}, version : Nat]
    BY DEF VersionInv, VersionTypeOK
  <2> QED  BY <1>0, <2>1 DEF Pc
<1> HIDE DEF r
<1>7. /\ conf'[c] = r
      /\ \A d \in Confirmers : d # c => conf'[d] = conf[d]
      /\ VersionTypeOK'
  BY <1>4, <1>5, <1>6, Moved DEF VersionInv, VersionTypeOK
<1>8. /\ Of(p)' = Of(p) \cup {n}
      /\ \A q : q # p => Of(q)' = Of(q)
  BY <1>4, <1>5 DEF Of
<1>9. NumbersOK(p)'
  <2>1. NumbersOK(p) /\ \A v \in Of(p) : v \in Version
    BY <1>2 DEF VersionInv, VersionTypeOK, Of
  <2>2. CASE \E v \in Of(p) : v.spec = conf[c].spec
    <3>1. PICK v \in Of(p) : v.spec = conf[c].spec
      BY <2>2
    <3>2. v = n
      <4>1. v \in Version /\ v.policy = p /\ v.version = Number(c)
        BY <1>3, <2>1, <3>1 DEF Of
      <4> QED  BY <1>4, <3>1, <4>1 DEF Version
    <3>3. Of(p)' = Of(p)
      BY <1>8, <3>2
    <3> QED  BY <2>1, <3>3 DEF NumbersOK
  <2>3. CASE \A v \in Of(p) : v.spec # conf[c].spec
    <3>1. PICK m : m = Cardinality(Of(p))
      OBVIOUS
    <3>2. m \in Nat /\ n.version = m + 1 /\ n \notin Of(p)
      BY <1>2, <1>3, <1>4, <2>1, <2>3, <3>1, LastNumber
    <3>3. IsFiniteSet(Of(p)') /\ Cardinality(Of(p)') = m + 1
      BY <1>8, <2>1, <3>1, <3>2, FS_AddElement DEF NumbersOK
    <3>4. {v.version : v \in Of(p)'} = 1 .. m + 1
      <4>1. {v.version : v \in Of(p)'} = {v.version : v \in Of(p)} \cup {m + 1}
        BY <1>8, <3>2
      <4>2. {v.version : v \in Of(p)} = 1 .. m
        BY <2>1, <3>1 DEF NumbersOK
      <4>3. (1 .. m) \cup {m + 1} = 1 .. m + 1
        BY <3>2
      <4> QED  BY <4>1, <4>2, <4>3
    <3>5. \A v, w \in Of(p)' : v.version = w.version \/ v.spec = w.spec => v = w
      BY <1>3, <1>4, <1>8, <2>1, <2>3 DEF NumbersOK
    <3> QED  BY <3>3, <3>4, <3>5 DEF NumbersOK
  <2> QED  BY <2>2, <2>3
<1>10. ASSUME NEW q \in Policies  PROVE NumbersOK(q)'
  <2>1. CASE q = p
    BY <1>9, <2>1
  <2>2. CASE q # p
    <3>1. NumbersOK(q) /\ Of(q)' = Of(q)
      BY <1>8, <2>2 DEF VersionInv
    <3> QED  BY <3>1 DEF NumbersOK
  <2> QED  BY <2>1, <2>2
<1>11. \A v \in versions' : Asked(v.policy)'
  BY <1>1, <1>2, <1>4, <1>5 DEF VersionInv, Asked
<1>12. ASSUME NEW d \in Confirmers  PROVE ConfirmationOK(d)'
  <2>1. CASE d = c
    <3>1. New(c)' = n
      BY <1>0, <1>2, <1>4, <1>6, <1>7 DEF New
    <3>2. Asked(conf[c].policy)'
      BY <1>1, <1>2, <1>6, <1>7 DEF Asked
    <3> QED  BY <1>2, <1>5, <1>6, <1>7, <2>1, <3>1, <3>2 DEF ConfirmationOK
  <2>2. CASE d # c
    <3>1. conf'[d] = conf[d] /\ ConfirmationOK(d)
      BY <1>7, <2>2 DEF VersionInv
    <3>2. conf[d].pc = "locked" => Number(d)' = Number(d)
      <4> SUFFICES ASSUME conf[d].pc = "locked"  PROVE Number(d)' = Number(d)
        OBVIOUS
      <4>1. conf[d].policy # p
        BY <1>0, <1>1, <2>2 DEF VersionInv, LocksExclude
      <4>2. Of(conf[d].policy)' = Of(conf[d].policy)
        <5>1. PICK q : q = conf[d].policy
          OBVIOUS
        <5>2. Of(conf[d].policy)' = Of(q)'
          BY <3>1, <5>1 DEF Of
        <5> QED  BY <1>8, <4>1, <5>1, <5>2
      <4> QED  BY <3>1, <4>2, NumberStays
    <3>3. New(d)' = New(d) /\ (Asked(conf[d].policy)' <=> Asked(conf[d].policy))
      BY <1>1, <3>1 DEF New, Asked
    <3> QED  BY <1>5, <3>1, <3>2, <3>3 DEF ConfirmationOK
  <2> QED  BY <2>1, <2>2
<1>13. LocksExclude'
  <2>1. \A d \in Confirmers : conf'[d].pc = "locked" => conf[d].pc = "locked" /\ conf'[d] = conf[d]
    BY <1>6, <1>7
  <2> QED  BY <2>1 DEF VersionInv, LocksExclude
<1> QED
  BY <1>7, <1>10, <1>11, <1>12, <1>13 DEF VersionInv

LEMMA VersionStep ==
  ASSUME CompileInv, VersionInv, [PolicyNext]_policyVars
  PROVE  VersionInv'
<1>1. CASE UNCHANGED <<versions, conf>>
  <2>1. /\ \A q \in Policies : NumbersOK(q)'
        /\ \A v \in versions : Asked(v.policy)'
        /\ \A d \in Confirmers : ConfirmationOK(d)'
    BY <1>1, SameVersions
  <2> QED  BY <1>1, <2>1 DEF VersionInv, VersionTypeOK, LocksExclude
<1>2. UNCHANGED <<versions, conf>>
      \/ (\E c \in Confirmers, p \in Policies, s \in Specs \cup {NoSpec} : Confirm(c, p, s))
      \/ \E c \in Confirmers : Lock(c) \/ CommitVersion(c)
  BY DEF PolicyNext, policyVars, Compile, Answered
<1> QED
  BY <1>1, <1>2, ConfirmVersions, LockVersions, CommitVersions

\* PostgresRuleVersionStore.confirm: whatever confirmations come together, the one that holds a
\* policy's lock has the right number, and the numbers of a policy have no gaps.
THEOREM VersionInvariant == PolicySpec => []VersionInv
<1>1. CompileInv /\ VersionInv /\ [PolicyNext]_policyVars => VersionInv'
  BY VersionStep
<1> QED
  BY <1>1, VersionStart, CompileInvariant, PTL DEF PolicySpec

\* PostgresRuleVersionStore.confirm: for any policies, specs and concurrent confirmations none
\* fails on a uniqueness constraint, versions are numbered from 1 without gaps and differ in
\* content, each confirmation is answered with its own content, and no version is ambiguous,
\* invalid or, for a vague text, unasked.
THEOREM VersionsAreSound == PolicySpec => []VersionsSound
<1>1. VersionInv => VersionsSound
  <2> SUFFICES ASSUME VersionInv  PROVE VersionsSound
    OBVIOUS
  <2>1. \A c \in Confirmers : conf[c].pc # "error" /\ (conf[c].pc = "done" => New(c) \in versions)
    BY DEF VersionInv, ConfirmationOK
  <2>2. ASSUME NEW p \in Policies
        PROVE  /\ {v.version : v \in Of(p)} = 1 .. Cardinality(Of(p))
               /\ Cardinality({v.spec : v \in Of(p)}) = Cardinality(Of(p))
    <3> DEFINE S == {v.spec : v \in Of(p)}
               f == [v \in Of(p) |-> v.spec]
    <3>1. NumbersOK(p)
      BY DEF VersionInv
    <3>2. f \in Surjection(Of(p), S) /\ f \in Injection(Of(p), S)
      BY <3>1 DEF Surjection, Injection, IsInjective, NumbersOK
    <3>3. IsFiniteSet(Of(p))
      BY <3>1 DEF NumbersOK
    <3> HIDE DEF f, S
    <3>4. Cardinality(S) = Cardinality(Of(p))
      BY <3>2, <3>3, FS_Surjection
    <3> QED  BY <3>1, <3>4 DEF NumbersOK, S
  <2>3. \A v \in versions : /\ v.spec \in Specs \ (Ambiguous \cup Invalid)
                            /\ v.policy \in Vague => draft[v.policy].status = "NEEDS_CONFIRMATION"
    BY DEF VersionInv, VersionTypeOK, Version, Settled, Asked
  <2> QED  BY <2>1, <2>2, <2>3 DEF VersionsSound
<1> QED
  BY <1>1, VersionInvariant, PTL
=============================================================================
