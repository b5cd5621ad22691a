--------------------------- MODULE PolicyVersions ---------------------------
(***************************************************************************)
(* From rule text to a confirmed rule version: RuleCompiler.compile over a *)
(* RecordedLLMAdapter (packages/attack_runtime/.../compiler.py), the       *)
(* policy endpoints of control_api (api.py) and PostgresRuleVersionStore   *)
(* (postgres_store.py).                                                    *)
(*                                                                         *)
(* One API process compiles: it shares one adapter between all requests,   *)
(* and a request gives way to others only while it waits for the provider. *)
(* Confirmations may come from several API processes; each is one database *)
(* transaction.  A policy is the compile request it stems from: its id is  *)
(* fresh, so its draft is written once.                                    *)
(***************************************************************************)
EXTENDS Integers, Sequences, FiniteSets, SequencesExt, FiniteSetsExt

CONSTANTS Policies,      \* compile requests
          Refused,       \* those with an unknown template, an empty or a code-like text
          Vague,         \* those whose text leaves something open
          Specs,         \* RuleSpecs that parse
          Ambiguous,     \* those that list ambiguities
          Invalid,       \* those validate_rule_spec objects to
          Confirmers     \* confirmation requests

ASSUME TextAssumption == Refused \subseteq Policies /\ Vague \subseteq Policies
ASSUME SpecsAssumption == Ambiguous \subseteq Specs /\ Invalid \subseteq Specs /\ "none" \notin Specs

NoSpec == "none"
MaxAttempts == 3

VARIABLES work,          \* the compile requests: not begun (0), attempt 1 to 3, or over (4)
          pending,       \* RecordedLLMAdapter._pending_calls: <<policy, attempt>>
          draft,         \* control.policy_compile, with the calls its llm_call sums up
          versions,      \* control.rule_version
          conf           \* the confirmation requests

compileVars == <<work, pending, draft>>
policyVars == <<compileVars, versions, conf>>

-----------------------------------------------------------------------------
(* The compiler *)

NoDraft == [status |-> "NONE", spec |-> NoSpec, calls |-> <<>>]

PolicyInit ==
  /\ work = [p \in Policies |-> 0] /\ pending = <<>>
  /\ draft = [p \in Policies |-> NoDraft]
  /\ versions = {}
  /\ conf = [c \in Confirmers |-> [pc |-> "new", policy |-> CHOOSE p \in Policies : TRUE,
                                   spec |-> NoSpec, version |-> 0]]

\* What one call of the provider comes to: a spec, something that is not one (not JSON, not an
\* object, not a RuleSpec, not the adapter's contract), or no answer.
Replies == Specs \cup {"garbage", "unreachable", "http error"}

\* The direct route first, then the proxy if the first one was unreachable.
call(direct, proxy) == IF direct = "unreachable" THEN proxy ELSE direct

validate_rule_spec(spec) == spec \notin Invalid

\* Every call is recorded, whether it answered or raised.
complete_structured(p) == Append(pending, <<p, work[p]>>)

record_compile(p, status, spec, calls) ==
  draft' = [draft EXCEPT ![p] = [status |-> status, spec |-> spec, calls |-> calls]]

DrainKeeps(p, status, spec, calls) ==   \* mutant: the drained calls stay
  /\ record_compile(p, status, spec, calls)
  /\ work' = [work EXCEPT ![p] = MaxAttempts + 1]
  /\ pending' = calls

\* The request returns: its draft takes all calls recorded since the last drain.
Finish(p, status, spec, calls) ==
  /\ record_compile(p, status, spec, calls)
  /\ work' = [work EXCEPT ![p] = MaxAttempts + 1]
  /\ pending' = <<>>

Compile(p) ==
  /\ work[p] = 0
  /\ IF p \in Refused
     THEN /\ draft' = [draft EXCEPT ![p].status = "REJECTED"]
          /\ work' = [work EXCEPT ![p] = MaxAttempts + 1]
     ELSE work' = [work EXCEPT ![p] = 1] /\ UNCHANGED draft
  /\ UNCHANGED <<pending, versions, conf>>

\* Questions: the spec's ambiguities, or the vague words of the text.
Verdict(p, spec) ==
  IF spec \in Ambiguous \/ p \in Vague THEN "NEEDS_CONFIRMATION" ELSE "COMPILED"

\* complete_structured returns or raises, and compile goes on to its next await or its end.
Answered(p, reply) ==
  LET calls == complete_structured(p) IN
  /\ work[p] \in 1 .. MaxAttempts
  /\ \/ /\ reply \in Specs /\ validate_rule_spec(reply)
        /\ Finish(p, Verdict(p, reply), reply, calls)
     \/ /\ reply = "http error" \/ (work[p] = MaxAttempts /\ ~(reply \in Specs \ Invalid))
        /\ Finish(p, "REJECTED", NoSpec, calls)
     \/ /\ reply \in {"garbage", "unreachable"} \cup Invalid /\ work[p] < MaxAttempts
        /\ work' = [work EXCEPT ![p] = @ + 1] /\ pending' = calls
        /\ UNCHANGED draft
  /\ UNCHANGED <<versions, conf>>

-----------------------------------------------------------------------------
(* Confirmation *)

Set(c, r) == conf' = [conf EXCEPT ![c] = r]

\* PolicyService.confirm up to the store: with the draft as it is, or with a spec that settles
\* an ambiguous one.
Confirmable(p, confirmed) ==
  IF confirmed = NoSpec
  THEN draft[p].status = "COMPILED"
  ELSE /\ draft[p].status = "NEEDS_CONFIRMATION"
       /\ confirmed \notin Ambiguous /\ validate_rule_spec(confirmed)

Confirm(c, p, confirmed) ==
  /\ conf[c].pc = "new" /\ draft[p].status # "NONE"
  /\ Set(c, [conf[c] EXCEPT !.pc = IF Confirmable(p, confirmed) THEN "waiting" ELSE "refused",
                            !.policy = p,
                            !.spec = IF confirmed = NoSpec THEN draft[p].spec ELSE confirmed])
  /\ UNCHANGED <<compileVars, versions>>

Of(p) == {v \in versions : v.policy = p}
Existing(c) == {v \in Of(conf[c].policy) : v.spec = conf[c].spec}
MaxVersion(p) == Max({v.version : v \in Of(p)} \cup {0})

\* pg_advisory_xact_lock(hashtext(policy_id)), held to the end of the transaction
Locked(p) == \E c \in Confirmers : conf[c].pc = "locked" /\ conf[c].policy = p

\* The version with this content, or the next number.
Number(c) == IF Existing(c) # {} THEN (CHOOSE v \in Existing(c) : TRUE).version
             ELSE 1 + MaxVersion(conf[c].policy)

TakesNoLock(c) ==   \* mutant: confirmations do not wait for each other
  /\ conf[c].pc = "waiting"
  /\ Set(c, [conf[c] EXCEPT !.pc = "locked", !.version = Number(c)])
  /\ UNCHANGED <<compileVars, versions>>

Lock(c) ==
  /\ conf[c].pc = "waiting" /\ ~Locked(conf[c].policy)
  /\ Set(c, [conf[c] EXCEPT !.pc = "locked", !.version = Number(c)])
  /\ UNCHANGED <<compileVars, versions>>

New(c) == [policy |-> conf[c].policy, version |-> conf[c].version, spec |-> conf[c].spec]

\* rule_version is unique on (policy, version) and on (policy, content_hash).
Collides(v) == \E w \in Of(v.policy) : (w.version = v.version) # (w.spec = v.spec)

CommitVersion(c) ==
  /\ conf[c].pc = "locked"
  /\ IF Collides(New(c))
     THEN Set(c, [conf[c] EXCEPT !.pc = "error"]) /\ UNCHANGED versions
     ELSE Set(c, [conf[c] EXCEPT !.pc = "done"]) /\ versions' = versions \cup {New(c)}
  /\ UNCHANGED compileVars

PolicyNext ==
  \/ \E p \in Policies : Compile(p)
  \/ \E p \in Policies, direct, proxy \in Replies : Answered(p, call(direct, proxy))
  \/ \E c \in Confirmers, p \in Policies, s \in Specs \cup {NoSpec} : Confirm(c, p, s)
  \/ \E c \in Confirmers : Lock(c) \/ CommitVersion(c)

PolicySpec == PolicyInit /\ [][PolicyNext]_policyVars

-----------------------------------------------------------------------------
(* Properties *)

Over(p) == work[p] = MaxAttempts + 1
Recorded == ToSet(pending) \cup UNION {ToSet(draft[p].calls) : p \in Policies}
CallsOf(p) == {n \in 1 .. MaxAttempts : <<p, n>> \in Recorded}

\* No call is listed twice: among those not drained, in a draft, or in two of these.
ChargedOnce ==
  /\ IsInjective(pending)
  /\ \A p \in Policies : /\ IsInjective(draft[p].calls)
                         /\ ToSet(draft[p].calls) \cap ToSet(pending) = {}
  /\ \A p, q \in Policies : p # q => ToSet(draft[p].calls) \cap ToSet(draft[q].calls) = {}

\* RecordedLLMAdapter is shared by requests that overlap, so a draft may be charged with the
\* calls of another; but every call is charged exactly once, and the response_hash of a draft
\* (its last record's) is that of the request's own last answer.
CallsAccountedOnce ==
  /\ ChargedOnce
  /\ \A p \in Policies :
       /\ \A n \in CallsOf(p) : n = 1 \/ n - 1 \in CallsOf(p)
       /\ ~Over(p) => Cardinality(CallsOf(p)) = Max({0, work[p] - 1})
       /\ Over(p) /\ p \notin Refused =>
            /\ draft[p].calls # <<>>
            /\ Last(draft[p].calls) = <<p, Max(CallsOf(p))>>

\* PostgresRuleVersionStore.confirm: whatever confirmations come together, none fails on the
\* uniqueness of rule_version; a policy's versions are numbered from 1 without gaps and differ
\* in content, every confirmation is answered with the version that has its content, and no
\* version has ambiguities or, for a vague text, is what the model made of it unasked.
VersionsSound ==
  /\ \A c \in Confirmers : conf[c].pc # "error"
  /\ \A c \in Confirmers : conf[c].pc = "done" => New(c) \in versions
  /\ \A p \in Policies :
       /\ {v.version : v \in Of(p)} = 1 .. Cardinality(Of(p))
       /\ Cardinality({v.spec : v \in Of(p)}) = Cardinality(Of(p))
  /\ \A v \in versions :
       /\ v.spec \in Specs \ (Ambiguous \cup Invalid)
       /\ v.policy \in Vague => draft[v.policy].status = "NEEDS_CONFIRMATION"
=============================================================================
