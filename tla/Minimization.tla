---------------------------- MODULE Minimization ----------------------------
(***************************************************************************)
(* minimize_trace (packages/attack_runtime/.../minimization.py) as         *)
(* SandboxReplayRunner.minimize (replay.py) uses it: every candidate is    *)
(* replayed in a fresh run of the sandbox and kept if the Oracle's finding *)
(* for the target invariant is VIOLATED.                                   *)
(*                                                                         *)
(* What a replay answers is open, but the same for the same candidate: the *)
(* sandbox and the Oracle are deterministic and the run is fresh.  It need *)
(* not be monotone: deleting a CREATE_ORDER makes the alias order-1 mean   *)
(* another order, so a longer trace may satisfy what a shorter violates.   *)
(* An action is its position in the original trace.                        *)
(***************************************************************************)
EXTENDS Integers, Sequences

CONSTANTS MaxLength,   \* bound: actions of the original trace
          Findings     \* what the Oracle may find of the target invariant

OracleStatus == {"SATISFIED", "VIOLATED", "NOT_APPLICABLE", "INSUFFICIENT_EVIDENCE"}

ASSUME BoundsAssumption == MaxLength \in Nat /\ Findings \subseteq OracleStatus

VARIABLES actions,       \* the trace to minimise
          known,         \* the answers of the replays made so far
          phase,         \* the loop minimize_trace is in
          current, granularity, start, index, trials,
          one_minimal

minVars == <<actions, known, phase, current, granularity, start, index, trials, one_minimal>>

\* mutant: a replay that proves nothing counts as a confirmation
BenefitOfDoubt(status) ==
  IF status \in {"VIOLATED", "INSUFFICIENT_EVIDENCE"} THEN "CONFIRMED_VIOLATION"
  ELSE "MODEL_DIVERGENCE"

classify_replay(status) ==
  CASE status = "VIOLATED" -> "CONFIRMED_VIOLATION"
    [] status = "INSUFFICIENT_EVIDENCE" -> "INSUFFICIENT_EVIDENCE"
    [] OTHER -> "MODEL_DIVERGENCE"

Most(a, b) == IF a >= b THEN a ELSE b
Least(a, b) == IF a <= b THEN a ELSE b

\* current[:i] + current[i + n:], with i counted from 0
Without(s, i, n) == SubSeq(s, 1, i) \o SubSeq(s, i + n + 1, Len(s))

chunk_size == Most(1, (Len(current) + granularity - 1) \div granularity)

-----------------------------------------------------------------------------

MinInit ==
  /\ \E n \in 0 .. MaxLength : actions = [i \in 1 .. n |-> i]
  /\ known = <<>> /\ phase = "original"
  /\ current = actions /\ granularity = 2 /\ start = 0 /\ index = 0 /\ trials = 0
  /\ one_minimal = TRUE

\* What a replay of the candidate may answer: what it answered before, if there was one.
Answers(candidate) ==
  IF candidate \in DOMAIN known THEN {known[candidate]} ELSE Findings

\* confirms(candidate) is `yes`.
Confirms(candidate, yes) ==
  /\ \E status \in Answers(candidate) :
       /\ yes = (classify_replay(status) = "CONFIRMED_VIOLATION")
       /\ known' = [c \in DOMAIN known \cup {candidate} |->
                     IF c = candidate THEN status ELSE known[c]]
  /\ trials' = trials + 1

CheckOriginal ==
  /\ phase = "original"
  /\ \/ Confirms(current, TRUE) /\ phase' = "chunks"
     \/ Confirms(current, FALSE) /\ phase' = "rejected"   \* ValueError
  /\ UNCHANGED <<actions, current, granularity, start, index, one_minimal>>

\* One deletion of the for loop of the first phase; when it confirms, the for loop breaks.
DeleteChunk ==
  LET candidate == Without(current, start, chunk_size) IN
  /\ phase = "chunks" /\ Len(current) >= 2 /\ start < Len(current)
  /\ \/ /\ Confirms(candidate, TRUE)
        /\ current' = candidate /\ granularity' = Most(2, granularity - 1) /\ start' = 0
     \/ /\ Confirms(candidate, FALSE)
        /\ start' = start + chunk_size
        /\ UNCHANGED <<current, granularity>>
  /\ UNCHANGED <<actions, phase, index, one_minimal>>

\* No chunk could go: finer ones, unless they already are single actions.
Refine ==
  /\ phase = "chunks" /\ Len(current) >= 2 /\ start >= Len(current)
  /\ granularity < Len(current)
  /\ granularity' = Least(Len(current), granularity * 2) /\ start' = 0
  /\ UNCHANGED <<actions, known, phase, current, index, trials, one_minimal>>

\* mutant: a trace that got too short for chunks is not handed on
OnlyAtFinest ==
  /\ phase = "chunks"
  /\ start >= Len(current) /\ granularity >= Len(current)
  /\ phase' = "singles" /\ index' = 0
  /\ UNCHANGED <<actions, known, current, granularity, start, trials, one_minimal>>

ChunksDone ==
  /\ phase = "chunks"
  /\ Len(current) < 2 \/ (start >= Len(current) /\ granularity >= Len(current))
  /\ phase' = "singles" /\ index' = 0
  /\ UNCHANGED <<actions, known, current, granularity, start, trials, one_minimal>>

DeleteOne ==
  LET candidate == Without(current, index, 1) IN
  /\ phase = "singles" /\ index < Len(current)
  /\ \/ Confirms(candidate, TRUE) /\ current' = candidate /\ UNCHANGED index
     \/ Confirms(candidate, FALSE) /\ index' = index + 1 /\ UNCHANGED current
  /\ UNCHANGED <<actions, phase, granularity, start, one_minimal>>

SinglesDone ==
  /\ phase = "singles" /\ index >= Len(current)
  /\ phase' = "verify" /\ index' = 0
  /\ UNCHANGED <<actions, known, current, granularity, start, trials, one_minimal>>

Verify ==
  /\ phase = "verify" /\ index < Len(current)
  /\ \E yes \in BOOLEAN :
       /\ Confirms(Without(current, index, 1), yes)
       /\ one_minimal' = (one_minimal /\ ~yes)
       /\ index' = IF yes THEN Len(current) ELSE index + 1
  /\ UNCHANGED <<actions, phase, current, granularity, start>>

Return ==
  /\ phase = "verify" /\ index >= Len(current)
  /\ phase' = "done"
  /\ UNCHANGED <<actions, known, current, granularity, start, index, trials, one_minimal>>

\* A replay gets no answer from the sandbox (an HTTP error, or ActionUnknownError when a
\* write it lost track of has no receipt): minimize raises.
ReplayRaises ==
  /\ phase \in {"original", "chunks", "singles", "verify"}
  /\ phase' = "raised"
  /\ UNCHANGED <<actions, known, current, granularity, start, index, trials, one_minimal>>

Progress ==
  \/ CheckOriginal
  \/ DeleteChunk \/ Refine \/ ChunksDone
  \/ DeleteOne \/ SinglesDone
  \/ Verify \/ Return

MinNext == Progress \/ ReplayRaises

\* Every replay ends: its HTTP calls have a timeout.
MinSpec == MinInit /\ [][MinNext]_minVars /\ WF_minVars(Progress)

-----------------------------------------------------------------------------
(* Properties *)

Shown(candidate) == candidate \in DOMAIN known /\ known[candidate] = "VIOLATED"

\* Each replay creates a run in the sandbox, and no budget limits them.
MaxTrials(n) == (n * (n + 5)) \div 2 + 1

\* minimize_trace: what it returns is a subsequence of the original trace that was itself
\* replayed and violates the invariant, and every trace with one action less was replayed and
\* does not, monotone or not: it always can say one_minimal.  It never takes more than
\* MaxTrials replays.
ResultSound ==
  /\ trials <= MaxTrials(Len(actions))
  /\ phase = "done" =>
       /\ Shown(current)
       /\ \A i \in DOMAIN current : \A j \in 1 .. i - 1 : current[j] < current[i]
       /\ one_minimal
       /\ \A i \in DOMAIN current :
            LET c == Without(current, i - 1, 1) IN c \in DOMAIN known /\ ~Shown(c)

\* minimize_trace ends, whatever the replays answer: the chunks get finer or the trace shorter.
MinimizationEnds == <>(phase \in {"done", "rejected", "raised"})
=============================================================================
