--------------------------- MODULE MCBenchmarkRun ---------------------------
(***************************************************************************)
(* Two invocations on a suite of a vulnerable and a normal case.           *)
(***************************************************************************)
EXTENDS BenchmarkRun

CONSTANTS c1, c2, p1, p2
MCCases == <<c1, c2>>

Plain == [seed |-> 1, repetitions |-> 1, concurrency |-> 1, resume |-> TRUE]

\* One invocation is plain.  The other one is the same, does not resume, executes two cells at
\* once, or comes with another seed or other repetitions.
MCSetups ==
  {[p \in {p1, p2} |-> IF p = p1 THEN Plain ELSE c] :
     c \in {Plain, [Plain EXCEPT !.resume = FALSE], [Plain EXCEPT !.concurrency = 2],
           [Plain EXCEPT !.seed = 2], [Plain EXCEPT !.repetitions = 2]}}
=============================================================================
