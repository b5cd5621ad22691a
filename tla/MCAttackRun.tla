---------------------------- MODULE MCAttackRun ----------------------------
(***************************************************************************)
(* One or two workers on one run.                                          *)
(***************************************************************************)
EXTENDS AttackRun, TLC

WorkerSymmetry == Permutations(Workers)
=============================================================================
