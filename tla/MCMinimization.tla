--------------------------- MODULE MCMinimization ---------------------------
(***************************************************************************)
(* Every trace of up to seven actions and every answer of the replays.     *)
(***************************************************************************)
EXTENDS Minimization
=============================================================================
