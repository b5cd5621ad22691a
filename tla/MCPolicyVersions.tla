-------------------------- MODULE MCPolicyVersions --------------------------
(***************************************************************************)
(* Three compile requests of which two can overlap, one of them vague, and *)
(* two confirmations.                                                      *)
(***************************************************************************)
EXTENDS PolicyVersions, TLC

CONSTANTS c1, c2
ConfirmerSymmetry == Permutations({c1, c2})
=============================================================================
