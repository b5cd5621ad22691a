------------------------- MODULE MCCommerceSandbox -------------------------
(***************************************************************************)
(* Two keys shared by every command of every scenario, so that replays,    *)
(* one key under two actions, rejected receipts and keys reused after a    *)
(* reset all occur.                                                        *)
(***************************************************************************)
EXTENDS CommerceSandbox, TLC

\* The handlers' defects do not matter here; what is accepted does.
MCRuns == {r \in RunSpace : r.axes = {}}
KeySymmetry == Permutations(Keys)
=============================================================================
