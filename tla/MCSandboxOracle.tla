-------------------------- MODULE MCSandboxOracle --------------------------
(***************************************************************************)
(* Every scenario and every profile over two orders, one coupon and two    *)
(* memberships.  A unit is two cents, so an order of five earns two points *)
(* and gives them back in fractions when it is refunded cent by cent.      *)
(***************************************************************************)
EXTENDS SandboxOracle

\* The lost acknowledgement changes no table: its runs are those without it.
MCRuns == {r \in RunSpace : r.axes \cap TRANSPORT_DEFECT_AXES = {}}
MCBalances == {6}
MCAmounts == {0, 1, 5}
=============================================================================
