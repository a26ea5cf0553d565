---------------------------- MODULE MCDashboard ----------------------------
(****************************************************************************)
(* Dashboard with two columns, current_step and another one.                *)
(****************************************************************************)
EXTENDS Dashboard, TLC

Symmetry == Permutations(Clients)
=============================================================================
