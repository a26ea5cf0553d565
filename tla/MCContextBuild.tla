---------------------------- MODULE MCContextBuild ----------------------------
(****************************************************************************)
(* ContextBuild with one reader of each kind.                               *)
(****************************************************************************)
EXTENDS ContextBuild, TLC

Symmetry == Permutations(BundleIds)
=============================================================================
