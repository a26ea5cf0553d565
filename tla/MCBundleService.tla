--------------------------- MODULE MCBundleService ---------------------------
(****************************************************************************)
(* BundleService on small sets of services, tasks and bundles.              *)
(****************************************************************************)
EXTENDS BundleService, TLC

Symmetry == Permutations(Services \ Rebuilders) \cup Permutations(Rebuilders)
              \cup Permutations(Tasks) \cup Permutations(BundleIds) \cup Permutations(Refs)
=============================================================================
