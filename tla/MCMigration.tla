----------------------------- MODULE MCMigration -----------------------------
(****************************************************************************)
(* Migration on small sets of processes, tasks and bundles.                 *)
(****************************************************************************)
EXTENDS Migration, TLC

Symmetry == Permutations(Processes) \cup Permutations(Tasks)
              \cup Permutations(BundleIds) \cup Permutations(Statuses)
              \cup Permutations(NewTables) \cup Permutations(NewColumns)
=============================================================================
