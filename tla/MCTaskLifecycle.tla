--------------------------- MODULE MCTaskLifecycle ---------------------------
(****************************************************************************)
(* TaskLifecycle on one task with a long history, or two with short ones.   *)
(****************************************************************************)
EXTENDS TaskLifecycle, TLC

Symmetry == Permutations(Tasks) \cup Permutations(DecisionIds)
              \cup Permutations(QuestionIds) \cup Permutations(RunIds)
=============================================================================
