------------------------- MODULE MCTransitionSessions -------------------------
(****************************************************************************)
(* TransitionSessions on small sets of tasks and sessions.                  *)
(****************************************************************************)
EXTENDS TransitionSessions, TLC

\* Tasks are interchangeable, and so are the sessions of one kind.
Symmetry == Permutations(Tasks) \cup Permutations(CliSessions)
              \cup Permutations(ApiSessions)
=============================================================================
