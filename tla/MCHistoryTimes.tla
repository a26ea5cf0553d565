---------------------------- MODULE MCHistoryTimes ---------------------------
(****************************************************************************)
(* HistoryTimes on small sets of tasks and sessions of the command line.    *)
(****************************************************************************)
EXTENDS HistoryTimes, TLC

Symmetry == Permutations(Tasks) \cup Permutations(CliSessions)
=============================================================================
