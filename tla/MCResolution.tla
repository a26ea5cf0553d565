---------------------------- MODULE MCResolution -----------------------------
(****************************************************************************)
(* Resolution with the built-in resolvers and a plugin before the last: a   *)
(* reference that each of them claims, one that nobody serves, one in the   *)
(* old form, one that is not a reference, and a decision whose own is none. *)
(****************************************************************************)
EXTENDS Resolution

SmallPieces == {"", "local", "agent-taskstate", "memx", "tracker", "task", "decision",
                "evidence", "artifact", "issue", "github", "jira", "T", "D", "E", "I"}

SmallLower == [p \in SmallPieces |-> p]

Task == <<"agent-taskstate", "task", "local", "T">>
OtherTask == <<"agent-taskstate", "task", "local", "D">>
Evidence == <<"memx", "evidence", "local", "E">>
EvidenceLegacy == <<"memx", "evidence", "E">>
Artifact == <<"memx", "artifact", "local", "E">>
Issue == <<"tracker", "issue", "github", "I">>
Ticket == <<"tracker", "issue", "jira", "I">>
NoRef == <<"jira", "issue", "I">>

\* decision add takes the id of its payload, which may have a colon.
Colon == <<"agent-taskstate", "decision", "local", "D", "E">>

OneTask == <<[kind |-> "task", ref |-> Task]>>
WithDecision == Append(OneTask, [kind |-> "decision", ref |-> Colon])

SmallRows ==
  {[own |-> OneTask, artifact |-> << >>, evidence |-> << >>],
   [own |-> OneTask, artifact |-> <<NoRef, OtherTask>>, evidence |-> <<Issue>>],
   [own |-> OneTask, artifact |-> <<Evidence>>, evidence |-> <<EvidenceLegacy>>],
   [own |-> OneTask, artifact |-> <<Artifact>>, evidence |-> <<Ticket, Evidence>>],
   [own |-> OneTask, artifact |-> <<Issue>>, evidence |-> <<Evidence>>],
   [own |-> WithDecision, artifact |-> << >>, evidence |-> <<Evidence>>]}

AllResolvers == <<"local", "memx", "plugin", "tracker">>
=============================================================================
