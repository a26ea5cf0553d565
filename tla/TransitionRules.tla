--------------------------- MODULE TransitionRules ---------------------------
(****************************************************************************)
(* The two transition tables of the program.  A status change made by the   *)
(* command line passes both of them: first the CLI's own table              *)
(* (cli/constants.py), then the service's (transition_config.py).  A caller *)
(* of the library passes the service's table only.                          *)
(*                                                                          *)
(* The service's table is the default of TransitionConfig: the YAML file is *)
(* looked up in src/config, where the repository has none.                  *)
(****************************************************************************)

EXTENDS Naturals, Sequences

\* Every status the service's table names.
Statuses == {"draft", "proposed", "ready", "in_progress", "blocked",
             "review", "done", "cancelled", "archived"}

\* The statuses the CLI accepts in a payload or in --to.
TaskStatuses == Statuses \ {"proposed", "cancelled"}

\* The SQL NULL that is the source of a task's first transition.
NoStatus == "NULL"

\* TransitionConfig.allowed_transitions, as edges; a status with no entry has
\* no successor, and neither have cancelled and archived.  A task that is done may
\* go on, as docs/agent-taskstate_mvp_spec.md:226 has it; INV-050 and
\* docs/specs/state-machine.md:195 forbid it.
ServiceEdges ==
  ({"draft"} \X {"ready", "archived"})
    \cup ({"proposed"} \X {"ready", "cancelled"})
    \cup ({"ready"} \X {"in_progress", "cancelled"})
    \cup ({"in_progress"} \X {"blocked", "review", "cancelled"})
    \cup ({"blocked"} \X {"in_progress", "cancelled"})
    \cup ({"review"} \X {"in_progress", "done", "cancelled"})
    \cup ({"done"} \X {"in_progress", "archived"})

CanTransition(from, to) == <<from, to>> \in ServiceEdges

\* The four rules of reason_required; a "*" source matches every status.  For
\* docs/tests/task.feature:257-275 review -> done and done -> archived need none.
RequiresReason(from, to) ==
  \/ from = "done" /\ to = "in_progress"
  \/ to \in {"done", "cancelled", "archived"}

\* ALLOWED_TRANSITIONS of the CLI: nothing to or from proposed or cancelled.
CliEdges ==
  ({"draft"} \X {"ready", "archived"})
    \cup ({"ready"} \X {"in_progress"})
    \cup ({"in_progress"} \X {"blocked", "review"})
    \cup ({"blocked"} \X {"in_progress"})
    \cup ({"review"} \X {"in_progress", "done"})
    \cup ({"done"} \X {"archived", "in_progress"})

\* What StateTransitionService.transition lets through, for a reason that is
\* given (why) or empty: the status changes, the edge is in the table and a
\* reason is there where one is required.
ServicePermits(from, to, why) ==
  /\ from # to
  /\ CanTransition(from, to)
  /\ RequiresReason(from, to) => why

\* A row of state_transitions; why tells a given reason from the empty string.
LogEntries == [from : Statuses \cup {NoStatus}, to : Statuses, why : BOOLEAN]

\* Mutant: the two status columns of the INSERT in the wrong order.
RowSwapped(from, to, why) == [from |-> to, to |-> from, why |-> why]

Row(from, to, why) == [from |-> from, to |-> to, why |-> why]

\* Each row of a history starts where the row before it ended, the first one at
\* NULL, and every later row is an edge that transition() lets through.
FollowsGraph(rows) ==
  /\ rows # << >> => rows[1].from = NoStatus
  /\ \A i \in 2..Len(rows) :
       /\ rows[i].from = rows[i - 1].to
       /\ ServicePermits(rows[i].from, rows[i].to, rows[i].why)

\* The status is what the last row of the history says, NULL with no row.
EndsIn(rows, current) ==
  IF rows = << >> THEN current = NoStatus ELSE current = rows[Len(rows)].to
=============================================================================
