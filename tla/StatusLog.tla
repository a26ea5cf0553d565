------------------------------ MODULE StatusLog ------------------------------
(****************************************************************************)
(* What the program promises about a task's status, with no database, no    *)
(* sessions and no commands: a task has one current status, and an          *)
(* append-only history that explains it.  A step creates one task or moves  *)
(* one task along an edge of the service's table, giving a reason where one *)
(* is required.                                                             *)
(****************************************************************************)
EXTENDS TransitionRules

CONSTANT Tasks

VARIABLES
  status,  \* tasks.status, NoStatus while the task has no row
  log      \* the rows of state_transitions of each task, oldest first

slVars == <<status, log>>

SLInit ==
  /\ status = [t \in Tasks |-> NoStatus]
  /\ log = [t \in Tasks |-> << >>]

Record(t, to, why) ==
  /\ log' = [log EXCEPT ![t] = Append(@, Row(status[t], to, why))]
  /\ status' = [status EXCEPT ![t] = to]

\* A new task may start in any status of the CLI's list.
CreateTask(t, to) ==
  /\ status[t] = NoStatus
  /\ Record(t, to, TRUE)

MoveTask(t, to, why) ==
  /\ status[t] # NoStatus
  /\ ServicePermits(status[t], to, why)
  /\ Record(t, to, why)

SLNext ==
  \E t \in Tasks, to \in Statuses :
    \/ to \in TaskStatuses /\ CreateTask(t, to)
    \/ \E why \in BOOLEAN : MoveTask(t, to, why)

SLSpec == SLInit /\ [][SLNext]_slVars

-------------------------------------------------------------------------------
(* Properties                                                               *)

SLTypeOK ==
  /\ status \in [Tasks -> Statuses \cup {NoStatus}]
  /\ log \in [Tasks -> Seq(LogEntries)]

\* The history of a task explains its status: it is a path of the table from
\* NULL that ends in the status (what "task history" and "task show" report).
HistoryExplainsStatus ==
  \A t \in Tasks : FollowsGraph(log[t]) /\ EndsIn(log[t], status[t])
=============================================================================
