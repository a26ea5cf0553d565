---------------------------- MODULE TaskLifecycle ----------------------------
(****************************************************************************)
(* A task and everything the command line keeps about it: its status and    *)
(* history, its goal, its dashboard, its decisions, questions and runs.     *)
(*                                                                          *)
(* Each writing command is one step, because it holds SQLite's lock from    *)
(* init_db to commit and rolls back on any error (TransitionSessions shows  *)
(* it for the status commands, statement by statement).  A command that     *)
(* fails changes nothing and is not a step.                                 *)
(*                                                                          *)
(* Columns are reduced to what the status checks read: whether the goal is  *)
(* empty, what done_when amounts to, whether there is a current_summary.    *)
(****************************************************************************)
EXTENDS TransitionRules, FiniteSets

CONSTANTS
  Tasks, DecisionIds, QuestionIds, RunIds,
  MaxHistory,  \* bound: a task with this many rows is not moved any more
  NoRow        \* the table has no row with this id

VARIABLES
  status, log,  \* tasks.status and state_transitions, as in StatusLog
  goal,         \* whether tasks.goal is a non-empty string
  dash,         \* the row of task_states, or NoRow
  decisions, questions, runs,  \* rows by id, or NoRow
  goalAt, dashAt, askedAt      \* of a task's goal and dashboard and of a question: Entries
                               \* when it was written; only the properties read them

rowVars == <<decisions, questions, runs>>
stamps == <<goalAt, dashAt, askedAt>>
vars == <<status, log, goal, dash, rowVars, stamps>>

\* done_when: no item, an item that is not done, every item done.  current_step
\* is never empty in a stored dashboard (module Dashboard), so it is left out.
Dashboards == [doneWhen : {"none", "open", "met"}, summary : BOOLEAN]

DecisionStatuses == {"proposed", "accepted", "rejected", "superseded"}
QuestionStatuses == {"open", "answered", "deferred", "invalid"}
RunStatuses == {"running", "succeeded", "failed", "cancelled"}

Decisions == [task : Tasks, status : DecisionStatuses]
Questions == [task : Tasks, high : BOOLEAN, status : QuestionStatuses]
Runs == [task : Tasks, status : RunStatuses]

ASSUME LifecycleAssumption ==
  /\ NoRow \notin Dashboards \cup Decisions \cup Questions \cup Runs
  /\ MaxHistory \in Nat \ {0}

Init ==
  /\ status = [t \in Tasks |-> NoStatus]
  /\ log = [t \in Tasks |-> << >>]
  /\ goal = [t \in Tasks |-> FALSE]
  /\ dash = [t \in Tasks |-> NoRow]
  /\ decisions = [d \in DecisionIds |-> NoRow]
  /\ questions = [q \in QuestionIds |-> NoRow]
  /\ runs = [r \in RunIds |-> NoRow]
  /\ goalAt = [t \in Tasks |-> 0] /\ dashAt = [t \in Tasks |-> 0]
  /\ askedAt = [q \in QuestionIds |-> 0]

TaskExists(t) == status[t] # NoStatus

\* How often set-status has moved t to one of these statuses.
Entries(t, targets) == Cardinality({i \in 2..Len(log[t]) : log[t][i].to \in targets})

-------------------------------------------------------------------------------
(* What a status change looks at                                            *)

HasDash(t) == dash[t] # NoRow

OpenHighQuestions(t) ==
  {q \in QuestionIds :
     /\ questions[q] # NoRow /\ questions[q].task = t
     /\ questions[q].status = "open" /\ questions[q].high}

RelevantDecisions(t) ==
  {d \in DecisionIds :
     /\ decisions[d] # NoRow /\ decisions[d].task = t
     /\ decisions[d].status \in {"accepted", "proposed"}}

\* Mutant: review does not ask for a decision.
GateWithoutDecision(t, to) ==
  /\ to = "ready" => goal[t] /\ HasDash(t) /\ dash[t].doneWhen # "none"
  /\ to = "in_progress" => HasDash(t)
  /\ to = "review" => OpenHighQuestions(t) = {}
  /\ to = "done" => /\ status[t] = "review" /\ HasDash(t)
                    /\ dash[t].doneWhen = "met" /\ dash[t].summary

\* The checks of validate_status_transition after the table.
GateOpen(t, to) ==
  /\ to = "ready" => goal[t] /\ HasDash(t) /\ dash[t].doneWhen # "none"
  /\ to = "in_progress" => HasDash(t)
  /\ to = "review" => OpenHighQuestions(t) = {} /\ RelevantDecisions(t) # {}
  /\ to = "done" => /\ status[t] = "review" /\ HasDash(t)
                    /\ dash[t].doneWhen = "met" /\ dash[t].summary

-------------------------------------------------------------------------------
(* task create, task update, task set-status                                *)

\* Mutant: tasks.status is updated past the service, which has no row of it.
WriteStatusOnly(t, to, why) ==
  /\ status' = [status EXCEPT ![t] = to]
  /\ UNCHANGED log

WriteStatus(t, to, why) ==
  /\ log' = [log EXCEPT ![t] = Append(@, Row(status[t], to, why))]
  /\ status' = [status EXCEPT ![t] = to]

TaskCreate(t, st, hasGoal) ==
  /\ ~TaskExists(t)
  /\ st \in TaskStatuses
  /\ WriteStatus(t, st, TRUE)
  /\ goal' = [goal EXCEPT ![t] = hasGoal]
  /\ UNCHANGED <<dash, rowVars, stamps>>

\* Any field but the status; of the fields, the checks read the goal.
TaskUpdate(t, hasGoal) ==
  /\ TaskExists(t)
  /\ goal' = [goal EXCEPT ![t] = hasGoal]
  /\ goalAt' = [goalAt EXCEPT ![t] = Entries(t, {"ready"})]
  /\ UNCHANGED <<status, log, dash, rowVars, dashAt, askedAt>>

SetStatus(t, to, why) ==
  /\ TaskExists(t) /\ Len(log[t]) < MaxHistory
  /\ to \in TaskStatuses
  /\ <<status[t], to>> \in CliEdges
  /\ GateOpen(t, to)
  /\ ServicePermits(status[t], to, why)
  /\ WriteStatus(t, to, why)
  /\ UNCHANGED <<goal, dash, rowVars, stamps>>

-------------------------------------------------------------------------------
(* state put, state patch                                                   *)

WriteDash(t, new) ==
  /\ dash' = [dash EXCEPT ![t] = new]
  /\ dashAt' = [dashAt EXCEPT ![t] = Entries(t, {"ready", "done"})]
  /\ UNCHANGED <<status, log, goal, rowVars, goalAt, askedAt>>

StatePut(t, new) == TaskExists(t) /\ ~HasDash(t) /\ WriteDash(t, new)

\* The revision matched (module Dashboard): any column may have changed.
StatePatch(t, new) == TaskExists(t) /\ HasDash(t) /\ WriteDash(t, new)

-------------------------------------------------------------------------------
(* decision add / accept / reject, question add / answer / defer            *)

\* A decision that is superseded need only exist; its row is left as it is.
DecisionAdd(d, t, st) ==
  /\ TaskExists(t) /\ decisions[d] = NoRow
  /\ decisions' = [decisions EXCEPT ![d] = [task |-> t, status |-> st]]
  /\ UNCHANGED <<status, log, goal, dash, questions, runs, stamps>>

SetDecisionStatus(d, st) ==
  /\ decisions[d] # NoRow
  /\ decisions' = [decisions EXCEPT ![d].status = st]
  /\ UNCHANGED <<status, log, goal, dash, questions, runs, stamps>>

DecisionAccept(d) == SetDecisionStatus(d, "accepted")
DecisionReject(d) == SetDecisionStatus(d, "rejected")

QuestionAdd(q, t, high, st) ==
  /\ TaskExists(t) /\ questions[q] = NoRow
  /\ questions' = [questions EXCEPT ![q] =
                     [task |-> t, high |-> high, status |-> st]]
  /\ askedAt' = [askedAt EXCEPT ![q] = Entries(t, {"review"})]
  /\ UNCHANGED <<status, log, goal, dash, decisions, runs, goalAt, dashAt>>

SetQuestionStatus(q, st) ==
  /\ questions[q] # NoRow
  /\ questions' = [questions EXCEPT ![q].status = st]
  /\ UNCHANGED <<status, log, goal, dash, decisions, runs, stamps>>

QuestionAnswer(q) == SetQuestionStatus(q, "answered")
QuestionDefer(q) == SetQuestionStatus(q, "deferred")

-------------------------------------------------------------------------------
(* run start, run finish                                                    *)

RunStart(r, t) ==
  /\ TaskExists(t) /\ runs[r] = NoRow
  /\ runs' = [runs EXCEPT ![r] = [task |-> t, status |-> "running"]]
  /\ UNCHANGED <<status, log, goal, dash, decisions, questions, stamps>>

\* Mutant: a run is finished whatever its status.
RunFinishAgain(r, st) ==
  /\ runs[r] # NoRow
  /\ runs' = [runs EXCEPT ![r].status = st]
  /\ UNCHANGED <<status, log, goal, dash, decisions, questions, stamps>>

RunFinish(r, st) ==
  /\ runs[r] # NoRow
  /\ runs[r].status = "running"
  /\ runs' = [runs EXCEPT ![r].status = st]
  /\ UNCHANGED <<status, log, goal, dash, decisions, questions, stamps>>

-------------------------------------------------------------------------------
TaskCommand(t) ==
  \/ \E st \in TaskStatuses, hasGoal \in BOOLEAN : TaskCreate(t, st, hasGoal)
  \/ \E hasGoal \in BOOLEAN : TaskUpdate(t, hasGoal)
  \/ \E to \in TaskStatuses, why \in BOOLEAN : SetStatus(t, to, why)
  \/ \E new \in Dashboards : StatePut(t, new) \/ StatePatch(t, new)
  \/ \E d \in DecisionIds, st \in DecisionStatuses : DecisionAdd(d, t, st)
  \/ \E q \in QuestionIds, high \in BOOLEAN, st \in QuestionStatuses :
       QuestionAdd(q, t, high, st)
  \/ \E r \in RunIds : RunStart(r, t)

RowCommand ==
  \/ \E d \in DecisionIds : DecisionAccept(d) \/ DecisionReject(d)
  \/ \E q \in QuestionIds : QuestionAnswer(q) \/ QuestionDefer(q)
  \/ \E r \in RunIds, st \in RunStatuses \ {"running"} : RunFinish(r, st)

Next == (\E t \in Tasks : TaskCommand(t)) \/ RowCommand

Spec == Init /\ [][Next]_vars

-------------------------------------------------------------------------------
(* Properties                                                               *)

\* The variables keep their types; a task never has a status that only the
\* service's table knows.
TypeOK ==
  /\ status \in [Tasks -> TaskStatuses \cup {NoStatus}]
  /\ log \in [Tasks -> Seq(LogEntries)]
  /\ goal \in [Tasks -> BOOLEAN]
  /\ dash \in [Tasks -> Dashboards \cup {NoRow}]
  /\ decisions \in [DecisionIds -> Decisions \cup {NoRow}]
  /\ questions \in [QuestionIds -> Questions \cup {NoRow}]
  /\ runs \in [RunIds -> Runs \cup {NoRow}]
  /\ goalAt \in [Tasks -> Nat] /\ dashAt \in [Tasks -> Nat]
  /\ askedAt \in [QuestionIds -> Nat]

HasDecision(t) ==
  \E d \in DecisionIds :
    decisions[d] # NoRow /\ decisions[d].task = t /\ decisions[d].status # "superseded"

\* A gate that a task has passed still holds of whatever nobody has written since.  A
\* goal that was last written before the task became ready is a goal, and a dashboard
\* from before has items; one from before the task became done says that all of them are
\* met; a high-priority question from before the last move to review is not open, whatever
\* the task did since; the dashboard and the decision are there for good.  It is about moves:
\* a task that was created further on is asked at its next gate.
GatesStillHold ==
  \A t \in Tasks :
    /\ goalAt[t] < Entries(t, {"ready"}) => goal[t]
    /\ Entries(t, {"ready", "in_progress", "done"}) > 0 => HasDash(t)
    /\ dashAt[t] < Entries(t, {"ready", "done"}) => dash[t].doneWhen # "none"
    /\ dashAt[t] < Entries(t, {"ready", "done"}) /\ status[t] = "done" /\ Len(log[t]) > 1
         => dash[t].doneWhen = "met" /\ dash[t].summary
    /\ Entries(t, {"review"}) > 0 => HasDecision(t)
    /\ \A q \in OpenHighQuestions(t) : askedAt[q] = Entries(t, {"review"})

\* A question that is not open never is again, and a finished run never changes: the
\* high-priority questions a review was cleared of cannot come back, only new
\* ones can be asked.  An answered question may still be deferred.  Decisions are not
\* meant: accept and reject may follow each other (decision.py:67-88).
ClosedStaysClosed ==
  [][/\ \A q \in QuestionIds :
          questions[q] # NoRow /\ questions[q].status # "open"
            => questions'[q] # NoRow /\ questions'[q].status # "open"
     /\ \A r \in RunIds :
          runs[r] # NoRow /\ runs[r].status # "running" => runs'[r] = runs[r]]_vars

\* With all its commands the lifecycle is still the abstract status history.
Promise == INSTANCE StatusLog WITH status <- status, log <- log

ImplementsStatusLog == Promise!SLSpec
=============================================================================
