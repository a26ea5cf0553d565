------------------------- MODULE TaskLifecycleProofs -------------------------
(****************************************************************************)
(* Proofs about TaskLifecycle for any tasks, decisions, questions and runs. *)
(****************************************************************************)
EXTENDS TaskLifecycle, SequenceTheorems, FiniteSetTheorems, TLAPS

-------------------------------------------------------------------------------
(* Types                                                                    *)

\* What TypeOK says of a row that is there.
LEMMA RowsAreTyped ==
  ASSUME TypeOK
  PROVE  /\ \A d \in DecisionIds : decisions[d] # NoRow => decisions[d] \in Decisions
         /\ \A q \in QuestionIds : questions[q] # NoRow => questions[q] \in Questions
         /\ \A r \in RunIds : runs[r] # NoRow => runs[r] \in Runs
BY DEF TypeOK

\* A row of the history of a status that is there.
LEMMA WriteStatusTyped ==
  ASSUME TypeOK, NEW t \in Tasks, NEW to \in TaskStatuses, NEW why \in BOOLEAN,
         WriteStatus(t, to, why)
  PROVE  /\ status' \in [Tasks -> TaskStatuses \cup {NoStatus}]
         /\ log' \in [Tasks -> Seq(LogEntries)]
<1>1. Row(status[t], to, why) \in LogEntries
  BY DEF TypeOK, Row, LogEntries, TaskStatuses
<1>2. Append(log[t], Row(status[t], to, why)) \in Seq(LogEntries)
  BY <1>1, AppendProperties DEF TypeOK
<1>3. QED
  BY <1>2 DEF WriteStatus, TypeOK

LEMMA EntriesNat ==
  ASSUME TypeOK, NEW t \in Tasks, NEW targets
  PROVE  /\ IsFiniteSet({i \in 2..Len(log[t]) : log[t][i].to \in targets})
         /\ Entries(t, targets) \in Nat
<1>1. Len(log[t]) \in Nat
  BY LenProperties DEF TypeOK
<1>2. IsFiniteSet(2..Len(log[t]))
  BY <1>1, FS_Interval
<1>3. IsFiniteSet({i \in 2..Len(log[t]) : log[t][i].to \in targets})
  BY <1>2, FS_Subset
<1>4. QED
  BY <1>3, FS_CardinalityType DEF Entries

LEMMA TypeStep == TypeOK /\ [Next]_vars => TypeOK'
<1> SUFFICES ASSUME TypeOK, [Next]_vars PROVE TypeOK'
  OBVIOUS
<1> USE DEF TypeOK
<1>1. ASSUME NEW t \in Tasks, NEW st \in TaskStatuses, NEW hasGoal \in BOOLEAN,
             TaskCreate(t, st, hasGoal)
      PROVE  TypeOK'
  <2>1. WriteStatus(t, st, TRUE)
    BY <1>1 DEF TaskCreate
  <2>2. /\ status' \in [Tasks -> TaskStatuses \cup {NoStatus}]
        /\ log' \in [Tasks -> Seq(LogEntries)]
    BY <2>1, WriteStatusTyped
  <2>3. QED
    BY <1>1, <2>2 DEF TaskCreate, rowVars, stamps
<1>2. ASSUME NEW t \in Tasks, NEW hasGoal \in BOOLEAN, TaskUpdate(t, hasGoal) PROVE TypeOK'
  BY <1>2, EntriesNat DEF TaskUpdate, rowVars
<1>3. ASSUME NEW t \in Tasks, NEW to \in TaskStatuses, NEW why \in BOOLEAN, SetStatus(t, to, why)
      PROVE  TypeOK'
  <2>1. WriteStatus(t, to, why)
    BY <1>3 DEF SetStatus
  <2>2. /\ status' \in [Tasks -> TaskStatuses \cup {NoStatus}]
        /\ log' \in [Tasks -> Seq(LogEntries)]
    BY <2>1, WriteStatusTyped
  <2>3. QED
    BY <1>3, <2>2 DEF SetStatus, rowVars, stamps
<1>4. ASSUME NEW t \in Tasks, NEW new \in Dashboards, StatePut(t, new) \/ StatePatch(t, new)
      PROVE  TypeOK'
  <2>1. WriteDash(t, new)
    BY <1>4 DEF StatePut, StatePatch
  <2>2. Entries(t, {"ready", "done"}) \in Nat
    BY EntriesNat
  <2>3. QED
    BY <2>1, <2>2 DEF WriteDash, rowVars
<1>5. ASSUME NEW t \in Tasks, NEW d \in DecisionIds, NEW st \in DecisionStatuses,
             DecisionAdd(d, t, st)
      PROVE  TypeOK'
  BY <1>5 DEF DecisionAdd, Decisions, stamps
<1>6. ASSUME NEW t \in Tasks, NEW q \in QuestionIds, NEW high \in BOOLEAN,
             NEW st \in QuestionStatuses, QuestionAdd(q, t, high, st)
      PROVE  TypeOK'
  BY <1>6, EntriesNat DEF QuestionAdd, Questions
<1>7. ASSUME NEW t \in Tasks, NEW r \in RunIds, RunStart(r, t) PROVE TypeOK'
  BY <1>7 DEF RunStart, Runs, RunStatuses, stamps
<1>8. ASSUME NEW d \in DecisionIds, DecisionAccept(d) \/ DecisionReject(d) PROVE TypeOK'
  <2>1. PICK st \in DecisionStatuses : SetDecisionStatus(d, st)
    BY <1>8 DEF DecisionAccept, DecisionReject, DecisionStatuses
  <2>2. decisions[d] \in Decisions
    BY <1>8, <2>1, RowsAreTyped DEF SetDecisionStatus
  <2>3. [decisions[d] EXCEPT !.status = st] \in Decisions
    BY <2>1, <2>2 DEF Decisions
  <2>4. decisions' = [decisions EXCEPT ![d] = [decisions[d] EXCEPT !.status = st]]
    BY <2>1 DEF SetDecisionStatus
  <2>5. decisions' \in [DecisionIds -> Decisions \cup {NoRow}]
    BY <2>3, <2>4
  <2> QED
    BY <2>1, <2>5 DEF SetDecisionStatus, stamps
<1>9. ASSUME NEW q \in QuestionIds, QuestionAnswer(q) \/ QuestionDefer(q) PROVE TypeOK'
  <2>1. PICK st \in QuestionStatuses : SetQuestionStatus(q, st)
    BY <1>9 DEF QuestionAnswer, QuestionDefer, QuestionStatuses
  <2>2. questions[q] \in Questions
    BY <1>9, <2>1, RowsAreTyped DEF SetQuestionStatus
  <2>3. [questions[q] EXCEPT !.status = st] \in Questions
    BY <2>1, <2>2 DEF Questions
  <2>4. questions' = [questions EXCEPT ![q] = [questions[q] EXCEPT !.status = st]]
    BY <2>1 DEF SetQuestionStatus
  <2>5. questions' \in [QuestionIds -> Questions \cup {NoRow}]
    BY <2>3, <2>4
  <2> QED
    BY <2>1, <2>5 DEF SetQuestionStatus, stamps
<1>10. ASSUME NEW r \in RunIds, NEW st \in RunStatuses, RunFinish(r, st) PROVE TypeOK'
  <2>1. runs[r] \in Runs /\ [runs[r] EXCEPT !.status = st] \in Runs
    BY <1>10, RowsAreTyped DEF RunFinish, Runs
  <2>2. runs' = [runs EXCEPT ![r] = [runs[r] EXCEPT !.status = st]]
    BY <1>10 DEF RunFinish
  <2> QED
    BY <1>10, <2>1, <2>2 DEF RunFinish, stamps
<1>11. CASE UNCHANGED vars
  BY <1>11 DEF vars, rowVars, stamps
<1>12. QED
  BY <1>1, <1>2, <1>3, <1>4, <1>5, <1>6, <1>7, <1>8, <1>9, <1>10, <1>11
     DEF Next, TaskCommand, RowCommand

\* Every command keeps the types, and gives no task a status that only the service
\* knows, for any tasks and rows.
THEOREM TypeCorrect == Spec => []TypeOK
<1>1. Init => TypeOK
  BY EmptySeq DEF Init, TypeOK
<1>2. QED
  BY <1>1, TypeStep, PTL DEF Spec

-------------------------------------------------------------------------------
(* The status history                                                       *)

\* What a command does to a status and its history.
LEMMA StatusStep ==
  ASSUME [Next]_vars
  PROVE  \/ UNCHANGED <<status, log>>
         \/ \E t \in Tasks, to \in TaskStatuses :
              ~TaskExists(t) /\ WriteStatus(t, to, TRUE)
         \/ \E t \in Tasks, to \in TaskStatuses, why \in BOOLEAN :
              /\ TaskExists(t) /\ <<status[t], to>> \in CliEdges /\ GateOpen(t, to)
              /\ ServicePermits(status[t], to, why) /\ WriteStatus(t, to, why)
              /\ UNCHANGED <<dash, decisions>>
<1>1. ASSUME NEW t \in Tasks, NEW st \in TaskStatuses, NEW hasGoal \in BOOLEAN,
             TaskCreate(t, st, hasGoal)
      PROVE  ~TaskExists(t) /\ WriteStatus(t, st, TRUE)
  BY <1>1 DEF TaskCreate
<1>2. ASSUME NEW t \in Tasks, NEW to \in TaskStatuses, NEW why \in BOOLEAN, SetStatus(t, to, why)
      PROVE  /\ TaskExists(t) /\ <<status[t], to>> \in CliEdges /\ GateOpen(t, to)
             /\ ServicePermits(status[t], to, why) /\ WriteStatus(t, to, why)
             /\ UNCHANGED <<dash, decisions>>
  BY <1>2 DEF SetStatus, rowVars
<1>3. CASE UNCHANGED vars
  BY <1>3 DEF vars
<1>4. ASSUME NEW t \in Tasks,
             \/ \E hasGoal \in BOOLEAN : TaskUpdate(t, hasGoal)
             \/ \E new \in Dashboards : StatePut(t, new) \/ StatePatch(t, new)
             \/ \E d \in DecisionIds, st \in DecisionStatuses : DecisionAdd(d, t, st)
             \/ \E q \in QuestionIds, high \in BOOLEAN, st \in QuestionStatuses :
                  QuestionAdd(q, t, high, st)
             \/ \E r \in RunIds : RunStart(r, t)
      PROVE  UNCHANGED <<status, log>>
  BY <1>4 DEF TaskUpdate, StatePut, StatePatch, WriteDash, DecisionAdd, QuestionAdd, RunStart
<1>5. ASSUME RowCommand PROVE UNCHANGED <<status, log>>
  BY <1>5 DEF RowCommand, DecisionAccept, DecisionReject, SetDecisionStatus, QuestionAnswer,
              QuestionDefer, SetQuestionStatus, RunFinish
<1>6. QED
  BY <1>1, <1>2, <1>3, <1>4, <1>5 DEF Next, TaskCommand

\* The abstract history has the rules of this module.
LEMMA SameRules ==
  /\ Promise!NoStatus = NoStatus /\ Promise!Statuses = Statuses
  /\ Promise!TaskStatuses = TaskStatuses
  /\ \A from, to, why : Promise!ServicePermits(from, to, why) <=> ServicePermits(from, to, why)
  /\ \A from, to, why : Promise!Row(from, to, why) = Row(from, to, why)
BY DEF Promise!NoStatus, NoStatus, Promise!Statuses, Statuses, Promise!TaskStatuses,
       TaskStatuses, Promise!ServicePermits, ServicePermits, Promise!CanTransition,
       CanTransition, Promise!ServiceEdges, ServiceEdges, Promise!RequiresReason,
       RequiresReason, Promise!Row, Row

\* With all its commands the lifecycle implements the abstract status history, for any
\* tasks and rows: a command that writes a status is a creation or a legal move with the
\* row that says so, every other command leaves both alone.
THEOREM LifecycleImplementsStatusLog == Spec => ImplementsStatusLog
<1>1. Init => Promise!SLInit
  BY SameRules DEF Init, Promise!SLInit
<1>2. [Next]_vars => [Promise!SLNext]_(Promise!slVars)
  <2> SUFFICES ASSUME [Next]_vars PROVE [Promise!SLNext]_(Promise!slVars)
    OBVIOUS
  <2>1. CASE UNCHANGED <<status, log>>
    BY <2>1 DEF Promise!slVars
  <2>2. ASSUME NEW t \in Tasks, NEW to \in TaskStatuses, ~TaskExists(t), WriteStatus(t, to, TRUE)
        PROVE  Promise!SLNext
    <3>1. Promise!CreateTask(t, to)
      BY <2>2, SameRules DEF TaskExists, WriteStatus, Promise!CreateTask, Promise!Record
    <3>2. to \in Statuses
      BY DEF TaskStatuses
    <3>3. QED
      BY <3>1, <3>2, SameRules DEF Promise!SLNext
  <2>3. ASSUME NEW t \in Tasks, NEW to \in TaskStatuses, NEW why \in BOOLEAN,
               TaskExists(t), ServicePermits(status[t], to, why), WriteStatus(t, to, why)
        PROVE  Promise!SLNext
    <3>1. Promise!MoveTask(t, to, why)
      BY <2>3, SameRules DEF TaskExists, WriteStatus, Promise!MoveTask, Promise!Record
    <3>2. to \in Statuses
      BY DEF TaskStatuses
    <3>3. QED
      BY <3>1, <3>2, SameRules DEF Promise!SLNext
  <2>4. QED
    BY <2>1, <2>2, <2>3, StatusStep
<1>3. QED
  BY <1>1, <1>2, PTL DEF Spec, ImplementsStatusLog, Promise!SLSpec

-------------------------------------------------------------------------------
(* What the gates vouch for                                                 *)

GatesHold(t) ==
  /\ goalAt[t] < Entries(t, {"ready"}) => goal[t]
  /\ Entries(t, {"ready", "in_progress", "done"}) > 0 => HasDash(t)
  /\ dashAt[t] < Entries(t, {"ready", "done"}) => dash[t].doneWhen # "none"
  /\ dashAt[t] < Entries(t, {"ready", "done"}) /\ status[t] = "done" /\ Len(log[t]) > 1
       => dash[t].doneWhen = "met" /\ dash[t].summary
  /\ Entries(t, {"review"}) > 0 => HasDecision(t)
  /\ \A q \in OpenHighQuestions(t) : askedAt[q] = Entries(t, {"review"})

\* A task that does not exist has no history; the rest is the property, which no command
\* that writes a row can break without moving its stamp, and no move without its gate.
GateInv ==
  /\ TypeOK
  /\ \A t \in Tasks : TaskExists(t) <=> log[t] # << >>
  /\ GatesStillHold

\* A row more: how often each status was entered.
LEMMA EntriesAppend ==
  ASSUME TypeOK, NEW t \in Tasks, NEW to \in TaskStatuses, NEW why \in BOOLEAN,
         WriteStatus(t, to, why), NEW targets
  PROVE  /\ log'[t] # << >> /\ Len(log'[t]) = Len(log[t]) + 1
         /\ log[t] = << >> => Entries(t, targets)' = Entries(t, targets)
         /\ log[t] # << >> =>
              Entries(t, targets)' =
                IF to \in targets THEN Entries(t, targets) + 1 ELSE Entries(t, targets)
<1> DEFINE n == Len(log[t])
           before == {i \in 2..n : log[t][i].to \in targets}
           after == {i \in 2..(n + 1) : log'[t][i].to \in targets}
<1>1. log[t] \in Seq(LogEntries) /\ Row(status[t], to, why) \in LogEntries
  BY DEF TypeOK, Row, LogEntries, TaskStatuses
<1>2. log'[t] = Append(log[t], Row(status[t], to, why))
  BY DEF WriteStatus, TypeOK
<1>3. /\ n \in Nat /\ Len(log'[t]) = n + 1
      /\ \A i \in 1..n : log'[t][i] = log[t][i]
      /\ log'[t][n + 1] = Row(status[t], to, why)
  BY <1>1, <1>2, AppendProperties, LenProperties
<1>4. log'[t] # << >> /\ (log[t] = << >> <=> n = 0)
  BY <1>1, <1>2, <1>3, EmptySeq, LenProperties, AppendProperties
<1>5. Entries(t, targets) = Cardinality(before) /\ Entries(t, targets)' = Cardinality(after)
  BY <1>3 DEF Entries
<1>6. log'[t][n + 1].to = to
  BY <1>3 DEF Row
<1>7. IsFiniteSet(before)
  BY EntriesNat
<1> HIDE DEF n
<1>8. CASE n = 0
  <2>1. before = {} /\ after = {}
    BY <1>3, <1>8
  <2>2. QED
    BY <1>3, <1>4, <1>5, <1>8, <2>1 DEF n
<1>9. CASE n > 0 /\ to \in targets
  <2>1. after = before \cup {n + 1}
    BY <1>3, <1>6, <1>9
  <2>2. n + 1 \notin before
    BY <1>3
  <2>3. Cardinality(after) = Cardinality(before) + 1
    BY <1>7, <2>1, <2>2, FS_AddElement
  <2>4. QED
    BY <1>3, <1>4, <1>5, <1>9, <2>3 DEF n
<1>10. CASE n > 0 /\ to \notin targets
  <2>1. \A i \in 2..n : i \in after <=> i \in before
    BY <1>3
  <2>2. n + 1 \notin after
    BY <1>6, <1>10
  <2>3. after = before
    BY <1>3, <2>1, <2>2
  <2>4. QED
    BY <1>3, <1>4, <1>5, <1>10, <2>3 DEF n
<1>11. QED
  BY <1>3, <1>8, <1>9, <1>10

\* No command removes a dashboard or a decision, or makes a decision superseded.
LEMMA RowsStay ==
  ASSUME TypeOK, [Next]_vars, NEW t \in Tasks
  PROVE  /\ HasDash(t) => HasDash(t)'
         /\ HasDecision(t) => HasDecision(t)'
<1> USE DEF HasDash, HasDecision
<1>1. ASSUME NEW u \in Tasks, NEW new \in Dashboards, StatePut(u, new) \/ StatePatch(u, new)
      PROVE  /\ HasDash(t) => HasDash(t)'
             /\ HasDecision(t) => HasDecision(t)'
  <2>1. new # NoRow
    BY LifecycleAssumption
  <2>2. QED
    BY <1>1, <2>1 DEF StatePut, StatePatch, WriteDash, rowVars, TypeOK
<1>2. ASSUME NEW u \in Tasks, NEW d \in DecisionIds, NEW st \in DecisionStatuses,
             DecisionAdd(d, u, st)
      PROVE  /\ HasDash(t) => HasDash(t)'
             /\ HasDecision(t) => HasDecision(t)'
  BY <1>2 DEF DecisionAdd, TypeOK
<1>3. ASSUME NEW d \in DecisionIds, NEW st \in {"accepted", "rejected"}, SetDecisionStatus(d, st)
      PROVE  /\ HasDash(t) => HasDash(t)'
             /\ HasDecision(t) => HasDecision(t)'
  <2>1. decisions[d] \in Decisions
    BY <1>3, RowsAreTyped DEF SetDecisionStatus
  <2>2. /\ decisions'[d] \in Decisions /\ decisions'[d].task = decisions[d].task
        /\ decisions'[d].status = st
        /\ \A c \in DecisionIds \ {d} : decisions'[c] = decisions[c]
    BY <1>3, <2>1 DEF SetDecisionStatus, Decisions, DecisionStatuses, TypeOK
  <2>3. decisions'[d] # NoRow
    BY <2>2, LifecycleAssumption
  <2>4. QED
    BY <1>3, <2>2, <2>3 DEF SetDecisionStatus
<1>4. CASE UNCHANGED <<dash, decisions>>
  BY <1>4
<1>5. ASSUME NEW u \in Tasks,
             \/ \E st \in TaskStatuses, hasGoal \in BOOLEAN : TaskCreate(u, st, hasGoal)
             \/ \E hasGoal \in BOOLEAN : TaskUpdate(u, hasGoal)
             \/ \E to \in TaskStatuses, why \in BOOLEAN : SetStatus(u, to, why)
             \/ \E q \in QuestionIds, high \in BOOLEAN, st \in QuestionStatuses :
                  QuestionAdd(q, u, high, st)
             \/ \E r \in RunIds : RunStart(r, u)
      PROVE  UNCHANGED <<dash, decisions>>
  BY <1>5 DEF TaskCreate, TaskUpdate, SetStatus, QuestionAdd, RunStart, rowVars
<1>6. ASSUME \/ \E q \in QuestionIds : QuestionAnswer(q) \/ QuestionDefer(q)
             \/ \E r \in RunIds, st \in RunStatuses \ {"running"} : RunFinish(r, st)
      PROVE  UNCHANGED <<dash, decisions>>
  BY <1>6 DEF QuestionAnswer, QuestionDefer, SetQuestionStatus, RunFinish
<1>7. CASE UNCHANGED vars
  BY <1>4, <1>7 DEF vars, rowVars
<1>8. ASSUME \E d \in DecisionIds : DecisionAccept(d) \/ DecisionReject(d)
      PROVE  \E d \in DecisionIds, st \in {"accepted", "rejected"} : SetDecisionStatus(d, st)
  BY <1>8 DEF DecisionAccept, DecisionReject
<1>9. CASE Next
  BY <1>1, <1>2, <1>3, <1>4, <1>5, <1>6, <1>8, <1>9 DEF Next, TaskCommand, RowCommand
<1>10. QED
  BY <1>7, <1>9

\* A command that writes no status: the stamp follows what is written, and the questions of
\* a task that are open and of high priority are new ones or were so before.
LEMMA WritesKeepGates ==
  ASSUME TypeOK, [Next]_vars, NEW t \in Tasks, GatesHold(t),
         status'[t] = status[t], log'[t] = log[t]
  PROVE  GatesHold(t)'
<1> DEFINE Goal == goal'[t] = goal[t] /\ goalAt'[t] = goalAt[t]
           Dash == dash'[t] = dash[t] /\ dashAt'[t] = dashAt[t]
           Asked == \A q \in OpenHighQuestions(t)' :
                      q \in OpenHighQuestions(t) /\ askedAt'[q] = askedAt[q]
<1>1. \A targets : Entries(t, targets)' = Entries(t, targets)
  BY DEF Entries
<1>2. \A targets : Entries(t, targets) \in Nat
  BY EntriesNat
<1>3. (HasDash(t) => HasDash(t)') /\ (HasDecision(t) => HasDecision(t)')
  BY RowsStay
<1>4. UNCHANGED questions => OpenHighQuestions(t)' = OpenHighQuestions(t)
  BY DEF OpenHighQuestions
<1>5. Goal \/ goalAt'[t] = Entries(t, {"ready"})
  <2>1. ASSUME NEW u \in Tasks, NEW hasGoal \in BOOLEAN, TaskUpdate(u, hasGoal)
        PROVE  Goal \/ goalAt'[t] = Entries(t, {"ready"})
    BY <2>1 DEF TaskUpdate, TypeOK
  <2>2. ASSUME NEW u \in Tasks, NEW st \in TaskStatuses, NEW hasGoal \in BOOLEAN,
               TaskCreate(u, st, hasGoal)
        PROVE  Goal
    <3>1. u # t
      BY <2>2 DEF TaskCreate, TaskExists, WriteStatus, TypeOK, TaskStatuses, Statuses, NoStatus
    <3>2. QED
      BY <2>2, <3>1 DEF TaskCreate, stamps, TypeOK
  <2>3. ASSUME NEW u \in Tasks,
               \/ \E to \in TaskStatuses, why \in BOOLEAN : SetStatus(u, to, why)
               \/ \E new \in Dashboards : StatePut(u, new) \/ StatePatch(u, new)
               \/ \E d \in DecisionIds, st \in DecisionStatuses : DecisionAdd(d, u, st)
               \/ \E q \in QuestionIds, high \in BOOLEAN, st \in QuestionStatuses :
                    QuestionAdd(q, u, high, st)
               \/ \E r \in RunIds : RunStart(r, u)
        PROVE  UNCHANGED <<goal, goalAt>>
    BY <2>3 DEF SetStatus, StatePut, StatePatch, WriteDash, DecisionAdd, QuestionAdd, RunStart,
                stamps
  <2>4. ASSUME RowCommand PROVE UNCHANGED <<goal, goalAt>>
    BY <2>4 DEF RowCommand, DecisionAccept, DecisionReject, SetDecisionStatus, QuestionAnswer,
                QuestionDefer, SetQuestionStatus, RunFinish, stamps
  <2>5. CASE UNCHANGED vars
    BY <2>5 DEF vars, stamps
  <2>6. QED
    BY <2>1, <2>2, <2>3, <2>4, <2>5 DEF Next, TaskCommand
<1>6. Dash \/ dashAt'[t] = Entries(t, {"ready", "done"})
  <2>1. ASSUME NEW u \in Tasks, NEW new \in Dashboards, StatePut(u, new) \/ StatePatch(u, new)
        PROVE  Dash \/ dashAt'[t] = Entries(t, {"ready", "done"})
    BY <2>1 DEF StatePut, StatePatch, WriteDash, TypeOK
  <2>2. ASSUME NEW u \in Tasks,
               \/ \E st \in TaskStatuses, hasGoal \in BOOLEAN : TaskCreate(u, st, hasGoal)
               \/ \E hasGoal \in BOOLEAN : TaskUpdate(u, hasGoal)
               \/ \E to \in TaskStatuses, why \in BOOLEAN : SetStatus(u, to, why)
               \/ \E d \in DecisionIds, st \in DecisionStatuses : DecisionAdd(d, u, st)
               \/ \E q \in QuestionIds, high \in BOOLEAN, st \in QuestionStatuses :
                    QuestionAdd(q, u, high, st)
               \/ \E r \in RunIds : RunStart(r, u)
        PROVE  UNCHANGED <<dash, dashAt>>
    BY <2>2 DEF TaskCreate, TaskUpdate, SetStatus, DecisionAdd, QuestionAdd, RunStart, stamps
  <2>3. ASSUME RowCommand PROVE UNCHANGED <<dash, dashAt>>
    BY <2>3 DEF RowCommand, DecisionAccept, DecisionReject, SetDecisionStatus, QuestionAnswer,
                QuestionDefer, SetQuestionStatus, RunFinish, stamps
  <2>4. CASE UNCHANGED vars
    BY <2>4 DEF vars, stamps
  <2>5. QED
    BY <2>1, <2>2, <2>3, <2>4 DEF Next, TaskCommand
<1>7. \A q \in OpenHighQuestions(t)' :
        \/ q \in OpenHighQuestions(t) /\ askedAt'[q] = askedAt[q]
        \/ askedAt'[q] = Entries(t, {"review"})
  <2>1. ASSUME NEW u \in Tasks, NEW p \in QuestionIds, NEW high \in BOOLEAN,
               NEW st \in QuestionStatuses, QuestionAdd(p, u, high, st),
               NEW q \in OpenHighQuestions(t)'
        PROVE  \/ q \in OpenHighQuestions(t) /\ askedAt'[q] = askedAt[q]
               \/ askedAt'[q] = Entries(t, {"review"})
    <3>1. CASE q = p
      <4>1. questions'[p].task = u /\ askedAt'[p] = Entries(u, {"review"})
        BY <2>1 DEF QuestionAdd, TypeOK
      <4>2. u = t
        BY <2>1, <3>1, <4>1 DEF OpenHighQuestions
      <4>3. QED
        BY <3>1, <4>1, <4>2
    <3>2. CASE q # p
      BY <2>1, <3>2 DEF QuestionAdd, OpenHighQuestions, TypeOK
    <3>3. QED
      BY <3>1, <3>2
  <2>2. ASSUME NEW p \in QuestionIds, NEW st \in {"answered", "deferred"},
               SetQuestionStatus(p, st), NEW q \in OpenHighQuestions(t)'
        PROVE  q \in OpenHighQuestions(t) /\ askedAt'[q] = askedAt[q]
    <3>1. questions[p] \in Questions
      BY <2>2, RowsAreTyped DEF SetQuestionStatus
    <3>2. questions'[p].status = st
      BY <2>2, <3>1 DEF SetQuestionStatus, TypeOK, Questions
    <3>3. q \in QuestionIds /\ q # p
      BY <2>2, <3>2 DEF OpenHighQuestions
    <3>4. QED
      BY <2>2, <3>3 DEF SetQuestionStatus, OpenHighQuestions, TypeOK, stamps
  <2>3. CASE UNCHANGED <<questions, askedAt>>
    BY <1>4, <2>3
  <2>4. ASSUME NEW u \in Tasks,
               \/ \E st \in TaskStatuses, hasGoal \in BOOLEAN : TaskCreate(u, st, hasGoal)
               \/ \E hasGoal \in BOOLEAN : TaskUpdate(u, hasGoal)
               \/ \E to \in TaskStatuses, why \in BOOLEAN : SetStatus(u, to, why)
               \/ \E new \in Dashboards : StatePut(u, new) \/ StatePatch(u, new)
               \/ \E d \in DecisionIds, st \in DecisionStatuses : DecisionAdd(d, u, st)
               \/ \E r \in RunIds : RunStart(r, u)
        PROVE  UNCHANGED <<questions, askedAt>>
    BY <2>4 DEF TaskCreate, TaskUpdate, SetStatus, StatePut, StatePatch, WriteDash, DecisionAdd,
                RunStart, rowVars, stamps
  <2>5. ASSUME \/ \E d \in DecisionIds : DecisionAccept(d) \/ DecisionReject(d)
               \/ \E r \in RunIds, st \in RunStatuses \ {"running"} : RunFinish(r, st)
        PROVE  UNCHANGED <<questions, askedAt>>
    BY <2>5 DEF DecisionAccept, DecisionReject, SetDecisionStatus, RunFinish, stamps
  <2>6. ASSUME \E q \in QuestionIds : QuestionAnswer(q) \/ QuestionDefer(q)
        PROVE  \E q \in QuestionIds, st \in {"answered", "deferred"} : SetQuestionStatus(q, st)
    BY <2>6 DEF QuestionAnswer, QuestionDefer
  <2>7. CASE UNCHANGED vars
    BY <2>3, <2>7 DEF vars, rowVars, stamps
  <2>8. CASE \E u \in Tasks : TaskCommand(u)
    BY <2>1, <2>3, <2>4, <2>8 DEF TaskCommand
  <2>9. CASE RowCommand
    BY <2>2, <2>3, <2>5, <2>6, <2>9 DEF RowCommand
  <2>10. QED
    BY <2>7, <2>8, <2>9 DEF Next
<1>8. goalAt'[t] < Entries(t, {"ready"})' => goal'[t]
  BY <1>1, <1>2, <1>5 DEF GatesHold
<1>9. /\ dashAt'[t] < Entries(t, {"ready", "done"})' => dash'[t].doneWhen # "none"
      /\ dashAt'[t] < Entries(t, {"ready", "done"})' /\ status'[t] = "done" /\ Len(log'[t]) > 1
           => dash'[t].doneWhen = "met" /\ dash'[t].summary
  <2>1. CASE Dash
    BY <1>1, <2>1 DEF GatesHold
  <2>2. CASE dashAt'[t] = Entries(t, {"ready", "done"})
    BY <1>1, <1>2, <2>2
  <2>3. QED
    BY <1>6, <2>1, <2>2
<1>10. \A q \in OpenHighQuestions(t)' : askedAt'[q] = Entries(t, {"review"})'
  BY <1>1, <1>7 DEF GatesHold
<1>11. QED
  BY <1>1, <1>3, <1>8, <1>9, <1>10 DEF GatesHold

\* A move passes its gate, and what it counts afterwards is what the gate has looked at.
LEMMA MovesKeepGates ==
  ASSUME TypeOK, [Next]_vars, NEW t \in Tasks, GatesHold(t), log[t] # << >>,
         NEW to \in TaskStatuses, NEW why \in BOOLEAN, SetStatus(t, to, why)
  PROVE  GatesHold(t)'
<1>1. /\ WriteStatus(t, to, why) /\ GateOpen(t, to)
      /\ UNCHANGED <<goal, dash, decisions, questions, goalAt, dashAt, askedAt>>
  BY DEF SetStatus, rowVars, stamps
<1>2. status'[t] = to
  BY <1>1 DEF WriteStatus, TypeOK
<1>3. \A targets :
        /\ Entries(t, targets) \in Nat
        /\ Entries(t, targets)' =
             IF to \in targets THEN Entries(t, targets) + 1 ELSE Entries(t, targets)
  BY <1>1, EntriesNat, EntriesAppend
<1>4. (HasDash(t)' <=> HasDash(t)) /\ (HasDecision(t)' <=> HasDecision(t))
      /\ OpenHighQuestions(t)' = OpenHighQuestions(t)
  BY <1>1 DEF HasDash, HasDecision, OpenHighQuestions
<1>5. goalAt'[t] < Entries(t, {"ready"})' => goal'[t]
  BY <1>1, <1>3 DEF GatesHold, GateOpen
<1>6. Entries(t, {"ready", "in_progress", "done"})' > 0 => HasDash(t)'
  BY <1>1, <1>3, <1>4 DEF GatesHold, GateOpen
<1>7. dashAt'[t] < Entries(t, {"ready", "done"})' => dash'[t].doneWhen # "none"
  BY <1>1, <1>3 DEF GatesHold, GateOpen
<1>8. status'[t] = "done" => dash'[t].doneWhen = "met" /\ dash'[t].summary
  BY <1>1, <1>2 DEF GateOpen
<1>9. Entries(t, {"review"})' > 0 => HasDecision(t)'
  <2>1. CASE to = "review"
    <3>1. PICK d \in DecisionIds : decisions[d] # NoRow /\ decisions[d].task = t
                                   /\ decisions[d].status \in {"accepted", "proposed"}
      BY <1>1, <2>1 DEF GateOpen, RelevantDecisions
    <3>2. QED
      BY <1>4, <3>1 DEF HasDecision
  <2>2. CASE to # "review"
    BY <1>3, <1>4, <2>2 DEF GatesHold
  <2>3. QED
    BY <2>1, <2>2
<1>10. \A q \in OpenHighQuestions(t)' : askedAt'[q] = Entries(t, {"review"})'
  <2>1. CASE to = "review"
    BY <1>1, <1>4, <2>1 DEF GateOpen
  <2>2. CASE to # "review"
    BY <1>1, <1>3, <1>4, <2>2 DEF GatesHold
  <2>3. QED
    BY <2>1, <2>2
<1>11. QED
  BY <1>5, <1>6, <1>7, <1>8, <1>9, <1>10 DEF GatesHold

\* A task begins without a move.
LEMMA CreationsKeepGates ==
  ASSUME TypeOK, [Next]_vars, NEW t \in Tasks, GatesHold(t), log[t] = << >>,
         NEW to \in TaskStatuses, NEW hasGoal \in BOOLEAN, TaskCreate(t, to, hasGoal)
  PROVE  GatesHold(t)'
<1>1. WriteStatus(t, to, TRUE) /\ UNCHANGED <<questions, goalAt, dashAt, askedAt>>
  BY DEF TaskCreate, rowVars, stamps
<1>2. Len(log'[t]) = 1 /\ \A targets : Entries(t, targets)' = 0 /\ Entries(t, targets) = 0
  <2>1. Len(log[t]) = 0
    OBVIOUS
  <2>2. \A targets : Entries(t, targets) = 0
    <3>1. ASSUME NEW targets PROVE {i \in 2..Len(log[t]) : log[t][i].to \in targets} = {}
      BY <2>1
    <3>2. QED
      BY <3>1, FS_EmptySet DEF Entries
  <2>3. Len(log'[t]) = Len(log[t]) + 1 /\ \A targets : Entries(t, targets)' = Entries(t, targets)
    BY <1>1, EntriesAppend
  <2>4. QED
    BY <2>1, <2>2, <2>3
<1>3. goalAt'[t] \in Nat /\ dashAt'[t] \in Nat
  BY <1>1 DEF TypeOK
<1>4. OpenHighQuestions(t)' = OpenHighQuestions(t)
  BY <1>1 DEF OpenHighQuestions
<1>5. \A q \in OpenHighQuestions(t)' : askedAt'[q] = Entries(t, {"review"})'
  BY <1>1, <1>2, <1>4 DEF GatesHold
<1>6. QED
  BY <1>2, <1>3, <1>5 DEF GatesHold

LEMMA GateStep == GateInv /\ [Next]_vars => GateInv'
<1> SUFFICES ASSUME GateInv, [Next]_vars PROVE GateInv'
  OBVIOUS
<1>1. TypeOK /\ TypeOK'
  BY TypeStep DEF GateInv
<1>2. \A t \in Tasks : GatesHold(t) /\ (TaskExists(t) <=> log[t] # << >>)
  BY DEF GateInv, GatesStillHold, GatesHold
<1> SUFFICES ASSUME NEW t \in Tasks
             PROVE  GatesHold(t)' /\ (TaskExists(t) <=> log[t] # << >>)'
  BY <1>1 DEF GateInv, GatesStillHold, GatesHold
<1>3. CASE status'[t] = status[t] /\ log'[t] = log[t]
  BY <1>1, <1>2, <1>3, WritesKeepGates DEF TaskExists
<1>4. ASSUME NEW to \in TaskStatuses, NEW why \in BOOLEAN, WriteStatus(t, to, why)
      PROVE  (TaskExists(t) <=> log[t] # << >>)'
  <2>1. status'[t] = to /\ to # NoStatus
    BY <1>1, <1>4 DEF WriteStatus, TypeOK, TaskStatuses, Statuses, NoStatus
  <2>2. QED
    BY <1>1, <1>4, <2>1, EntriesAppend DEF TaskExists
<1>5. ASSUME NEW u \in Tasks, NEW to \in TaskStatuses, NEW hasGoal \in BOOLEAN,
             TaskCreate(u, to, hasGoal)
      PROVE  \/ u = t /\ GatesHold(t)' /\ WriteStatus(t, to, TRUE)
             \/ status'[t] = status[t] /\ log'[t] = log[t]
  <2>1. CASE u = t
    BY <1>1, <1>2, <1>5, <2>1, CreationsKeepGates DEF TaskCreate
  <2>2. CASE u # t
    BY <1>1, <1>5, <2>2 DEF TaskCreate, WriteStatus, TypeOK
  <2>3. QED
    BY <2>1, <2>2
<1>6. ASSUME NEW u \in Tasks, NEW to \in TaskStatuses, NEW why \in BOOLEAN, SetStatus(u, to, why)
      PROVE  \/ u = t /\ GatesHold(t)' /\ WriteStatus(t, to, why)
             \/ status'[t] = status[t] /\ log'[t] = log[t]
  <2>1. CASE u = t
    BY <1>1, <1>2, <1>6, <2>1, MovesKeepGates DEF SetStatus
  <2>2. CASE u # t
    BY <1>1, <1>6, <2>2 DEF SetStatus, WriteStatus, TypeOK
  <2>3. QED
    BY <2>1, <2>2
<1>7. \/ UNCHANGED <<status, log>>
      \/ \E u \in Tasks, to \in TaskStatuses, hasGoal \in BOOLEAN : TaskCreate(u, to, hasGoal)
      \/ \E u \in Tasks, to \in TaskStatuses, why \in BOOLEAN : SetStatus(u, to, why)
  <2>1. ASSUME NEW u \in Tasks,
               \/ \E hasGoal \in BOOLEAN : TaskUpdate(u, hasGoal)
               \/ \E new \in Dashboards : StatePut(u, new) \/ StatePatch(u, new)
               \/ \E d \in DecisionIds, st \in DecisionStatuses : DecisionAdd(d, u, st)
               \/ \E q \in QuestionIds, high \in BOOLEAN, st \in QuestionStatuses :
                    QuestionAdd(q, u, high, st)
               \/ \E r \in RunIds : RunStart(r, u)
        PROVE  UNCHANGED <<status, log>>
    BY <2>1 DEF TaskUpdate, StatePut, StatePatch, WriteDash, DecisionAdd, QuestionAdd, RunStart
  <2>2. ASSUME RowCommand PROVE UNCHANGED <<status, log>>
    BY <2>2 DEF RowCommand, DecisionAccept, DecisionReject, SetDecisionStatus, QuestionAnswer,
                QuestionDefer, SetQuestionStatus, RunFinish
  <2>3. CASE UNCHANGED vars
    BY <2>3 DEF vars
  <2>4. QED
    BY <2>1, <2>2, <2>3 DEF Next, TaskCommand
<1>8. QED
  BY <1>3, <1>4, <1>5, <1>6, <1>7

\* Every gate holds on, for any tasks and rows: what a task passed on its way to ready,
\* review and done is still so, or was written again since.
THEOREM GatesHoldOn == Spec => []GatesStillHold
<1>1. Init => GateInv
  <2> SUFFICES ASSUME Init PROVE GateInv
    OBVIOUS
  <2>1. TypeOK
    BY EmptySeq DEF Init, TypeOK
  <2>2. \A t \in Tasks : log[t] = << >> /\ ~TaskExists(t) /\ OpenHighQuestions(t) = {}
    BY DEF Init, TaskExists, OpenHighQuestions
  <2>3. ASSUME NEW t \in Tasks, NEW targets PROVE Entries(t, targets) = 0
    <3>1. {i \in 2..Len(log[t]) : log[t][i].to \in targets} = {}
      BY <2>2
    <3>2. QED
      BY <3>1, FS_EmptySet DEF Entries
  <2>4. \A t \in Tasks : goalAt[t] = 0 /\ dashAt[t] = 0
    BY DEF Init
  <2>5. GatesStillHold
    BY <2>2, <2>3, <2>4 DEF GatesStillHold
  <2>6. QED
    BY <2>1, <2>2, <2>5 DEF GateInv
<1>2. GateInv => GatesStillHold
  BY DEF GateInv
<1>3. QED
  BY <1>1, <1>2, GateStep, PTL DEF Spec

-------------------------------------------------------------------------------
(* What a step may not do                                                   *)

\* What a command does to a question and to a run.
LEMMA ClosedStep ==
  ASSUME TypeOK, [Next]_vars
  PROVE  /\ \A q \in QuestionIds :
              questions[q] # NoRow /\ questions[q].status # "open"
                => questions'[q] # NoRow /\ questions'[q].status # "open"
         /\ \A r \in RunIds :
              runs[r] # NoRow /\ runs[r].status # "running" => runs'[r] = runs[r]
<1>1. ASSUME NEW t \in Tasks, NEW q \in QuestionIds, NEW high \in BOOLEAN,
             NEW st \in QuestionStatuses, QuestionAdd(q, t, high, st)
      PROVE  /\ \A p \in QuestionIds : questions[p] # NoRow => questions'[p] = questions[p]
             /\ runs' = runs
  BY <1>1 DEF QuestionAdd, TypeOK
<1>2. ASSUME NEW q \in QuestionIds, NEW st \in {"answered", "deferred"}, SetQuestionStatus(q, st)
      PROVE  /\ \A p \in QuestionIds :
                  \/ questions'[p] = questions[p]
                  \/ questions'[p] # NoRow /\ questions'[p].status # "open"
             /\ runs' = runs
  <2>1. questions[q] \in Questions
    BY <1>2, RowsAreTyped DEF SetQuestionStatus
  <2>2. questions'[q] \in Questions /\ questions'[q].status = st
    BY <1>2, <2>1 DEF SetQuestionStatus, Questions, QuestionStatuses, TypeOK
  <2>3. questions'[q] # NoRow
    BY <2>2, LifecycleAssumption
  <2>4. QED
    BY <1>2, <2>2, <2>3 DEF SetQuestionStatus, TypeOK
<1>3. ASSUME NEW t \in Tasks, NEW r \in RunIds, RunStart(r, t)
      PROVE  /\ \A s \in RunIds : runs[s] # NoRow => runs'[s] = runs[s]
             /\ questions' = questions
  BY <1>3 DEF RunStart, TypeOK
<1>4. ASSUME NEW r \in RunIds, NEW st \in RunStatuses, RunFinish(r, st)
      PROVE  /\ \A s \in RunIds : runs[s].status # "running" => runs'[s] = runs[s]
             /\ questions' = questions
  BY <1>4 DEF RunFinish, TypeOK
<1>5. ASSUME NEW t \in Tasks,
             \/ \E st \in TaskStatuses, hasGoal \in BOOLEAN : TaskCreate(t, st, hasGoal)
             \/ \E hasGoal \in BOOLEAN : TaskUpdate(t, hasGoal)
             \/ \E to \in TaskStatuses, why \in BOOLEAN : SetStatus(t, to, why)
             \/ \E new \in Dashboards : StatePut(t, new) \/ StatePatch(t, new)
             \/ \E d \in DecisionIds, st \in DecisionStatuses : DecisionAdd(d, t, st)
      PROVE  UNCHANGED <<questions, runs>>
  BY <1>5 DEF TaskCreate, TaskUpdate, SetStatus, StatePut, StatePatch, WriteDash, DecisionAdd,
              rowVars
<1>6. ASSUME NEW d \in DecisionIds, DecisionAccept(d) \/ DecisionReject(d)
      PROVE  UNCHANGED <<questions, runs>>
  BY <1>6 DEF DecisionAccept, DecisionReject, SetDecisionStatus
<1>7. CASE UNCHANGED vars
  BY <1>7 DEF vars, rowVars
<1>8. ASSUME NEW q \in QuestionIds, QuestionAnswer(q) \/ QuestionDefer(q)
      PROVE  \E st \in {"answered", "deferred"} : SetQuestionStatus(q, st)
  BY <1>8 DEF QuestionAnswer, QuestionDefer
<1>9. CASE \E t \in Tasks : TaskCommand(t)
  BY <1>1, <1>3, <1>5, <1>9 DEF TaskCommand
<1>10. CASE RowCommand
  BY <1>2, <1>4, <1>6, <1>8, <1>10 DEF RowCommand
<1>11. QED
  BY <1>7, <1>9, <1>10 DEF Next

\* No question is opened again and finished runs stay as they are, for any of them;
\* decisions are not meant.
THEOREM ClosedForGood == Spec => ClosedStaysClosed
<1> DEFINE Closed ==
             /\ \A q \in QuestionIds :
                  questions[q] # NoRow /\ questions[q].status # "open"
                    => questions'[q] # NoRow /\ questions'[q].status # "open"
             /\ \A r \in RunIds :
                  runs[r] # NoRow /\ runs[r].status # "running" => runs'[r] = runs[r]
<1>1. TypeOK /\ [Next]_vars => [Closed]_vars
  BY ClosedStep
<1>2. QED
  BY <1>1, TypeCorrect, PTL DEF Spec, ClosedStaysClosed
=============================================================================
