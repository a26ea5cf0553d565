----------------------- MODULE TransitionSessionsProofs -----------------------
(****************************************************************************)
(* What TransitionSessions guarantees for any tasks and any sessions, of    *)
(* the command line and of the library (parts 1 to 4), what it guarantees   *)
(* when every session is of the command line (parts 5 and 6) or checks      *)
(* under the lock (part 7), that commands are finite (part 8), and what     *)
(* HistoryTimes guarantees about the order of a history (part 9).           *)
(****************************************************************************)
EXTENDS HistoryTimes, TLAPS

USE SessionsAssumption

-------------------------------------------------------------------------------
(* 0. The tables and the histories made of their edges                      *)

\* No edge leaves NULL: a row that is not a task's first starts at a status.
LEMMA NoEdgeFromNull ==
  ASSUME NEW to, NEW why, ServicePermits(NoStatus, to, why)
  PROVE  FALSE
  BY DEF ServicePermits, CanTransition, ServiceEdges, NoStatus

\* The CLI's table is part of the service's: a move that passes
\* validate_status_transition is never refused as an illegal edge by the
\* service (constants.py:57 and transition_config.py:35 agree).
THEOREM CliWithinService == CliEdges \subseteq ServiceEdges
  BY DEF CliEdges, ServiceEdges

\* A row of a legal move keeps a history a path.
LEMMA AppendKeepsPath ==
  ASSUME NEW rows \in Seq(LogEntries), NEW current, NEW to \in Statuses,
         NEW why \in BOOLEAN,
         FollowsGraph(rows), EndsIn(rows, current), current # NoStatus,
         ServicePermits(current, to, why)
  PROVE  /\ FollowsGraph(Append(rows, Row(current, to, why)))
         /\ EndsIn(Append(rows, Row(current, to, why)), to)
  <1> DEFINE row == Row(current, to, why)
             new == Append(rows, row)
  <1>1. rows # << >> /\ current = rows[Len(rows)].to
    BY DEF EndsIn
  <1>2. /\ row.from = current /\ row.to = to /\ row.why = why
    BY DEF Row
  <1>3. /\ Len(new) = Len(rows) + 1 /\ Len(rows) \in Nat \ {0}
        /\ new[Len(new)] = row /\ new # << >>
        /\ \A i \in 1..Len(rows) : new[i] = rows[i]
    BY <1>1
  <1> HIDE DEF row, new
  <1>4. new[1].from = NoStatus
    BY <1>1, <1>3 DEF FollowsGraph
  <1>5. ASSUME NEW i \in 2..Len(new)
        PROVE  /\ new[i].from = new[i - 1].to
               /\ ServicePermits(new[i].from, new[i].to, new[i].why)
    <2>1. CASE i \in 2..Len(rows)
      <3>1. new[i] = rows[i] /\ new[i - 1] = rows[i - 1]
        BY <2>1, <1>3
      <3> QED BY <2>1, <3>1 DEF FollowsGraph
    <2>2. CASE i = Len(rows) + 1
      <3>1. new[i] = row /\ new[i - 1] = rows[Len(rows)]
        BY <2>2, <1>3
      <3> QED BY <3>1, <1>1, <1>2
    <2> QED BY <2>1, <2>2, <1>3
  <1>6. FollowsGraph(new) /\ EndsIn(new, to)
    BY <1>2, <1>3, <1>4, <1>5 DEF FollowsGraph, EndsIn
  <1> QED BY <1>6 DEF new, row

\* The first row of a history starts at NULL.
LEMMA FirstRowIsPath ==
  ASSUME NEW to \in Statuses, NEW why \in BOOLEAN
  PROVE  /\ FollowsGraph(Append(<< >>, Row(NoStatus, to, why)))
         /\ EndsIn(Append(<< >>, Row(NoStatus, to, why)), to)
  BY DEF FollowsGraph, EndsIn, Row

-------------------------------------------------------------------------------
(* 1. Types                                                                 *)

LEMMA AppendRow ==
  ASSUME NEW lg \in [Tasks -> Seq(LogEntries)], NEW t \in Tasks,
         NEW from \in Statuses \cup {NoStatus}, NEW to \in Statuses,
         NEW why \in BOOLEAN
  PROVE  [lg EXCEPT ![t] = Append(@, Row(from, to, why))]
            \in [Tasks -> Seq(LogEntries)]
  <1>1. Row(from, to, why) \in LogEntries
    BY DEF Row, LogEntries
  <1> QED BY <1>1

\* A session has a request from the moment it is asked until it has written.
RequestInv ==
  /\ TypeOK
  /\ \A s \in Sessions :
       pc[s] \notin {"idle", "written"} => req[s] \in Requests
  /\ \A s \in Sessions :
       pc[s] \in {"waiting", "open", "task_inserted"} => s \in CliSessions
  /\ \A s \in Sessions : pc[s] = "asked" => s \in ApiSessions

LEMMA RequestInitially == Init => RequestInv
  BY DEF Init, RequestInv, TypeOK, Labels

LEMMA RequestStep == RequestInv /\ [Next]_vars => RequestInv'
  <1> SUFFICES ASSUME RequestInv, [Next]_vars PROVE RequestInv'
    OBVIOUS
  <1> USE DEF RequestInv, TypeOK, Labels, dbVars, dirtyVars
  <1>1. ASSUME NEW s \in CliSessions, NEW r \in Requests, Request(s, r)
        PROVE  RequestInv'
    BY <1>1 DEF Request, GoTo, Sessions
  <1>2. ASSUME NEW s \in ApiSessions, NEW r \in Requests, ApiCall(s, r)
        PROVE  RequestInv'
    BY <1>2 DEF ApiCall, GoTo, Sessions
  <1>3. ASSUME NEW s \in ApiSessions, ApiBegin(s)
        PROVE  RequestInv'
    BY <1>3 DEF ApiBegin, GoTo, Sessions
  <1>4. ASSUME NEW s \in Sessions,
               CliRefuse(s) \/ CliNoOp(s) \/ BusyTimeout(s) \/ Abandon(s)
                 \/ Commit(s) \/ ApiRefuse(s)
        PROVE  RequestInv'
    BY <1>4 DEF CliRefuse, CliNoOp, BusyTimeout, Abandon, Commit, ApiRefuse,
                DropWrites, GoIdle, GoTo, Sessions
  <1>5. ASSUME NEW s \in Sessions, AcquireLock(s)
        PROVE  RequestInv'
    BY <1>5 DEF AcquireLock, GoTo, Sessions
  <1>6. ASSUME NEW s \in Sessions, CliCheck(s) \/ ApiCheck(s)
        PROVE  RequestInv'
    <2> DEFINE from == StatusSeenBy(s, req[s].task)
    <2>1. /\ pc[s] \in {"open", "asked"} /\ pc' = [pc EXCEPT ![s] = "checked"]
          /\ seen' = [seen EXCEPT ![s] = from]
          /\ UNCHANGED <<status, log, dirtyStatus, dirtyLog, holder, req>>
      BY <1>6 DEF CliCheck, ApiCheck, GoTo
    <2>2. req[s] \in Requests /\ req[s].task \in Tasks
      BY <2>1 DEF Requests
    <2>3. from \in Statuses \cup {NoStatus}
      BY <2>2 DEF StatusSeenBy
    <2> HIDE DEF from
    <2> QED BY <2>1, <2>2, <2>3
  <1>7. ASSUME NEW s \in Sessions, InsertTask(s) \/ UpdateStatus(s)
        PROVE  RequestInv'
    <2>1. req[s].task \in Tasks /\ req[s].to \in Statuses
      BY <1>7 DEF InsertTask, UpdateStatus, Requests
    <2> QED BY <1>7, <2>1 DEF InsertTask, UpdateStatus, GoTo, Sessions
  <1>8. ASSUME NEW s \in Sessions, RecordInitial(s) \/ InsertHistory(s)
        PROVE  RequestInv'
    <2>1. req[s] \in Requests
      BY <1>8 DEF RecordInitial, InsertHistory
    <2>2. /\ req[s].task \in Tasks /\ req[s].to \in Statuses
          /\ req[s].why \in BOOLEAN /\ seen[s] \in Statuses \cup {NoStatus}
      BY <2>1 DEF Requests
    <2>3. CASE RecordInitial(s)
      <3>1. dirtyLog' \in [Tasks -> Seq(LogEntries)]
        BY <2>2, <2>3, AppendRow DEF RecordInitial
      <3> QED BY <2>1, <2>3, <3>1 DEF RecordInitial, GoTo
    <2>4. CASE InsertHistory(s)
      <3>1. dirtyLog' \in [Tasks -> Seq(LogEntries)]
        BY <2>2, <2>4, AppendRow DEF InsertHistory
      <3> QED BY <2>1, <2>4, <3>1 DEF InsertHistory, HasOrTakesLock, GoTo
    <2> QED BY <1>8, <2>3, <2>4
  <1>9. CASE UNCHANGED vars
    BY <1>9 DEF vars
  <1> QED
    BY <1>1, <1>2, <1>3, <1>4, <1>5, <1>6, <1>7, <1>8, <1>9
       DEF Next, CliStep, ApiStep, Sessions

\* Every variable keeps its type, for any tasks and sessions.
THEOREM TypeCorrect == Spec => []TypeOK
  <1>1. RequestInv => TypeOK
    BY DEF RequestInv
  <1> QED BY <1>1, RequestInitially, RequestStep, PTL DEF Spec

-------------------------------------------------------------------------------
(* 2. The lock: who may write, and what the holder knows                    *)

\* A session that has written, or that runs a command of the CLI past init_db,
\* is the lock holder, so at most one is; without a holder nothing is
\* uncommitted; and what the holder checked is what its tables still say.
LockInv ==
  /\ RequestInv
  /\ holder = NoSession => dirtyStatus = status /\ dirtyLog = log
  /\ \A s \in Sessions :
       pc[s] \in {"open", "task_inserted", "history_inserted", "written"}
         => holder = s
  /\ \A s \in Sessions : pc[s] \in {"idle", "waiting"} => holder # s
  /\ CliChecksUnderLock
  /\ LockedCheckIsCurrent

LEMMA LockInitially == Init => LockInv
  BY RequestInitially
     DEF Init, LockInv, CliChecksUnderLock, LockedCheckIsCurrent,
         SessionsAssumption, Sessions

LEMMA LockStep == LockInv /\ [Next]_vars => LockInv'
  <1> SUFFICES ASSUME LockInv, [Next]_vars PROVE LockInv'
    OBVIOUS
  <1>0. RequestInv /\ RequestInv' /\ TypeOK
    BY RequestStep DEF LockInv, RequestInv
  <1> USE <1>0
          DEF LockInv, CliChecksUnderLock, LockedCheckIsCurrent, TypeOK,
              Sessions, dbVars, dirtyVars, GoTo
  <1>1. ASSUME NEW s \in CliSessions, NEW r \in Requests, Request(s, r)
        PROVE  LockInv'
    BY <1>1 DEF Request, Sessions
  <1>2. ASSUME NEW s \in ApiSessions, NEW r \in Requests, ApiCall(s, r)
        PROVE  LockInv'
    BY <1>2 DEF ApiCall, Sessions
  <1>3. ASSUME NEW s \in ApiSessions, ApiBegin(s)
        PROVE  LockInv'
    BY <1>3 DEF ApiBegin, Sessions
  <1>4. ASSUME NEW s \in Sessions, CliRefuse(s) \/ CliNoOp(s) \/ Abandon(s)
        PROVE  LockInv'
    <2>1. pc[s] # "idle" /\ DropWrites(s) /\ GoIdle(s) /\ UNCHANGED dbVars
      BY <1>4 DEF CliRefuse, CliNoOp, Abandon
    <2>2. CASE holder = s
      BY <2>1, <2>2 DEF DropWrites, GoIdle
    <2>3. CASE holder # s
      BY <2>1, <2>3 DEF DropWrites, GoIdle
    <2> QED BY <2>2, <2>3
  <1>5. ASSUME NEW s \in Sessions, AcquireLock(s)
        PROVE  LockInv'
    BY <1>5 DEF AcquireLock, SessionsAssumption
  <1>6. ASSUME NEW s \in Sessions, CliCheck(s) \/ ApiCheck(s)
        PROVE  LockInv'
    <2> DEFINE from == StatusSeenBy(s, req[s].task)
    <2>1. /\ pc[s] \in {"open", "asked"} /\ pc' = [pc EXCEPT ![s] = "checked"]
          /\ seen' = [seen EXCEPT ![s] = from]
          /\ UNCHANGED <<status, log, dirtyStatus, dirtyLog, holder, req>>
      BY <1>6 DEF CliCheck, ApiCheck
    <2>2. holder = s => from = dirtyStatus[req[s].task]
      BY DEF StatusSeenBy
    <2>3. s \in CliSessions => holder = s
      BY <2>1
    <2> HIDE DEF from
    <2> QED BY <2>1, <2>2, <2>3
  <1>7. ASSUME NEW s \in Sessions, ApiRefuse(s)
        PROVE  LockInv'
    <2>1. s \in ApiSessions /\ s \notin CliSessions
      BY <1>7 DEF ApiRefuse, RequestInv, SessionsAssumption
    <2>2. CASE holder = s
      BY <1>7, <2>1, <2>2 DEF ApiRefuse
    <2>3. CASE holder # s
      BY <1>7, <2>1, <2>3 DEF ApiRefuse, GoIdle
    <2> QED BY <2>2, <2>3
  <1>8. ASSUME NEW s \in Sessions,
               InsertTask(s) \/ UpdateStatus(s) \/ RecordInitial(s)
        PROVE  LockInv'
    <2>1. /\ holder = s /\ holder' = holder
          /\ pc[s] \in {"open", "task_inserted", "history_inserted"}
          /\ \E l \in {"task_inserted", "written"} : pc' = [pc EXCEPT ![s] = l]
          /\ UNCHANGED <<status, log, req, seen>>
      BY <1>8 DEF InsertTask, UpdateStatus, RecordInitial
    <2>2. \A q \in Sessions : pc'[q] = "checked" => holder' # q
      BY <2>1
    <2>3. holder # NoSession
      BY <2>1 DEF SessionsAssumption
    <2> QED BY <2>1, <2>2, <2>3
  <1>9. ASSUME NEW s \in Sessions, InsertHistory(s)
        PROVE  LockInv'
    <2>1. /\ holder \in {s, NoSession} /\ holder' = s
          /\ pc[s] = "checked" /\ pc' = [pc EXCEPT ![s] = "history_inserted"]
          /\ UNCHANGED <<status, log, dirtyStatus, req, seen>>
      BY <1>9 DEF InsertHistory, HasOrTakesLock
    <2>2. s # NoSession
      BY DEF SessionsAssumption
    <2> QED BY <2>1, <2>2
  <1>10. ASSUME NEW s \in Sessions, Commit(s)
         PROVE  LockInv'
    <2>1. s # NoSession /\ holder = s
      BY <1>10 DEF Commit, SessionsAssumption
    <2> QED BY <1>10, <2>1 DEF Commit, GoIdle, SessionsAssumption
  <1>11. ASSUME NEW s \in Sessions, BusyTimeout(s)
         PROVE  LockInv'
    BY <1>11 DEF BusyTimeout, GoIdle
  <1>12. CASE UNCHANGED vars
    BY <1>12 DEF vars
  <1> QED
    BY <1>1, <1>2, <1>3, <1>4, <1>5, <1>6, <1>7, <1>8, <1>9, <1>10, <1>11,
       <1>12 DEF Next, CliStep, ApiStep, Sessions

\* Whoever holds the lock when it checks a status writes a row from the status
\* the task has: the check cannot go stale.
THEOREM CheckUnderLockIsCurrent == Spec => []LockedCheckIsCurrent
  <1>1. LockInv => LockedCheckIsCurrent
    BY DEF LockInv
  <1> QED BY <1>1, LockInitially, LockStep, PTL DEF Spec

-------------------------------------------------------------------------------
(* 3. Atomicity: the status and the history change together                 *)

\* Between its two writes a session has changed one of the two tables.
MidWrite(s) == pc[s] \in {"task_inserted", "history_inserted"}

\* The tables as the holder sees them agree on every task but the one it is
\* writing; for that one, one table has the new status already.
DirtyAgrees ==
  /\ \A t \in Tasks :
       (\A s \in Sessions : MidWrite(s) => req[s].task # t)
         => EndsIn(dirtyLog[t], dirtyStatus[t])
  /\ \A s \in Sessions :
       /\ pc[s] = "task_inserted" => dirtyStatus[req[s].task] = req[s].to
       /\ pc[s] = "history_inserted" => EndsIn(dirtyLog[req[s].task], req[s].to)

\* The holder has only added rows to what is committed.
DirtyKeepsRows == \A t \in Tasks : KeepsRows(log[t], dirtyLog[t])

WriteInv == LockInv /\ StatusIsLastEntry /\ DirtyAgrees /\ DirtyKeepsRows

LEMMA AppendedRow ==
  ASSUME NEW rows \in Seq(LogEntries), NEW old \in Seq(LogEntries),
         NEW from \in Statuses \cup {NoStatus}, NEW to \in Statuses,
         NEW why \in BOOLEAN
  PROVE  /\ EndsIn(Append(rows, Row(from, to, why)), to)
         /\ KeepsRows(old, rows)
              => KeepsRows(old, Append(rows, Row(from, to, why)))
  <1>1. Row(from, to, why) \in LogEntries /\ Row(from, to, why).to = to
    BY DEF Row, LogEntries
  <1> QED BY <1>1 DEF EndsIn, KeepsRows

LEMMA WriteInitially == Init => WriteInv
  BY LockInitially
     DEF Init, WriteInv, StatusIsLastEntry, DirtyAgrees, DirtyKeepsRows,
         MidWrite, EndsIn, KeepsRows

LEMMA WriteStep == WriteInv /\ [Next]_vars => WriteInv'
  <1> SUFFICES ASSUME WriteInv, [Next]_vars PROVE WriteInv'
    OBVIOUS
  <1>0. LockInv /\ LockInv' /\ RequestInv /\ TypeOK
    BY LockStep DEF WriteInv, LockInv, RequestInv
  <1> USE <1>0 DEF WriteInv, StatusIsLastEntry, DirtyAgrees, DirtyKeepsRows,
                   MidWrite, TypeOK, dbVars, dirtyVars, GoTo
  <1>a. \A t \in Tasks : KeepsRows(log[t], log[t])
    BY DEF KeepsRows
  <1>b. ASSUME NEW s \in Sessions, holder = s
        PROVE  \A q \in Sessions : q # s => ~MidWrite(q)
    BY <1>b DEF LockInv
  <1>c. ASSUME holder = NoSession
        PROVE  \A q \in Sessions : ~MidWrite(q)
    BY <1>c DEF LockInv, SessionsAssumption
  <1>1. ASSUME NEW s \in Sessions,
               pc[s] \notin {"task_inserted", "history_inserted"},
               pc'[s] \notin {"task_inserted", "history_inserted"},
               \A q \in Sessions : q # s => pc'[q] = pc[q] /\ req'[q] = req[q],
               UNCHANGED <<dbVars, dirtyVars>>
        PROVE  WriteInv'
    BY <1>1
  <1>2. ASSUME NEW s \in CliSessions, NEW r \in Requests, Request(s, r)
        PROVE  WriteInv'
    BY <1>2, <1>1 DEF Request, Sessions
  <1>3. ASSUME NEW s \in ApiSessions,
               ApiBegin(s) \/ \E r \in Requests : ApiCall(s, r)
        PROVE  WriteInv'
    BY <1>3, <1>1 DEF ApiBegin, ApiCall, Sessions
  <1>4. ASSUME NEW s \in Sessions,
               AcquireLock(s) \/ CliCheck(s) \/ ApiCheck(s) \/ ApiRefuse(s)
                 \/ BusyTimeout(s)
        PROVE  WriteInv'
    BY <1>4, <1>1 DEF AcquireLock, CliCheck, ApiCheck, ApiRefuse, BusyTimeout,
                      GoIdle
  <1>5. ASSUME NEW s \in Sessions, CliRefuse(s) \/ CliNoOp(s) \/ Abandon(s)
        PROVE  WriteInv'
    <2>1. DropWrites(s) /\ GoIdle(s) /\ UNCHANGED dbVars
      BY <1>5 DEF CliRefuse, CliNoOp, Abandon
    <2>2. CASE holder = s
      <3>1. dirtyStatus' = status /\ dirtyLog' = log
        BY <2>1, <2>2 DEF DropWrites
      <3>2. \A q \in Sessions : ~MidWrite(q)'
        BY <2>1, <2>2, <1>b DEF GoIdle
      <3> QED BY <2>1, <3>1, <3>2, <1>a
    <2>3. CASE holder # s
      <3>1. ~MidWrite(s)
        BY <2>3 DEF LockInv
      <3> QED BY <2>1, <2>3, <3>1, <1>1 DEF DropWrites, GoIdle
    <2> QED BY <2>2, <2>3
  <1>6. ASSUME NEW s \in Sessions, InsertTask(s)
        PROVE  WriteInv'
    <2>1. holder = s /\ req[s] \in Requests /\ req[s].task \in Tasks
      BY <1>6 DEF InsertTask, LockInv, RequestInv, Requests
    <2>2. \A q \in Sessions : ~MidWrite(q)
      BY <1>6, <2>1, <1>b DEF InsertTask
    <2> QED BY <1>6, <2>1, <2>2 DEF InsertTask
  <1>7. ASSUME NEW s \in Sessions, RecordInitial(s)
        PROVE  WriteInv'
    <2> DEFINE t == req[s].task
               rows == Append(dirtyLog[t], Row(NoStatus, req[s].to, TRUE))
    <2>1. /\ holder = s /\ req[s] \in Requests /\ t \in Tasks
          /\ req[s].to \in Statuses
      BY <1>7 DEF RecordInitial, LockInv, RequestInv, Requests
    <2>2. EndsIn(rows, req[s].to) /\ KeepsRows(log[t], rows)
      BY <2>1, AppendedRow
    <2>3. /\ dirtyLog' = [dirtyLog EXCEPT ![t] = rows]
          /\ dirtyStatus[t] = req[s].to
          /\ UNCHANGED <<status, log, dirtyStatus, req>>
          /\ pc' = [pc EXCEPT ![s] = "written"]
      BY <1>7 DEF RecordInitial
    <2> HIDE DEF rows
    <2>4. \A q \in Sessions : ~MidWrite(q)'
      BY <2>1, <2>3, <1>b
    <2>5. \A u \in Tasks : u # t => EndsIn(dirtyLog[u], dirtyStatus[u])
      BY <2>1, <1>b
    <2> QED BY <2>1, <2>2, <2>3, <2>4, <2>5
  <1>8. ASSUME NEW s \in Sessions, InsertHistory(s)
        PROVE  WriteInv'
    <2> DEFINE t == req[s].task
               rows == Append(dirtyLog[t], Row(seen[s], req[s].to, req[s].why))
    <2>1. /\ req[s] \in Requests /\ t \in Tasks
          /\ req[s].to \in Statuses /\ req[s].why \in BOOLEAN
      BY <1>8 DEF InsertHistory, RequestInv, Requests
    <2>2. EndsIn(rows, req[s].to) /\ KeepsRows(log[t], rows)
      BY <2>1, AppendedRow
    <2>3. /\ dirtyLog' = [dirtyLog EXCEPT ![t] = rows]
          /\ UNCHANGED <<status, log, dirtyStatus, req>>
          /\ pc' = [pc EXCEPT ![s] = "history_inserted"]
          /\ holder \in {s, NoSession} /\ pc[s] = "checked"
      BY <1>8 DEF InsertHistory, HasOrTakesLock
    <2> HIDE DEF rows
    <2>4. \A q \in Sessions : ~MidWrite(q)
      BY <2>3, <1>b, <1>c
    <2>5. \A q \in Sessions : q # s => ~MidWrite(q)'
      BY <2>3, <2>4
    <2> QED BY <2>1, <2>2, <2>3, <2>4, <2>5
  <1>9. ASSUME NEW s \in Sessions, UpdateStatus(s)
        PROVE  WriteInv'
    <2>1. holder = s /\ req[s] \in Requests /\ req[s].task \in Tasks
      BY <1>9 DEF UpdateStatus, LockInv, RequestInv, Requests
    <2>2. \A q \in Sessions : ~MidWrite(q)'
      BY <1>9, <2>1, <1>b DEF UpdateStatus
    <2>3. \A u \in Tasks :
            u # req[s].task => EndsIn(dirtyLog[u], dirtyStatus[u])
      BY <2>1, <1>b
    <2> QED BY <1>9, <2>1, <2>2, <2>3 DEF UpdateStatus
  <1>10. ASSUME NEW s \in Sessions, Commit(s)
         PROVE  WriteInv'
    <2>1. holder = s /\ ~MidWrite(s)
      BY <1>10 DEF Commit, LockInv
    <2>2. \A q \in Sessions : ~MidWrite(q) /\ ~MidWrite(q)'
      BY <1>10, <2>1, <1>b DEF Commit, GoIdle
    <2>3. /\ status' = dirtyStatus /\ log' = dirtyLog
          /\ UNCHANGED <<dirtyStatus, dirtyLog>>
      BY <1>10 DEF Commit
    <2>4. \A t \in Tasks : EndsIn(dirtyLog[t], dirtyStatus[t])
      BY <2>2
    <2>5. \A t \in Tasks : KeepsRows(dirtyLog[t], dirtyLog[t])
      BY DEF KeepsRows
    <2> QED BY <2>2, <2>3, <2>4, <2>5
  <1>11. CASE UNCHANGED vars
    BY <1>11 DEF vars
  <1> QED
    BY <1>2, <1>3, <1>4, <1>5, <1>6, <1>7, <1>8, <1>9, <1>10, <1>11
       DEF Next, CliStep, ApiStep, Sessions

\* Status and history of every task are written together or not at all, for
\* any sessions, whoever dies when.
THEOREM StatusAndHistoryAgree == Spec => []StatusIsLastEntry
  <1>1. WriteInv => StatusIsLastEntry
    BY DEF WriteInv
  <1> QED BY <1>1, WriteInitially, WriteStep, PTL DEF Spec

-------------------------------------------------------------------------------
(* 4. The committed history only grows                                      *)

LEMMA OnlyCommitPublishes ==
  [Next]_vars =>
    UNCHANGED dbVars
      \/ \E s \in Sessions : Commit(s) /\ status' = dirtyStatus /\ log' = dirtyLog
  BY DEF Next, CliStep, ApiStep, Request, AcquireLock, CliCheck, CliRefuse,
         CliNoOp, InsertTask, RecordInitial, ApiBegin, ApiCall, ApiCheck,
         ApiRefuse, InsertHistory, UpdateStatus, Commit, BusyTimeout, Abandon,
         vars, dbVars, Sessions

\* No commit drops or rewrites a committed row, for any sessions.
THEOREM HistoryIsAppendOnly == Spec => AppendOnly
  <1>1. WriteInv /\ [Next]_vars
          => [\A t \in Tasks : KeepsRows(log[t], log'[t])]_vars
    <2> SUFFICES ASSUME WriteInv, [Next]_vars, NEW t \in Tasks
                 PROVE  KeepsRows(log[t], log'[t])
      OBVIOUS
    <2>1. KeepsRows(log[t], log[t]) /\ KeepsRows(log[t], dirtyLog[t])
      BY DEF WriteInv, DirtyKeepsRows, KeepsRows, LockInv, RequestInv, TypeOK
    <2> QED BY <2>1, OnlyCommitPublishes DEF dbVars
  <1> QED BY <1>1, WriteInitially, WriteStep, PTL DEF Spec, AppendOnly

-------------------------------------------------------------------------------
(* 5. The command line implements the abstract history                      *)

OnlyCli == ApiSessions = {}

\* The writes of the holder so far are none, or the first or both of the
\* writes of one creation or one move that is legal in the committed tables.
Legal(t, to, why) ==
  IF status[t] = NoStatus THEN to \in TaskStatuses /\ why
                          ELSE ServicePermits(status[t], to, why)

StatusWritten(t, to) == dirtyStatus = [status EXCEPT ![t] = to]
RowWritten(t, to, why) ==
  dirtyLog = [log EXCEPT ![t] = Append(@, Row(status[t], to, why))]

PendingOf(s) ==
  LET t == req[s].task  to == req[s].to  why == req[s].why IN
  /\ pc[s] \in {"open", "checked"} => dirtyStatus = status /\ dirtyLog = log
  /\ pc[s] = "checked" => seen[s] = status[t] /\ ServicePermits(seen[s], to, why)
  /\ pc[s] = "task_inserted" =>
       /\ status[t] = NoStatus /\ to \in TaskStatuses
       /\ StatusWritten(t, to) /\ dirtyLog = log
  /\ pc[s] = "history_inserted" =>
       /\ status[t] # NoStatus /\ Legal(t, to, why)
       /\ dirtyStatus = status /\ RowWritten(t, to, why)
  /\ pc[s] = "written" =>
       \E u \in Tasks, st \in Statuses, w \in BOOLEAN :
         Legal(u, st, w) /\ StatusWritten(u, st) /\ RowWritten(u, st, w)

CliInv ==
  /\ LockInv
  /\ \A s \in Sessions : pc[s] # "idle" /\ pc[s] # "written"
                           => req[s].to \in TaskStatuses
  /\ \A s \in Sessions : holder = s => PendingOf(s)

LEMMA CliInitially == Init => CliInv
  BY LockInitially DEF Init, CliInv, SessionsAssumption

LEMMA PendingUntouched ==
  ASSUME NEW q \in Sessions, PendingOf(q), UNCHANGED <<dbVars, dirtyVars>>,
         pc'[q] = pc[q], req'[q] = req[q], seen'[q] = seen[q]
  PROVE  PendingOf(q)'
  <1>1. /\ status' = status /\ log' = log
        /\ dirtyStatus' = dirtyStatus /\ dirtyLog' = dirtyLog
    BY DEF dbVars, dirtyVars
  <1> QED BY <1>1 DEF PendingOf, Legal, StatusWritten, RowWritten

LEMMA CliInvStep == OnlyCli /\ CliInv /\ [Next]_vars => CliInv'
  <1> SUFFICES ASSUME OnlyCli, CliInv, [Next]_vars PROVE CliInv'
    OBVIOUS
  <1>0. LockInv /\ LockInv' /\ RequestInv /\ TypeOK /\ Sessions = CliSessions
    BY LockStep DEF CliInv, LockInv, RequestInv, OnlyCli, Sessions
  <1> USE <1>0 DEF CliInv, TypeOK, dbVars, dirtyVars, GoTo
  <1>1. ASSUME NEW s \in Sessions, NEW r \in Requests, Request(s, r)
        PROVE  CliInv'
    <2>1. ASSUME NEW q \in Sessions, holder = q
          PROVE  PendingOf(q)'
      <3>1. q # s
        BY <1>1, <2>1 DEF Request, LockInv
      <3> QED BY <1>1, <2>1, <3>1, PendingUntouched DEF Request
    <2> QED BY <1>1, <2>1 DEF Request
  <1>2. ASSUME NEW s \in Sessions,
               CliRefuse(s) \/ CliNoOp(s) \/ Abandon(s) \/ BusyTimeout(s)
        PROVE  CliInv'
    <2>1. GoIdle(s) /\ UNCHANGED dbVars
      BY <1>2 DEF CliRefuse, CliNoOp, Abandon, BusyTimeout
    <2>2. CASE holder = s
      <3>1. holder' = NoSession
        BY <1>2, <2>2 DEF CliRefuse, CliNoOp, Abandon, BusyTimeout, DropWrites
      <3> QED BY <2>1, <3>1 DEF GoIdle, SessionsAssumption
    <2>3. CASE holder # s
      <3>1. UNCHANGED <<holder, dirtyStatus, dirtyLog>>
        BY <1>2, <2>3 DEF CliRefuse, CliNoOp, Abandon, BusyTimeout, DropWrites
      <3>2. ASSUME NEW q \in Sessions, holder = q
            PROVE  PendingOf(q)'
        BY <2>1, <2>3, <3>1, <3>2, PendingUntouched DEF GoIdle
      <3> QED BY <2>1, <3>1, <3>2 DEF GoIdle
    <2> QED BY <2>2, <2>3
  <1>3. ASSUME NEW s \in Sessions, AcquireLock(s)
        PROVE  CliInv'
    <2>1. PendingOf(s)'
      BY <1>3 DEF AcquireLock, PendingOf, LockInv
    <2> QED BY <1>3, <2>1 DEF AcquireLock
  <1>4. ASSUME NEW s \in Sessions, CliCheck(s)
        PROVE  CliInv'
    <2>1. holder = s
      BY <1>4 DEF CliCheck, LockInv
    <2>2. PendingOf(s)'
      BY <1>4, <2>1 DEF CliCheck, PendingOf, StatusSeenBy, CliPermits
    <2> QED BY <1>4, <2>1, <2>2 DEF CliCheck
  <1>5. ASSUME NEW s \in Sessions, InsertTask(s)
        PROVE  CliInv'
    <2>1. holder = s /\ req[s].to \in TaskStatuses
      BY <1>5 DEF InsertTask, LockInv
    <2>2. PendingOf(s)'
      BY <1>5, <2>1 DEF InsertTask, PendingOf, StatusWritten
    <2> QED BY <1>5, <2>1, <2>2 DEF InsertTask
  <1>6. ASSUME NEW s \in Sessions, RecordInitial(s)
        PROVE  CliInv'
    <2> DEFINE t == req[s].task  to == req[s].to
    <2>1. /\ holder = s /\ t \in Tasks /\ to \in Statuses
          /\ to \in TaskStatuses
      BY <1>6 DEF RecordInitial, LockInv, RequestInv, Requests
    <2>2. /\ status[t] = NoStatus /\ StatusWritten(t, to) /\ dirtyLog = log
      BY <1>6, <2>1 DEF RecordInitial, PendingOf
    <2>3. Legal(t, to, TRUE)' /\ StatusWritten(t, to)' /\ RowWritten(t, to, TRUE)'
      BY <1>6, <2>1, <2>2 DEF RecordInitial, Legal, StatusWritten, RowWritten
    <2>4. /\ pc' = [pc EXCEPT ![s] = "written"]
          /\ UNCHANGED <<holder, req>>
      BY <1>6 DEF RecordInitial
    <2>5. PendingOf(s)'
      BY <2>1, <2>3, <2>4 DEF PendingOf
    <2> QED BY <2>1, <2>4, <2>5
  <1>7. ASSUME NEW s \in Sessions, InsertHistory(s)
        PROVE  CliInv'
    <2> DEFINE t == req[s].task  to == req[s].to  why == req[s].why
    <2>1. /\ holder = s /\ t \in Tasks /\ seen[s] = status[t]
          /\ dirtyStatus = status /\ dirtyLog = log
          /\ ServicePermits(status[t], to, why)
      BY <1>7 DEF InsertHistory, LockInv, CliChecksUnderLock, RequestInv,
                  Requests, PendingOf
    <2>2. status[t] # NoStatus
      BY <2>1, NoEdgeFromNull
    <2>3. Legal(t, to, why)' /\ RowWritten(t, to, why)' /\ dirtyStatus' = status'
      BY <1>7, <2>1, <2>2 DEF InsertHistory, Legal, RowWritten
    <2>4. /\ pc' = [pc EXCEPT ![s] = "history_inserted"]
          /\ UNCHANGED <<status, req>> /\ holder' = s
      BY <1>7 DEF InsertHistory, HasOrTakesLock
    <2>5. PendingOf(s)'
      BY <2>2, <2>3, <2>4 DEF PendingOf
    <2> QED BY <1>7, <2>1, <2>4, <2>5 DEF InsertHistory
  <1>8. ASSUME NEW s \in Sessions, UpdateStatus(s)
        PROVE  CliInv'
    <2> DEFINE t == req[s].task  to == req[s].to  why == req[s].why
    <2>1. /\ holder = s /\ t \in Tasks /\ to \in Statuses /\ why \in BOOLEAN
          /\ Legal(t, to, why) /\ RowWritten(t, to, why) /\ dirtyStatus = status
      BY <1>8 DEF UpdateStatus, LockInv, RequestInv, Requests, PendingOf
    <2>2. Legal(t, to, why)' /\ RowWritten(t, to, why)' /\ StatusWritten(t, to)'
      BY <1>8, <2>1 DEF UpdateStatus, Legal, RowWritten, StatusWritten
    <2>3. /\ pc' = [pc EXCEPT ![s] = "written"]
          /\ UNCHANGED <<holder, req>>
      BY <1>8 DEF UpdateStatus
    <2>4. PendingOf(s)'
      BY <2>1, <2>2, <2>3 DEF PendingOf
    <2> QED BY <2>1, <2>3, <2>4
  <1>9. ASSUME NEW s \in Sessions, Commit(s)
        PROVE  CliInv'
    BY <1>9 DEF Commit, GoIdle, SessionsAssumption
  <1>10. CASE UNCHANGED vars
    BY <1>10 DEF vars, PendingOf, Legal, StatusWritten, RowWritten
  <1> QED
    BY <1>1, <1>2, <1>3, <1>4, <1>5, <1>6, <1>7, <1>8, <1>9, <1>10
       DEF Next, CliStep, OnlyCli

\* StatusLog reads the transition tables that this module reads.
LEMMA SameRules ==
  /\ Promise!NoStatus = NoStatus /\ Promise!Statuses = Statuses
  /\ Promise!TaskStatuses = TaskStatuses
  /\ \A from, to, why : Promise!ServicePermits(from, to, why)
                           <=> ServicePermits(from, to, why)
  BY DEF Promise!NoStatus, NoStatus, Promise!Statuses, Statuses,
         Promise!TaskStatuses, TaskStatuses, Promise!ServicePermits,
         ServicePermits, Promise!CanTransition, CanTransition,
         Promise!ServiceEdges, ServiceEdges, Promise!RequiresReason,
         RequiresReason

\* A commit of the command line is one step of StatusLog.
LEMMA CommitIsAbstractStep ==
  OnlyCli /\ CliInv /\ [Next]_vars => [Promise!SLNext]_Promise!slVars
  <1> SUFFICES ASSUME OnlyCli, CliInv, NEW s \in Sessions, Commit(s),
                      status' = dirtyStatus, log' = dirtyLog
               PROVE  Promise!SLNext
    BY OnlyCommitPublishes DEF Promise!slVars, dbVars
  <1>1. holder = s /\ pc[s] = "written"
    BY DEF Commit, CliInv, LockInv
  <1>2. PICK t \in Tasks, to \in Statuses, why \in BOOLEAN :
          Legal(t, to, why) /\ StatusWritten(t, to) /\ RowWritten(t, to, why)
    BY <1>1 DEF CliInv, PendingOf
  <1>3. Promise!Record(t, to, why)
    BY <1>2 DEF Promise!Record, Promise!Row, Row, StatusWritten, RowWritten
  <1>4. CASE status[t] = NoStatus
    BY <1>2, <1>3, <1>4, SameRules
       DEF Promise!SLNext, Promise!CreateTask, Legal
  <1>5. CASE status[t] # NoStatus
    BY <1>2, <1>3, <1>5, SameRules
       DEF Promise!SLNext, Promise!MoveTask, Legal
  <1> QED BY <1>4, <1>5

\* The statements, locks, failures and rollbacks of any number of commands
\* amount to the abstract history: nothing half-done is ever committed.
THEOREM CliImplementsStatusLog == OnlyCli => (Spec => ImplementsStatusLog)
  <1> SUFFICES ASSUME OnlyCli PROVE Spec => ImplementsStatusLog
    OBVIOUS
  <1>1. Init => Promise!SLInit
    BY DEF Init, Promise!SLInit, Promise!NoStatus, NoStatus
  <1> QED
    BY <1>1, CliInitially, CliInvStep, CommitIsAbstractStep, PTL
       DEF Spec, ImplementsStatusLog, Promise!SLSpec

-------------------------------------------------------------------------------
(* 6. What the promise implies, and so the command line                     *)

LEMMA SameHistories ==
  /\ \A rows : Promise!FollowsGraph(rows) <=> FollowsGraph(rows)
  /\ \A rows, current : Promise!EndsIn(rows, current) <=> EndsIn(rows, current)
  /\ \A from, to, why : Promise!Row(from, to, why) = Row(from, to, why)
  /\ Promise!LogEntries = LogEntries
  BY SameRules
     DEF Promise!FollowsGraph, FollowsGraph, Promise!EndsIn, EndsIn, Promise!Row, Row,
         Promise!LogEntries, LogEntries

ExplainedInv == Promise!SLTypeOK /\ Promise!HistoryExplainsStatus

LEMMA ExplainedInitially == Promise!SLInit => ExplainedInv
  BY SameRules, SameHistories
     DEF Promise!SLInit, ExplainedInv, Promise!SLTypeOK, Promise!HistoryExplainsStatus,
         EndsIn, FollowsGraph

\* A status that is not NULL has a history, and the other way round.
LEMMA NoStatusNoHistory ==
  ASSUME NEW rows \in Seq(LogEntries), NEW current, EndsIn(rows, current)
  PROVE  current = NoStatus <=> rows = << >>
  <1>1. CASE rows # << >>
    <2>1. rows[Len(rows)] \in LogEntries
      BY <1>1
    <2> QED BY <1>1, <2>1 DEF EndsIn, LogEntries, NoStatus, Statuses
  <1> QED BY <1>1 DEF EndsIn

\* A step of the promise adds one row to one history, which goes on where it ended.
LEMMA RecordExplains ==
  ASSUME ExplainedInv, NEW t \in Tasks, NEW to \in Statuses, NEW why \in BOOLEAN,
         Promise!Record(t, to, why),
         status[t] # NoStatus => ServicePermits(status[t], to, why)
  PROVE  ExplainedInv' /\ \A u \in Tasks : KeepsRows(log[u], log'[u])
  <1> DEFINE row == Row(status[t], to, why)
             rows == Append(log[t], row)
  <1>0. /\ status \in [Tasks -> Statuses \cup {NoStatus}]
        /\ log \in [Tasks -> Seq(LogEntries)]
        /\ \A u \in Tasks : FollowsGraph(log[u]) /\ EndsIn(log[u], status[u])
    BY SameRules, SameHistories
       DEF ExplainedInv, Promise!SLTypeOK, Promise!HistoryExplainsStatus
  <1>1. status' = [status EXCEPT ![t] = to] /\ log' = [log EXCEPT ![t] = rows]
    BY SameHistories DEF Promise!Record
  <1>2. row \in LogEntries /\ rows \in Seq(LogEntries)
    <2>1. row \in LogEntries
      BY <1>0 DEF Row, LogEntries
    <2> QED BY <1>0, <2>1
  <1>3. FollowsGraph(rows) /\ EndsIn(rows, to)
    <2>1. CASE status[t] = NoStatus
      <3>1. log[t] = << >>
        BY <1>0, <2>1, NoStatusNoHistory
      <3> QED BY <2>1, <3>1, FirstRowIsPath
    <2>2. CASE status[t] # NoStatus
      BY <1>0, <2>2, AppendKeepsPath
    <2> QED BY <2>1, <2>2
  <1>4. KeepsRows(log[t], rows)
    BY <1>0, <1>2 DEF KeepsRows
  <1> HIDE DEF row, rows
  <1>5. \A u \in Tasks : KeepsRows(log[u], log'[u])
    <2>1. \A u \in Tasks : KeepsRows(log[u], log[u])
      BY <1>0 DEF KeepsRows
    <2> QED BY <1>0, <1>1, <1>4, <2>1
  <1>6. /\ status' \in [Tasks -> Statuses \cup {NoStatus}]
        /\ log' \in [Tasks -> Seq(LogEntries)]
        /\ \A u \in Tasks : FollowsGraph(log'[u]) /\ EndsIn(log'[u], status'[u])
    BY <1>0, <1>1, <1>2, <1>3
  <1>7. ExplainedInv'
    BY <1>6, SameRules, SameHistories
       DEF ExplainedInv, Promise!SLTypeOK, Promise!HistoryExplainsStatus
  <1> QED BY <1>5, <1>7

LEMMA ExplainedStep ==
  ExplainedInv /\ [Promise!SLNext]_Promise!slVars
    => ExplainedInv' /\ \A t \in Tasks : KeepsRows(log[t], log'[t])
  <1> SUFFICES ASSUME ExplainedInv, [Promise!SLNext]_Promise!slVars
               PROVE  ExplainedInv' /\ \A t \in Tasks : KeepsRows(log[t], log'[t])
    OBVIOUS
  <1>1. CASE Promise!SLNext
    <2>1. PICK t \in Tasks, to \in Statuses :
            \/ to \in TaskStatuses /\ Promise!CreateTask(t, to)
            \/ \E why \in BOOLEAN : Promise!MoveTask(t, to, why)
      BY <1>1, SameRules DEF Promise!SLNext
    <2>2. CASE Promise!CreateTask(t, to)
      <3>1. status[t] = NoStatus /\ Promise!Record(t, to, TRUE)
        BY <2>2, SameRules DEF Promise!CreateTask
      <3> QED BY <3>1, RecordExplains
    <2>3. ASSUME NEW why \in BOOLEAN, Promise!MoveTask(t, to, why)
          PROVE  ExplainedInv' /\ \A u \in Tasks : KeepsRows(log[u], log'[u])
      <3>1. ServicePermits(status[t], to, why) /\ Promise!Record(t, to, why)
        BY <2>3, SameRules DEF Promise!MoveTask
      <3> QED BY <3>1, RecordExplains
    <2> QED BY <2>1, <2>2, <2>3
  <1>2. CASE UNCHANGED Promise!slVars
    <2>1. status' = status /\ log' = log
      BY <1>2 DEF Promise!slVars
    <2>2. log \in [Tasks -> Seq(LogEntries)]
      BY SameHistories DEF ExplainedInv, Promise!SLTypeOK
    <2>3. \A t \in Tasks : KeepsRows(log[t], log'[t])
      BY <2>1, <2>2 DEF KeepsRows
    <2> QED BY <2>1, <2>3 DEF ExplainedInv, Promise!SLTypeOK, Promise!HistoryExplainsStatus
  <1> QED BY <1>1, <1>2

\* StatusLog keeps what it is there for: whatever implements it has, for every task, a
\* history that is a path of the table from NULL, ends in the task's status and only grows.
THEOREM PromiseExplainsStatus ==
  Promise!SLSpec => /\ []Promise!SLTypeOK
                    /\ []Promise!HistoryExplainsStatus
                    /\ [][\A t \in Tasks : KeepsRows(log[t], log'[t])]_Promise!slVars
  <1> DEFINE Grows == \A t \in Tasks : KeepsRows(log[t], log'[t])
  <1>1. ExplainedInv => Promise!SLTypeOK /\ Promise!HistoryExplainsStatus
    BY DEF ExplainedInv
  <1>2. ExplainedInv /\ [Promise!SLNext]_Promise!slVars
          => ExplainedInv' /\ [Grows]_Promise!slVars
    BY ExplainedStep
  <1> HIDE DEF Grows
  <1>3. Promise!SLSpec => /\ []Promise!SLTypeOK
                          /\ []Promise!HistoryExplainsStatus
                          /\ [][Grows]_Promise!slVars
    BY <1>1, <1>2, ExplainedInitially, PTL DEF Promise!SLSpec
  <1> QED BY <1>3 DEF Grows

\* INV-012 for the command line: every committed history is a path of the
\* transition table, with a reason where one is required.
THEOREM CliHistoryIsPath == OnlyCli => (Spec => []HistoryIsPath)
  <1> SUFFICES ASSUME OnlyCli PROVE Spec => []HistoryIsPath
    OBVIOUS
  <1>1. Promise!HistoryExplainsStatus => HistoryIsPath
    BY SameHistories DEF Promise!HistoryExplainsStatus, HistoryIsPath
  <1> QED
    BY <1>1, CliImplementsStatusLog, PromiseExplainsStatus, PTL DEF ImplementsStatusLog

-------------------------------------------------------------------------------
(* 7. Callers of the library who check under the lock                       *)

\* A caller whose transaction has written something, or was begun with the lock,
\* before it calls transition().
ChecksUnderLock == \A s \in ApiSessions : ApiCheck(s) => holder = s

\* What anybody has checked is legal, current and kept so by the lock; the tables as
\* the holder sees them have legal histories at every moment of a transaction.
DisciplineInv ==
  /\ WriteInv
  /\ HistoryIsPath
  /\ \A t \in Tasks : FollowsGraph(dirtyLog[t])
  /\ \A s \in Sessions : pc[s] = "checked" =>
       holder = s /\ ServicePermits(seen[s], req[s].to, req[s].why)
  /\ \A s \in Sessions : pc[s] = "task_inserted" => dirtyLog[req[s].task] = << >>

LEMMA DisciplineInitially == Init => DisciplineInv
  BY WriteInitially DEF Init, DisciplineInv, HistoryIsPath, FollowsGraph

\* With the lock held or free for s, no other session is between two writes.
LEMMA AgreesForWriter ==
  ASSUME WriteInv, NEW s \in Sessions, holder = s, NEW t \in Tasks, ~MidWrite(s)
  PROVE  EndsIn(dirtyLog[t], dirtyStatus[t]) /\ dirtyLog[t] \in Seq(LogEntries)
  <1>1. \A q \in Sessions : ~MidWrite(q)
    BY DEF WriteInv, LockInv, MidWrite
  <1> QED BY <1>1 DEF WriteInv, DirtyAgrees, LockInv, RequestInv, TypeOK

LEMMA DisciplineStep ==
  DisciplineInv /\ [Next /\ ChecksUnderLock]_vars => DisciplineInv'
  <1> SUFFICES ASSUME DisciplineInv, [Next /\ ChecksUnderLock]_vars PROVE DisciplineInv'
    OBVIOUS
  <1>0. /\ WriteInv /\ WriteInv' /\ LockInv /\ RequestInv /\ TypeOK
        /\ HistoryIsPath /\ \A t \in Tasks : FollowsGraph(dirtyLog[t])
    BY WriteStep DEF DisciplineInv, WriteInv, LockInv, RequestInv
  <1> USE <1>0 DEF DisciplineInv, TypeOK, dbVars, dirtyVars, GoTo
  <1>1. ASSUME NEW s \in Sessions, UNCHANGED <<log, dirtyLog>>,
               \A q \in Sessions : q # s => pc'[q] = pc[q] /\ req'[q] = req[q]
                                             /\ seen'[q] = seen[q],
               pc'[s] \notin {"checked", "task_inserted"},
               \A q \in Sessions : q # s /\ holder = q => holder' = q
        PROVE  DisciplineInv'
    BY <1>1 DEF HistoryIsPath
  <1>2. ASSUME NEW s \in CliSessions, NEW r \in Requests, Request(s, r)
        PROVE  DisciplineInv'
    BY <1>1, <1>2 DEF Request, Sessions
  <1>3. ASSUME NEW s \in ApiSessions, ApiBegin(s) \/ \E r \in Requests : ApiCall(s, r)
        PROVE  DisciplineInv'
    <2>1. /\ s \in Sessions /\ UNCHANGED <<log, dirtyLog>>
          /\ \E l \in {"asked", "written"} : pc' = [pc EXCEPT ![s] = l]
          /\ req' = req \/ \E r \in Requests : req' = [req EXCEPT ![s] = r]
          /\ seen' = seen
          /\ holder' = holder \/ holder = NoSession
      BY <1>3 DEF ApiBegin, ApiCall, Sessions
    <2> QED BY <1>1, <2>1, SessionsAssumption
  <1>4. ASSUME NEW s \in Sessions,
               AcquireLock(s) \/ ApiRefuse(s) \/ BusyTimeout(s) \/ UpdateStatus(s)
        PROVE  DisciplineInv'
    <2>1. /\ UNCHANGED <<log, dirtyLog>>
          /\ \E l \in {"open", "written", "idle"} : pc' = [pc EXCEPT ![s] = l]
          /\ req' = req \/ req' = [req EXCEPT ![s] = NoRequest]
          /\ seen' = seen \/ seen' = [seen EXCEPT ![s] = NoStatus]
          /\ holder' = holder \/ holder = NoSession
      BY <1>4 DEF AcquireLock, ApiRefuse, BusyTimeout, UpdateStatus, GoIdle
    <2> QED BY <1>1, <2>1, SessionsAssumption
  <1>5. ASSUME NEW s \in Sessions, CliCheck(s) \/ (ApiCheck(s) /\ holder = s)
        PROVE  DisciplineInv'
    <2> DEFINE from == StatusSeenBy(s, req[s].task)
    <2>1. /\ pc' = [pc EXCEPT ![s] = "checked"] /\ seen' = [seen EXCEPT ![s] = from]
          /\ ServicePermits(from, req[s].to, req[s].why)
          /\ UNCHANGED <<log, dirtyLog, holder, req>>
      BY <1>5 DEF CliCheck, ApiCheck, CliPermits
    <2>2. holder = s
      BY <1>5 DEF CliCheck, LockInv
    <2> HIDE DEF from
    <2> QED BY <2>1, <2>2 DEF HistoryIsPath
  <1>6. ASSUME NEW s \in Sessions, CliRefuse(s) \/ CliNoOp(s) \/ Abandon(s)
        PROVE  DisciplineInv'
    <2>1. DropWrites(s) /\ GoIdle(s) /\ UNCHANGED dbVars
      BY <1>6 DEF CliRefuse, CliNoOp, Abandon
    <2>2. CASE holder = s
      <3>1. dirtyLog' = log
        BY <2>1, <2>2 DEF DropWrites
      <3>2. \A q \in Sessions : pc'[q] \notin {"checked", "task_inserted"}
        BY <2>1, <2>2 DEF GoIdle, LockInv
      <3> QED BY <2>1, <3>1, <3>2 DEF HistoryIsPath
    <2>3. CASE holder # s
      BY <1>1, <2>1, <2>3 DEF DropWrites, GoIdle
    <2> QED BY <2>2, <2>3
  <1>7. ASSUME NEW s \in Sessions, InsertTask(s)
        PROVE  DisciplineInv'
    <2>1. /\ pc[s] = "open" /\ pc' = [pc EXCEPT ![s] = "task_inserted"]
          /\ dirtyStatus[req[s].task] = NoStatus
          /\ UNCHANGED <<log, dirtyLog, holder, req, seen>>
      BY <1>7 DEF InsertTask
    <2>2. req[s].task \in Tasks /\ holder = s /\ ~MidWrite(s)
      BY <2>1 DEF LockInv, RequestInv, Requests, MidWrite
    <2>3. dirtyLog[req[s].task] = << >>
      BY <2>1, <2>2, AgreesForWriter, NoStatusNoHistory
    <2> QED BY <2>1, <2>3 DEF HistoryIsPath
  <1>8. ASSUME NEW s \in Sessions, RecordInitial(s)
        PROVE  DisciplineInv'
    <2> DEFINE t == req[s].task
               rows == Append(dirtyLog[t], Row(NoStatus, req[s].to, TRUE))
    <2>1. /\ pc[s] = "task_inserted" /\ pc' = [pc EXCEPT ![s] = "written"]
          /\ dirtyLog' = [dirtyLog EXCEPT ![t] = rows]
          /\ UNCHANGED <<log, holder, req, seen>>
      BY <1>8 DEF RecordInitial
    <2>2. t \in Tasks /\ req[s].to \in Statuses /\ holder = s
      BY <2>1 DEF LockInv, RequestInv, Requests
    <2>3. FollowsGraph(rows)
      BY <2>1, <2>2, FirstRowIsPath
    <2> HIDE DEF rows
    <2>4. \A q \in Sessions : q # s => pc[q] \notin {"checked", "task_inserted"}
      BY <2>2 DEF LockInv
    <2> QED BY <2>1, <2>2, <2>3, <2>4 DEF HistoryIsPath
  <1>9. ASSUME NEW s \in Sessions, InsertHistory(s)
        PROVE  DisciplineInv'
    <2> DEFINE t == req[s].task
               rows == Append(dirtyLog[t], Row(seen[s], req[s].to, req[s].why))
    <2>1. /\ pc[s] = "checked" /\ pc' = [pc EXCEPT ![s] = "history_inserted"]
          /\ dirtyLog' = [dirtyLog EXCEPT ![t] = rows]
          /\ UNCHANGED <<log, req, seen>>
      BY <1>9 DEF InsertHistory
    <2>2. /\ t \in Tasks /\ req[s].to \in Statuses /\ req[s].why \in BOOLEAN
          /\ holder = s /\ ServicePermits(seen[s], req[s].to, req[s].why)
      BY <2>1 DEF RequestInv, Requests
    <2>3. /\ EndsIn(dirtyLog[t], seen[s]) /\ dirtyLog[t] \in Seq(LogEntries)
          /\ seen[s] # NoStatus
      <3>1. seen[s] = dirtyStatus[t] /\ ~MidWrite(s)
        BY <2>1, <2>2 DEF LockInv, LockedCheckIsCurrent, MidWrite
      <3> QED BY <2>2, <3>1, AgreesForWriter, NoEdgeFromNull
    <2>4. FollowsGraph(rows)
      BY <2>2, <2>3, AppendKeepsPath
    <2> HIDE DEF rows
    <2>5. \A q \in Sessions : q # s => pc[q] \notin {"checked", "task_inserted"}
      BY <2>2 DEF LockInv
    <2> QED BY <2>1, <2>2, <2>4, <2>5 DEF HistoryIsPath
  <1>10. ASSUME NEW s \in Sessions, Commit(s)
         PROVE  DisciplineInv'
    <2>1. /\ pc[s] = "written" /\ holder = s /\ log' = dirtyLog /\ dirtyLog' = dirtyLog
          /\ GoIdle(s)
      BY <1>10 DEF Commit, LockInv
    <2>2. \A q \in Sessions : pc'[q] \notin {"checked", "task_inserted"}
      BY <2>1 DEF GoIdle, LockInv
    <2> QED BY <2>1, <2>2 DEF HistoryIsPath
  <1>11. CASE UNCHANGED vars
    BY <1>11 DEF vars, HistoryIsPath
  <1> QED
    BY <1>2, <1>3, <1>4, <1>5, <1>6, <1>7, <1>8, <1>9, <1>10, <1>11
       DEF Next, CliStep, ApiStep, Sessions, ChecksUnderLock

\* INV-012 with callers of the library: one that takes the lock before it calls
\* transition() (any write of its own does) cannot break a history, however many there
\* are and however their transactions end.  Without the lock two of them can.
THEOREM LockedCallersKeepPaths ==
  Spec /\ [][ChecksUnderLock]_vars => []HistoryIsPath
  <1>1. DisciplineInv => HistoryIsPath
    BY DEF DisciplineInv
  <1> QED BY <1>1, DisciplineInitially, DisciplineStep, PTL DEF Spec

-------------------------------------------------------------------------------
(* 8. Commands of the command line are finite                               *)

\* How many statements a command has before it at most, from each place.
StatementsLeft ==
  [l \in Labels |->
     CASE l = "waiting" -> 5
       [] l = "open" -> 4
       [] l \in {"task_inserted", "checked"} -> 3
       [] l = "history_inserted" -> 2
       [] l = "written" -> 1
       [] OTHER -> 0]

LEMMA CliStepDescends ==
  ASSUME TypeOK, NEW s \in CliSessions, CliStep(s)
  PROVE  /\ StatementsLeft[pc'[s]] < StatementsLeft[pc[s]]
         /\ \A q \in Sessions \ {s} : pc'[q] = pc[q]
  <1>0. s \in Sessions /\ pc \in [Sessions -> Labels]
    BY DEF Sessions, TypeOK
  <1>1. ASSUME NEW from, NEW to, pc[s] = from, GoTo(s, to),
               <<from, to>> \in {<<"waiting", "open">>, <<"waiting", "idle">>, <<"open", "checked">>,
                                 <<"open", "idle">>, <<"open", "task_inserted">>,
                                 <<"task_inserted", "written">>, <<"checked", "idle">>,
                                 <<"checked", "history_inserted">>,
                                 <<"history_inserted", "written">>, <<"written", "idle">>}
        PROVE  /\ StatementsLeft[pc'[s]] < StatementsLeft[pc[s]]
               /\ \A q \in Sessions \ {s} : pc'[q] = pc[q]
    <2>1. pc'[s] = to /\ \A q \in Sessions \ {s} : pc'[q] = pc[q]
      BY <1>0, <1>1 DEF GoTo
    <2>2. from \in Labels /\ to \in Labels
      BY <1>1 DEF Labels
    <2>3. StatementsLeft[to] < StatementsLeft[from]
      BY <1>1, <2>2 DEF StatementsLeft
    <2> QED BY <1>1, <2>1, <2>3
  <1> QED BY <1>1
          DEF CliStep, AcquireLock, CliCheck, CliRefuse, CliNoOp, InsertTask, RecordInitial,
              InsertHistory, UpdateStatus, Commit, BusyTimeout, GoIdle

LEMMA OthersLeavePlace ==
  ASSUME TypeOK, Next, NEW s \in CliSessions, pc[s] # "idle"
  PROVE  pc'[s] = pc[s] \/ pc'[s] = "idle" \/ CliStep(s)
  <1>0. s \in Sessions /\ s \notin ApiSessions /\ pc \in [Sessions -> Labels]
    BY SessionsAssumption DEF Sessions, TypeOK
  <1>1. ASSUME NEW q \in CliSessions, CliStep(q)
        PROVE  pc'[s] = pc[s] \/ CliStep(s)
    BY <1>0, <1>1, CliStepDescends
  <1>2. ASSUME NEW q \in Sessions, Abandon(q) \/ \E r \in Requests : Request(q, r)
        PROVE  pc'[s] = pc[s] \/ pc'[s] = "idle"
    BY <1>0, <1>2 DEF Abandon, Request, GoIdle, GoTo
  <1>3. ASSUME NEW q \in ApiSessions,
               ApiStep(q) \/ ApiBegin(q) \/ \E r \in Requests : ApiCall(q, r)
        PROVE  pc'[s] = pc[s]
    <2>1. \E l \in Labels : pc' = [pc EXCEPT ![q] = l]
      BY <1>3
         DEF ApiStep, ApiCheck, ApiRefuse, InsertHistory, UpdateStatus, Commit, BusyTimeout,
             ApiBegin, ApiCall, GoIdle, GoTo, Labels
    <2> QED BY <1>0, <2>1
  <1> QED BY <1>1, <1>2, <1>3 DEF Next, Sessions

\* The safety half of CliCommandReturns: each statement of a command brings it nearer to
\* its end, and nothing that the other sessions do, and no timeout or failure of its own,
\* sets it back.  That a statement can always be executed is the half TLC checks.
THEOREM CliCommandsAreFinite ==
  Spec => [][\A s \in CliSessions :
               /\ CliStep(s) => StatementsLeft[pc'[s]] < StatementsLeft[pc[s]]
               /\ pc[s] # "idle" => StatementsLeft[pc'[s]] <= StatementsLeft[pc[s]]]_vars
  <1>1. ASSUME TypeOK, TypeOK', Next, NEW s \in CliSessions, pc[s] # "idle"
        PROVE  StatementsLeft[pc'[s]] <= StatementsLeft[pc[s]]
    <2>1. pc[s] \in Labels /\ pc'[s] \in Labels
      BY <1>1 DEF TypeOK, Sessions
    <2>2. /\ \A l \in Labels : StatementsLeft[l] \in Nat
          /\ StatementsLeft["idle"] = 0
      BY DEF StatementsLeft, Labels
    <2>3. CASE CliStep(s)
      BY <1>1, <2>1, <2>2, <2>3, CliStepDescends
    <2>4. CASE pc'[s] = pc[s] \/ pc'[s] = "idle"
      BY <2>1, <2>2, <2>4
    <2> QED BY <1>1, <2>3, <2>4, OthersLeavePlace
  <1>2. TypeOK /\ TypeOK' /\ [Next]_vars =>
          [\A s \in CliSessions :
             /\ CliStep(s) => StatementsLeft[pc'[s]] < StatementsLeft[pc[s]]
             /\ pc[s] # "idle" => StatementsLeft[pc'[s]] <= StatementsLeft[pc[s]]]_vars
    BY <1>1, CliStepDescends
  <1> QED BY <1>2, TypeCorrect, PTL DEF Spec

-------------------------------------------------------------------------------
(* 9. The times of the rows are in the order of the commits                 *)

Upto(ts, at) == \A i \in 1..Len(ts) : ts[i] <= at
InOrder(ts) == \A j \in 1..Len(ts) : \A i \in 1..j : ts[i] <= ts[j]

\* ts are times of the rows, none of them in the future.
TimesOf(ts, rows, now) == Len(ts) = Len(rows) /\ Upto(ts, now) /\ InOrder(ts)

TimesTypeOK ==
  /\ clock \in Nat /\ since \in [CliSessions -> Nat]
  /\ times \in [Tasks -> Seq(Nat)] /\ dirtyTimes \in [Tasks -> Seq(Nat)]

\* Between its check and its INSERT a session has the lock, so the rows that it sees
\* are those from before its check.
TimesInv ==
  /\ WriteInv /\ TimesTypeOK
  /\ \A t \in Tasks : TimesOf(times[t], log[t], clock)
  /\ \A t \in Tasks : TimesOf(dirtyTimes[t], dirtyLog[t], clock)
  /\ holder = NoSession => dirtyTimes = times
  /\ \A s \in CliSessions : since[s] <= clock
  /\ \A s \in CliSessions : pc[s] = "checked" => \A t \in Tasks : Upto(dirtyTimes[t], since[s])
  /\ \A s \in CliSessions : pc[s] = "task_inserted" => dirtyLog[req[s].task] = << >>

LEMMA OneMoreTime ==
  ASSUME NEW ts \in Seq(Nat), NEW rows \in Seq(LogEntries), NEW row \in LogEntries,
         NEW at \in Nat, NEW now \in Nat, TimesOf(ts, rows, now), Upto(ts, at), at <= now
  PROVE  /\ Append(ts, at) \in Seq(Nat)
         /\ TimesOf(Append(ts, at), Append(rows, row), now)
  <1> DEFINE new == Append(ts, at)
  <1>1. /\ new \in Seq(Nat) /\ Len(new) = Len(ts) + 1 /\ Len(ts) \in Nat
        /\ \A i \in 1..Len(ts) : new[i] = ts[i] /\ ts[i] \in Nat
        /\ new[Len(ts) + 1] = at
        /\ Len(Append(rows, row)) = Len(rows) + 1
    OBVIOUS
  <1> HIDE DEF new
  <1>2. \A i \in 1..Len(new) : new[i] \in Nat /\ new[i] <= at
    <2> SUFFICES ASSUME NEW i \in 1..Len(new) PROVE new[i] \in Nat /\ new[i] <= at
      OBVIOUS
    <2>1. CASE i \in 1..Len(ts)
      <3>1. ts[i] <= at
        BY <2>1 DEF Upto
      <3> QED BY <1>1, <2>1, <3>1
    <2>2. CASE i = Len(ts) + 1
      BY <1>1, <2>2
    <2> QED BY <1>1, <2>1, <2>2
  <1>3. InOrder(new)
    <2> SUFFICES ASSUME NEW j \in 1..Len(new), NEW i \in 1..j PROVE new[i] <= new[j]
      BY DEF InOrder
    <2>1. CASE j \in 1..Len(ts)
      <3>1. ts[i] <= ts[j] /\ i \in 1..Len(ts)
        BY <1>1, <2>1 DEF TimesOf, InOrder
      <3> QED BY <1>1, <2>1, <3>1
    <2>2. CASE j = Len(ts) + 1
      <3>1. new[j] = at /\ i \in 1..Len(new)
        BY <1>1, <2>2
      <3> QED BY <1>2, <3>1
    <2> QED BY <1>1, <2>1, <2>2
  <1>4. Upto(new, now)
    BY <1>1, <1>2 DEF Upto
  <1> QED BY <1>1, <1>3, <1>4 DEF TimesOf, new

LEMMA LaterClock ==
  ASSUME NEW ts \in Seq(Nat), NEW rows, NEW now \in Nat, TimesOf(ts, rows, now)
  PROVE  TimesOf(ts, rows, now + 1)
  BY DEF TimesOf, Upto

LEMMA TimesInitially == TimesInit => TimesInv
  BY WriteInitially
     DEF TimesInit, TimesInv, TimesTypeOK, TimesOf, Upto, InOrder, Init, Sessions

LEMMA TimesImplementSessions == [TimesNext]_allVars => [Next]_vars
  BY DEF TimesNext, TimedRequest, TimedCheck, TimedRecordInitial, TimedInsertHistory,
         Untimed, TimedCommit, TimedEnd, Tick, Next, CliStep, allVars

\* A session of the command line that writes is alone past its wait.
LEMMA AloneWithLock ==
  ASSUME TimesInv, NEW s \in CliSessions, pc[s] \notin {"idle", "waiting"}
  PROVE  /\ holder = s
         /\ \A q \in CliSessions : q # s => pc[q] \in {"idle", "waiting"}
  BY DEF TimesInv, WriteInv, LockInv, RequestInv, TypeOK, Labels, CliChecksUnderLock, Sessions

LEMMA TimesStep == TimesInv /\ [TimesNext]_allVars => TimesInv'
  <1> SUFFICES ASSUME TimesInv, [TimesNext]_allVars PROVE TimesInv'
    OBVIOUS
  <1>0. /\ WriteInv /\ WriteInv' /\ LockInv /\ RequestInv /\ TypeOK /\ TimesTypeOK
        /\ \A s \in CliSessions : s \in Sessions /\ s # NoSession
    BY TimesImplementSessions, WriteStep
       DEF TimesInv, WriteInv, LockInv, RequestInv, SessionsAssumption, Sessions
  <1> USE <1>0 DEF TimesInv, TimesTypeOK, TypeOK, dbVars, dirtyVars, GoTo
  <1>1. ASSUME NEW s \in CliSessions, NEW r \in Requests, TimedRequest(s, r)
        PROVE  TimesInv'
    BY <1>1 DEF TimedRequest, Request
  <1>2. ASSUME NEW s \in CliSessions, TimedCheck(s)
        PROVE  TimesInv'
    <2>1. \A t \in Tasks : Upto(dirtyTimes[t], clock)
      BY DEF TimesOf
    <2> QED BY <1>2, <2>1 DEF TimedCheck, CliCheck
  <1>3. ASSUME NEW s \in CliSessions, TimedRecordInitial(s)
        PROVE  TimesInv'
    <2> DEFINE t == req[s].task
               row == Row(NoStatus, req[s].to, TRUE)
    <2>1. /\ pc[s] = "task_inserted" /\ pc' = [pc EXCEPT ![s] = "written"]
          /\ dirtyLog' = [dirtyLog EXCEPT ![t] = Append(@, row)]
          /\ dirtyTimes' = [dirtyTimes EXCEPT ![t] = Append(@, since[s])]
          /\ UNCHANGED <<log, times, clock, since, holder, req>>
      BY <1>3 DEF TimedRecordInitial, RecordInitial, AddTime
    <2>2. t \in Tasks /\ row \in LogEntries
      BY <2>1 DEF RequestInv, Requests, Row, LogEntries
    <2>3. Upto(dirtyTimes[t], since[s])
      BY <2>1, <2>2 DEF TimesOf, Upto
    <2>4. /\ Append(dirtyTimes[t], since[s]) \in Seq(Nat)
          /\ TimesOf(Append(dirtyTimes[t], since[s]), Append(dirtyLog[t], row), clock)
      BY <2>2, <2>3, OneMoreTime
    <2>5. /\ holder = s
          /\ \A q \in CliSessions : q # s => pc[q] \in {"idle", "waiting"}
      BY <2>1, AloneWithLock
    <2> HIDE DEF t, row
    <2> QED BY <2>1, <2>2, <2>4, <2>5
  <1>4. ASSUME NEW s \in CliSessions, TimedInsertHistory(s)
        PROVE  TimesInv'
    <2> DEFINE t == req[s].task
               row == Row(seen[s], req[s].to, req[s].why)
    <2>1. /\ pc[s] = "checked" /\ pc' = [pc EXCEPT ![s] = "history_inserted"]
          /\ dirtyLog' = [dirtyLog EXCEPT ![t] = Append(@, row)]
          /\ holder' = s
          /\ UNCHANGED <<log, times, clock, since, req>>
      BY <1>4 DEF TimedInsertHistory, InsertHistory, HasOrTakesLock
    <2>2. PICK at \in since[s]..clock : dirtyTimes' = [dirtyTimes EXCEPT ![t] = Append(@, at)]
      BY <1>4 DEF TimedInsertHistory, AddTime
    <2>3. t \in Tasks /\ row \in LogEntries
      BY <2>1 DEF RequestInv, Requests, Row, LogEntries
    <2>4. at \in Nat /\ at <= clock /\ Upto(dirtyTimes[t], at)
      BY <2>1, <2>2, <2>3 DEF Upto
    <2>5. /\ Append(dirtyTimes[t], at) \in Seq(Nat)
          /\ TimesOf(Append(dirtyTimes[t], at), Append(dirtyLog[t], row), clock)
      BY <2>3, <2>4, OneMoreTime
    <2>6. \A q \in CliSessions : q # s => pc[q] \in {"idle", "waiting"}
      BY <2>1, AloneWithLock
    <2> HIDE DEF t, row
    <2> QED BY <2>1, <2>2, <2>3, <2>5, <2>6
  <1>5. ASSUME NEW s \in CliSessions, Untimed(s)
        PROVE  TimesInv'
    <2>1. UNCHANGED <<timeVars, log, dirtyLog, req>>
      BY <1>5 DEF Untimed, AcquireLock, InsertTask, UpdateStatus
    <2>2. CASE AcquireLock(s) \/ UpdateStatus(s)
      BY <2>1, <2>2 DEF AcquireLock, UpdateStatus, timeVars
    <2>3. CASE InsertTask(s)
      <3>1. /\ pc[s] = "open" /\ pc' = [pc EXCEPT ![s] = "task_inserted"]
            /\ dirtyStatus[req[s].task] = NoStatus /\ holder' = holder
        BY <2>3 DEF InsertTask
      <3>2. /\ holder = s /\ req[s].task \in Tasks
            /\ \A q \in Sessions : ~MidWrite(q)
        BY <3>1 DEF WriteInv, LockInv, RequestInv, Requests, MidWrite
      <3>3. EndsIn(dirtyLog[req[s].task], NoStatus)
        BY <3>1, <3>2 DEF WriteInv, DirtyAgrees
      <3>4. dirtyLog[req[s].task] = << >>
        <4> SUFFICES ASSUME dirtyLog[req[s].task] # << >> PROVE FALSE
          OBVIOUS
        <4>1. dirtyLog[req[s].task][Len(dirtyLog[req[s].task])] \in LogEntries
          BY <3>2
        <4>2. NoStatus \notin Statuses
          BY DEF NoStatus, Statuses
        <4> QED BY <3>3, <4>1, <4>2 DEF EndsIn, LogEntries
      <3> QED BY <2>1, <3>1, <3>2, <3>4 DEF timeVars
    <2> QED BY <1>5, <2>2, <2>3 DEF Untimed
  <1>6. ASSUME NEW s \in CliSessions, TimedCommit(s)
        PROVE  TimesInv'
    <2>1. /\ pc[s] = "written" /\ pc' = [pc EXCEPT ![s] = "idle"]
          /\ log' = dirtyLog /\ times' = dirtyTimes
          /\ since' = [since EXCEPT ![s] = 0]
          /\ UNCHANGED <<dirtyLog, dirtyTimes, clock>>
          /\ req' = [req EXCEPT ![s] = NoRequest]
      BY <1>6 DEF TimedCommit, Commit, GoIdle
    <2>2. \A q \in CliSessions : q # s => pc[q] \in {"idle", "waiting"}
      BY <2>1, AloneWithLock
    <2> QED BY <2>1, <2>2
  <1>7. ASSUME NEW s \in CliSessions, TimedEnd(s)
        PROVE  TimesInv'
    <2>1. /\ pc' = [pc EXCEPT ![s] = "idle"]
          /\ req' = [req EXCEPT ![s] = NoRequest]
          /\ since' = [since EXCEPT ![s] = 0]
          /\ UNCHANGED <<log, times, clock>>
      BY <1>7 DEF TimedEnd, CliRefuse, CliNoOp, BusyTimeout, Abandon, GoIdle
    <2>2. CASE holder = s
      <3>1. dirtyTimes' = times /\ dirtyLog' = log
        BY <1>7, <2>2 DEF TimedEnd, CliRefuse, CliNoOp, BusyTimeout, Abandon, DropWrites
      <3>2. \A q \in CliSessions : q # s => pc[q] \in {"idle", "waiting"}
        BY <2>2 DEF LockInv, CliChecksUnderLock, Labels
      <3>3. \A q \in CliSessions : pc'[q] \in {"idle", "waiting"}
        BY <2>1, <3>2
      <3>4. \A t \in Tasks : TimesOf(dirtyTimes'[t], dirtyLog'[t], clock')
        BY <2>1, <3>1
      <3>5. \A q \in CliSessions : since'[q] <= clock'
        BY <2>1
      <3> QED BY <2>1, <3>1, <3>3, <3>4, <3>5
    <2>3. CASE holder # s
      <3>1. UNCHANGED <<dirtyTimes, dirtyLog, holder>>
        BY <1>7, <2>3 DEF TimedEnd, CliRefuse, CliNoOp, BusyTimeout, Abandon, DropWrites
      <3> QED BY <2>1, <3>1
    <2> QED BY <2>2, <2>3
  <1>8. CASE Tick
    <2>1. clock' = clock + 1 /\ UNCHANGED <<vars, since, times, dirtyTimes>>
      BY <1>8 DEF Tick
    <2>2. \A t \in Tasks : /\ TimesOf(times[t], log[t], clock + 1)
                           /\ TimesOf(dirtyTimes[t], dirtyLog[t], clock + 1)
      BY LaterClock
    <2> QED BY <2>1, <2>2 DEF vars
  <1>9. CASE UNCHANGED allVars
    BY <1>9 DEF allVars, vars, timeVars
  <1> QED BY <1>1, <1>2, <1>3, <1>4, <1>5, <1>6, <1>7, <1>8, <1>9 DEF TimesNext

\* No row of the command line is older than the row before it, so a history that is read
\* by time is the one that was committed, but for rows of one time.
THEOREM ReadsInOrder == TimesSpec => []HistoryReadsInOrder
  <1>1. TimesInv => HistoryReadsInOrder
    BY DEF TimesInv, TimesOf, InOrder, HistoryReadsInOrder, MayPrecede
  <1> QED BY <1>1, TimesInitially, TimesStep, PTL DEF TimesSpec

\* With the clock beside them the sessions keep their types, and so do the clock and the
\* times that the rows were given, for any number of times.
THEOREM TimesTypeCorrect == TimesSpec => [](TypeOK /\ TimesTypeOK)
  <1>1. TimesInv => TypeOK /\ TimesTypeOK
    BY DEF TimesInv, WriteInv, LockInv, RequestInv
  <1> QED BY <1>1, TimesInitially, TimesStep, PTL DEF TimesSpec

\* The rows' times are written beside the history: commands that stamp their rows still
\* implement the abstract history, one creation or one legal move per commit.
THEOREM TimesImplementStatusLog == OnlyCli => (TimesSpec => ImplementsStatusLog)
  <1> SUFFICES ASSUME OnlyCli PROVE TimesSpec => ImplementsStatusLog
    OBVIOUS
  <1>1. TimesInit => Promise!SLInit /\ CliInv
    BY CliInitially DEF TimesInit, Init, Promise!SLInit, Promise!NoStatus, NoStatus
  <1>2. CliInv /\ [TimesNext]_allVars => CliInv' /\ [Promise!SLNext]_Promise!slVars
    BY TimesImplementSessions, CliInvStep, CommitIsAbstractStep
  <1> QED BY <1>1, <1>2, PTL DEF TimesSpec, ImplementsStatusLog, Promise!SLSpec
=============================================================================
