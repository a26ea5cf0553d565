-------------------------- MODULE TransitionSessions --------------------------
(****************************************************************************)
(* Status changes as the database sees them: several connections, each a    *)
(* process of the command line or a program that uses                       *)
(* StateTransitionService on a connection of its own, statement by          *)
(* statement.                                                               *)
(*                                                                          *)
(* SQLite lets one connection at a time hold the write lock.  The other     *)
(* connections read what was committed; the holder reads its own            *)
(* uncommitted writes.  A Python connection takes the lock at its first     *)
(* INSERT or UPDATE, never at a SELECT.  A command of the CLI runs init_db  *)
(* first, whose UPDATE of retry_count takes the lock, so everything the     *)
(* command reads afterwards is read under it.  StateTransitionService       *)
(* reads the status before its first write: the lock is held at that moment *)
(* only if the caller's transaction has written already.                    *)
(****************************************************************************)
EXTENDS TransitionRules

CONSTANTS
  Tasks,        \* task ids
  CliSessions,  \* processes of the command line
  ApiSessions,  \* programs that call StateTransitionService themselves
  MaxHistory,   \* bound: no move is asked of a task with this many rows; a
                \* caller that has added one itself may ask for one more
  NoSession,    \* nobody holds the write lock
  NoRequest     \* an idle session has no request

Sessions == CliSessions \cup ApiSessions

\* create tells "task create" from "task set-status"; to is the status asked
\* for and why says whether a reason was given (create has its own reason).
Requests == [create : BOOLEAN, task : Tasks, to : Statuses, why : BOOLEAN]

ASSUME SessionsAssumption ==
  /\ CliSessions \cap ApiSessions = {}
  /\ NoSession \notin Sessions
  /\ NoRequest \notin Requests
  /\ MaxHistory \in Nat \ {0}

VARIABLES
  status, log,            \* committed: tasks.status and the rows of state_transitions
  dirtyStatus, dirtyLog,  \* the same tables as the lock holder sees them
  holder,                 \* the connection with the write lock
  pc, req, seen           \* each session's next statement, its request, and the
                          \* status its SELECT returned

dbVars == <<status, log>>
dirtyVars == <<dirtyStatus, dirtyLog>>
vars == <<status, log, dirtyStatus, dirtyLog, holder, pc, req, seen>>

Init ==
  /\ status = [t \in Tasks |-> NoStatus]
  /\ log = [t \in Tasks |-> << >>]
  /\ dirtyStatus = status /\ dirtyLog = log
  /\ holder = NoSession
  /\ pc = [s \in Sessions |-> "idle"]
  /\ req = [s \in Sessions |-> NoRequest]
  /\ seen = [s \in Sessions |-> NoStatus]

-------------------------------------------------------------------------------
(* Reads and locks                                                          *)

\* Mutant: the status is read on a connection other than the transaction's own.
CommittedStatus(s, t) == status[t]

StatusSeenBy(s, t) == IF holder = s THEN dirtyStatus[t] ELSE status[t]
LogSeenBy(s, t) == IF holder = s THEN dirtyLog[t] ELSE log[t]

GoTo(s, label) == pc' = [pc EXCEPT ![s] = label]

\* The connection is closed, or at least its transaction is over.
GoIdle(s) ==
  /\ GoTo(s, "idle")
  /\ req' = [req EXCEPT ![s] = NoRequest]
  /\ seen' = [seen EXCEPT ![s] = NoStatus]

\* The first write of a transaction waits for the lock; a later one has it.
HasOrTakesLock(s) ==
  /\ holder \in {s, NoSession}
  /\ holder' = s

DropWrites(s) ==
  IF holder = s
  THEN /\ holder' = NoSession
       /\ dirtyStatus' = status /\ dirtyLog' = log
  ELSE UNCHANGED <<holder, dirtyVars>>

-------------------------------------------------------------------------------
(* The command line: connect(), init_db(), the command, commit, close.      *)

Request(s, r) ==
  /\ s \in CliSessions /\ pc[s] = "idle"
  /\ r.to \in TaskStatuses
  /\ r.create => r.why
  /\ Len(log[r.task]) < MaxHistory \/ r.create
  /\ GoTo(s, "waiting")
  /\ req' = [req EXCEPT ![s] = r]
  /\ UNCHANGED <<dbVars, dirtyVars, holder, seen>>

\* Mutant: init_db finds nothing to update, and leaves no transaction open.
OpenWithoutLock(s) ==
  /\ pc[s] = "waiting" /\ holder = NoSession
  /\ GoTo(s, "open")
  /\ UNCHANGED <<dbVars, dirtyVars, holder, req, seen>>

\* init_db: the UPDATE of retry_count begins the transaction.
AcquireLock(s) ==
  /\ pc[s] = "waiting"
  /\ holder = NoSession /\ holder' = s
  /\ GoTo(s, "open")
  /\ UNCHANGED <<dbVars, dirtyVars, req, seen>>

\* The statuses whose move depends on the goal, the dashboard, the questions
\* and the decisions of the task (module TaskLifecycle); the checks may fail.
GatedStatuses == {"ready", "in_progress", "review", "done"}

CliPermits(from, to, why) ==
  /\ <<from, to>> \in CliEdges
  /\ ServicePermits(from, to, why)

\* get_task, validate_status_transition and the checks of transition(), all
\* under the lock that init_db took.
CliCheck(s) ==
  /\ pc[s] = "open" /\ ~req[s].create
  /\ LET from == StatusSeenBy(s, req[s].task) IN
       /\ CliPermits(from, req[s].to, req[s].why)
       /\ seen' = [seen EXCEPT ![s] = from]
  /\ GoTo(s, "checked")
  /\ UNCHANGED <<dbVars, dirtyVars, holder, req>>

\* The command fails before it writes: connect() rolls back and closes.
CliRefuse(s) ==
  /\ pc[s] = "open"
  /\ LET from == StatusSeenBy(s, req[s].task) IN
       IF req[s].create THEN from # NoStatus
       ELSE /\ from # req[s].to
            /\ \/ ~CliPermits(from, req[s].to, req[s].why)
               \/ req[s].to \in GatedStatuses
  /\ DropWrites(s) /\ GoIdle(s)
  /\ UNCHANGED dbVars

\* The row of tasks, then record_initial's row of state_transitions.
InsertTask(s) ==
  /\ pc[s] = "open" /\ req[s].create
  /\ dirtyStatus[req[s].task] = NoStatus
  /\ dirtyStatus' = [dirtyStatus EXCEPT ![req[s].task] = req[s].to]
  /\ GoTo(s, "task_inserted")
  /\ UNCHANGED <<dbVars, dirtyLog, holder, req, seen>>

\* record_initial looks for a first row before (state_transition.py:194); task create has
\* made the task in this transaction, so there is none.
RecordInitial(s) ==
  /\ pc[s] = "task_inserted"
  /\ dirtyLog' = [dirtyLog EXCEPT ![req[s].task] =
                    Append(@, Row(NoStatus, req[s].to, TRUE))]
  /\ GoTo(s, "written")
  /\ UNCHANGED <<dbVars, dirtyStatus, holder, req, seen>>

-------------------------------------------------------------------------------
(* A caller of StateTransitionService, in its own transaction.              *)

\* The caller writes something of its own before it calls the service: its code, not the
\* repository's.
ApiBegin(s) ==
  /\ s \in ApiSessions /\ pc[s] = "idle"
  /\ holder = NoSession /\ holder' = s
  /\ GoTo(s, "written")
  /\ UNCHANGED <<dbVars, dirtyVars, req, seen>>

ApiCall(s, r) ==
  /\ s \in ApiSessions /\ pc[s] \in {"idle", "written"}
  /\ ~r.create
  /\ Len(log[r.task]) < MaxHistory
  /\ Len(LogSeenBy(s, r.task)) <= MaxHistory
  /\ GoTo(s, "asked")
  /\ req' = [req EXCEPT ![s] = r]
  /\ UNCHANGED <<dbVars, dirtyVars, holder, seen>>

\* The SELECT of transition() and the checks on what it returned.
ApiCheck(s) ==
  /\ pc[s] = "asked"
  /\ LET from == StatusSeenBy(s, req[s].task) IN
       /\ ServicePermits(from, req[s].to, req[s].why)
       /\ seen' = [seen EXCEPT ![s] = from]
  /\ GoTo(s, "checked")
  /\ UNCHANGED <<dbVars, dirtyVars, holder, req>>

\* transition() raises, or returns None for a repeated status: the caller
\* still has whatever transaction it had.
ApiRefuse(s) ==
  /\ pc[s] = "asked"
  /\ ~ServicePermits(StatusSeenBy(s, req[s].task), req[s].to, req[s].why)
  /\ IF holder = s
     THEN GoTo(s, "written") /\ UNCHANGED <<req, seen>>
     ELSE GoIdle(s)
  /\ UNCHANGED <<dbVars, dirtyVars, holder>>

-------------------------------------------------------------------------------
(* The two writes of transition(), and the end of the transaction.          *)

\* Mutant: one row per task, INSERT OR REPLACE.
ReplaceHistory(s) ==
  /\ pc[s] = "checked"
  /\ HasOrTakesLock(s)
  /\ dirtyLog' = [dirtyLog EXCEPT ![req[s].task] =
                    <<Row(seen[s], req[s].to, req[s].why)>>]
  /\ GoTo(s, "history_inserted")
  /\ UNCHANGED <<dbVars, dirtyStatus, req, seen>>

InsertHistory(s) ==
  /\ pc[s] = "checked"
  /\ HasOrTakesLock(s)
  /\ dirtyLog' = [dirtyLog EXCEPT ![req[s].task] =
                    Append(@, Row(seen[s], req[s].to, req[s].why))]
  /\ GoTo(s, "history_inserted")
  /\ UNCHANGED <<dbVars, dirtyStatus, req, seen>>

UpdateStatus(s) ==
  /\ pc[s] = "history_inserted"
  /\ dirtyStatus' = [dirtyStatus EXCEPT ![req[s].task] = req[s].to]
  /\ GoTo(s, "written")
  /\ UNCHANGED <<dbVars, dirtyLog, holder, req, seen>>

\* A set-status of the status the task has: nothing is written, and the CLI
\* commits the transaction that init_db began.
CliNoOp(s) ==
  /\ pc[s] = "open" /\ ~req[s].create
  /\ StatusSeenBy(s, req[s].task) = req[s].to
  /\ DropWrites(s) /\ GoIdle(s)
  /\ UNCHANGED dbVars

Commit(s) ==
  /\ pc[s] = "written"
  /\ status' = dirtyStatus /\ log' = dirtyLog
  /\ holder' = NoSession
  /\ GoIdle(s)
  /\ UNCHANGED dirtyVars

\* Mutant: only the writes of transition() have a busy timeout, init_db waits
\* for ever.
BusyTimeoutAfterCheck(s) ==
  /\ pc[s] = "checked"
  /\ holder \notin {s, NoSession}
  /\ GoIdle(s)
  /\ UNCHANGED <<dbVars, dirtyVars, holder>>

\* The lock was not free for busy_timeout: the statement raises.
BusyTimeout(s) ==
  /\ pc[s] \in {"waiting", "checked"}
  /\ holder \notin {s, NoSession}
  /\ GoIdle(s)
  /\ UNCHANGED <<dbVars, dirtyVars, holder>>

\* Mutant: connect() commits in its finally clause, error or not.
CommitAnyway(s) ==
  /\ pc[s] # "idle"
  /\ IF holder = s
     THEN /\ status' = dirtyStatus /\ log' = dirtyLog
          /\ holder' = NoSession
          /\ UNCHANGED dirtyVars
     ELSE UNCHANGED <<dbVars, dirtyVars, holder>>
  /\ GoIdle(s)

\* The process dies, an exception leaves connect(), or the caller rolls back.
Abandon(s) ==
  /\ pc[s] # "idle"
  /\ DropWrites(s) /\ GoIdle(s)
  /\ UNCHANGED dbVars

-------------------------------------------------------------------------------
CliStep(s) ==
  \/ AcquireLock(s) \/ CliCheck(s) \/ CliRefuse(s) \/ CliNoOp(s)
  \/ InsertTask(s) \/ RecordInitial(s)
  \/ InsertHistory(s) \/ UpdateStatus(s) \/ Commit(s) \/ BusyTimeout(s)

ApiStep(s) ==
  \/ ApiCheck(s) \/ ApiRefuse(s)
  \/ InsertHistory(s) \/ UpdateStatus(s) \/ Commit(s) \/ BusyTimeout(s)

Next ==
  \/ \E s \in CliSessions :
       CliStep(s) \/ Abandon(s) \/ \E r \in Requests : Request(s, r)
  \/ \E s \in ApiSessions :
       ApiStep(s) \/ Abandon(s) \/ ApiBegin(s) \/ \E r \in Requests : ApiCall(s, r)

\* A process of the CLI that has started keeps running, and SQLite's busy
\* handler gives up after its timeout.  Nothing is assumed of the callers of
\* the library: they may keep a transaction open for ever.
Fairness == \A s \in CliSessions : WF_vars(CliStep(s))

Spec == Init /\ [][Next]_vars /\ Fairness

-------------------------------------------------------------------------------
(* Properties                                                               *)

Labels == {"idle", "waiting", "open", "task_inserted", "asked", "checked",
           "history_inserted", "written"}

\* The variables keep their types: the status of a task is a status or NULL,
\* its rows are rows, and only an idle session has no request.
TypeOK ==
  /\ status \in [Tasks -> Statuses \cup {NoStatus}]
  /\ dirtyStatus \in [Tasks -> Statuses \cup {NoStatus}]
  /\ log \in [Tasks -> Seq(LogEntries)]
  /\ dirtyLog \in [Tasks -> Seq(LogEntries)]
  /\ holder \in Sessions \cup {NoSession}
  /\ pc \in [Sessions -> Labels]
  /\ req \in [Sessions -> Requests \cup {NoRequest}]
  /\ seen \in [Sessions -> Statuses \cup {NoStatus}]

\* A status and its history belong to one transaction: whatever the sessions
\* do and wherever they die, what is committed is a history whose last row
\* names the task's status, and no history for a task that does not exist
\* (service-boundaries.md, "status" and "task_state" are written together).
StatusIsLastEntry == \A t \in Tasks : EndsIn(log[t], status[t])

\* The committed history of every task is a path of the service's table from
\* NULL, with a reason at each edge that wants one (INV-012 of
\* docs/specs/invariants.md).
HistoryIsPath == \A t \in Tasks : FollowsGraph(log[t])

\* The status a session checked is still the status of the task when the
\* session writes the row that starts from it, for every session that holds
\* the lock when it has done its check: each command of the CLI, and each
\* caller whose transaction had written before (cmd_task_set_status reads,
\* validates and writes under the lock of init_db).
LockedCheckIsCurrent ==
  \A s \in Sessions :
    pc[s] = "checked" /\ holder = s => seen[s] = dirtyStatus[req[s].task]

\* A command of the CLI is never past its check without the lock.
CliChecksUnderLock ==
  \A s \in CliSessions :
    pc[s] \notin {"idle", "waiting"} => holder = s

\* A committed row of a history stays where it is, unchanged: a commit never
\* overwrites the rows another session committed since this one looked.
KeepsRows(old, new) ==
  /\ Len(old) <= Len(new)
  /\ \A i \in 1..Len(old) : new[i] = old[i]

AppendOnly == [][\A t \in Tasks : KeepsRows(log[t], log'[t])]_vars

\* The sessions of the command line implement the abstract history: each
\* commit is one creation or one legal move of one task, and nothing else
\* changes what is committed.
Promise == INSTANCE StatusLog WITH status <- status, log <- log

ImplementsStatusLog == Promise!SLSpec

\* Every command of the CLI comes to an end, with an answer or with an error,
\* although a caller of the library may hold the lock for ever.
CliCommandReturns ==
  \A s \in CliSessions : pc[s] = "waiting" ~> pc[s] = "idle"
=============================================================================
