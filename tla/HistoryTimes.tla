---------------------------- MODULE HistoryTimes -----------------------------
(****************************************************************************)
(* TransitionSessions with the time in each row of state_transitions, for   *)
(* the sessions of the command line.                                        *)
(*                                                                          *)
(* get_history orders the rows by changed_at, so the order in which they    *)
(* were committed is only known from their times.  "task create" takes its  *)
(* time before it opens the database and may wait for the lock afterwards;  *)
(* transition() takes its own between its checks and its INSERT.  There is  *)
(* one clock, which never goes back and need not tick between two rows.     *)
(****************************************************************************)
EXTENDS TransitionSessions

CONSTANT MaxTime  \* bound on the clock

ASSUME TimesAssumption == MaxTime \in Nat

VARIABLES
  clock,
  since,             \* of each session: its row is not of a time before that
  times, dirtyTimes  \* changed_at of the rows of log and dirtyLog

timeVars == <<clock, since, times, dirtyTimes>>
allVars == <<vars, timeVars>>

TimesInit ==
  /\ Init
  /\ clock = 0
  /\ since = [s \in CliSessions |-> 0]
  /\ times = [t \in Tasks |-> << >>] /\ dirtyTimes = times

-------------------------------------------------------------------------------
\* now = now_utc() comes before connect().
TimedRequest(s, r) ==
  /\ Request(s, r)
  /\ since' = [since EXCEPT ![s] = clock]
  /\ UNCHANGED <<clock, times, dirtyTimes>>

\* Mutant: changed_at is the time at which the command began.
TimedCheckEarly(s) ==
  /\ CliCheck(s)
  /\ UNCHANGED timeVars

\* changed_at = now_utc() comes after the checks.
TimedCheck(s) ==
  /\ CliCheck(s)
  /\ since' = [since EXCEPT ![s] = clock]
  /\ UNCHANGED <<clock, times, dirtyTimes>>

AddTime(s, at) == dirtyTimes' = [dirtyTimes EXCEPT ![req[s].task] = Append(@, at)]

\* record_initial is given the time of the command.
TimedRecordInitial(s) ==
  /\ RecordInitial(s)
  /\ AddTime(s, since[s])
  /\ UNCHANGED <<clock, since, times>>

\* The clock may tick between the checks, now_utc() and the INSERT.
TimedInsertHistory(s) ==
  /\ InsertHistory(s)
  /\ \E at \in since[s]..clock : AddTime(s, at)
  /\ UNCHANGED <<clock, since, times>>

Untimed(s) ==
  /\ AcquireLock(s) \/ InsertTask(s) \/ UpdateStatus(s)
  /\ UNCHANGED timeVars

TimedCommit(s) ==
  /\ Commit(s)
  /\ times' = dirtyTimes
  /\ since' = [since EXCEPT ![s] = 0]
  /\ UNCHANGED <<clock, dirtyTimes>>

TimedEnd(s) ==
  /\ CliRefuse(s) \/ CliNoOp(s) \/ BusyTimeout(s) \/ Abandon(s)
  /\ dirtyTimes' = IF holder = s THEN times ELSE dirtyTimes
  /\ since' = [since EXCEPT ![s] = 0]
  /\ UNCHANGED <<clock, times>>

Tick ==
  /\ clock < MaxTime /\ clock' = clock + 1
  /\ UNCHANGED <<vars, since, times, dirtyTimes>>

TimesNext ==
  \/ \E s \in CliSessions :
       \/ TimedCheck(s) \/ TimedRecordInitial(s) \/ TimedInsertHistory(s)
       \/ Untimed(s) \/ TimedCommit(s) \/ TimedEnd(s)
       \/ \E r \in Requests : TimedRequest(s, r)
  \/ Tick

TimesSpec == TimesInit /\ [][TimesNext]_allVars

-------------------------------------------------------------------------------
\* "ORDER BY changed_at ASC, id ASC" of get_history; an id is random, so either of two
\* rows of one time may come first.
MayPrecede(t, i, j) == times[t][i] <= times[t][j]

\* task history of tasks that only the command line has moved gives the rows in the order
\* in which they were committed, except that rows of one time may change places: no
\* command waits for the lock with a time that will be older than the row before.
HistoryReadsInOrder ==
  \A t \in Tasks :
    /\ Len(times[t]) = Len(log[t])
    /\ \A j \in 1..Len(times[t]) : \A i \in 1..j : MayPrecede(t, i, j)
=============================================================================
