------------------------------ MODULE Migration ------------------------------
(****************************************************************************)
(* Several commands open one database of an earlier version at once:        *)
(* init_db creates what tables are missing, adds what columns are missing,  *)
(* takes the write lock with an UPDATE and runs the migrations under it;    *)
(* then the command does its work and commits.  All commands that write do  *)
(* so, and some that read; task show, task history, state get, decision     *)
(* list, question list and export never call init_db and are not meant.     *)
(*                                                                          *)
(* CREATE TABLE and ALTER TABLE commit by themselves, and the columns are   *)
(* read without the lock: another process may have added one by then, and   *)
(* the ALTER fails.  Rows are kept as far as the migration tells them       *)
(* apart; a bundle refers to one thing.  Migration 1 and the rows of        *)
(* schema_version but the second are left out.                              *)
(****************************************************************************)
EXTENDS Naturals, Sequences, FiniteSets

CONSTANTS
  Processes, Tasks, BundleIds,
  Statuses,    \* some values of tasks.status
  NewTables,   \* tables that the old database does not have
  NewColumns,  \* columns of tasks that the old database does not have
  MaxHistory,  \* bound: a task with this many rows is not moved any more
  NoStatus, NoBundle, Nobody

LogEntries == [from : Statuses \cup {NoStatus}, to : Statuses,
               reason : {"legacy_backfill", "command"}]

\* audit: no diagnostics yet, those of the backfill, or those of a build.
Bundles == [audit : {"none", "legacy_backfill", "build"}, sources : Nat]
OldBundle == [audit |-> "none", sources |-> 0]

Databases ==
  [applied : BOOLEAN,  \* schema_version has version 2
   status : [Tasks -> Statuses \cup {NoStatus}],
   log : [Tasks -> Seq(LogEntries)],
   bundles : [BundleIds -> Bundles \cup {NoBundle}]]

ASSUME MigrationAssumption ==
  /\ NoStatus \notin Statuses /\ NoBundle \notin Bundles /\ Nobody \notin Processes
  /\ MaxHistory \in Nat \ {0}

VARIABLES
  tables, columns,        \* those that exist, of the new ones
  stored, dirty, holder,  \* the committed rows, the rows the lock holder sees, the holder
  pc,                     \* of each process: where it is
  seen                    \* and the columns that it takes to exist

vars == <<tables, columns, stored, dirty, holder, pc, seen>>

\* A database as version 1.0.1 leaves it.
Init ==
  /\ tables = {} /\ columns = {}
  /\ \E st \in [Tasks -> Statuses \cup {NoStatus}],
        bs \in [BundleIds -> {OldBundle, NoBundle}] :
       stored = [applied |-> FALSE, status |-> st,
                 log |-> [t \in Tasks |-> << >>], bundles |-> bs]
  /\ dirty = stored /\ holder = Nobody
  /\ pc = [p \in Processes |-> "closed"]
  /\ seen = [p \in Processes |-> {}]

GoTo(p, label) == pc' = [pc EXCEPT ![p] = label]

\* The connection is closed.
Return(p) ==
  /\ GoTo(p, "closed")
  /\ seen' = [seen EXCEPT ![p] = {}]

-------------------------------------------------------------------------------
(* The schema: statements that commit by themselves                         *)

\* A command that calls init_db opens its connection.
Open(p) ==
  /\ pc[p] = "closed"
  /\ GoTo(p, "create")
  /\ UNCHANGED <<tables, columns, stored, dirty, holder, seen>>

\* CREATE TABLE IF NOT EXISTS, in any order; a table that exists needs no lock.
CreateTable(p, t) ==
  /\ pc[p] = "create"
  /\ t \notin tables /\ holder = Nobody
  /\ tables' = tables \cup {t}
  /\ UNCHANGED <<columns, stored, dirty, holder, pc, seen>>

\* PRAGMA table_info, once for all columns.
ReadColumns(p) ==
  /\ pc[p] = "create" /\ tables = NewTables
  /\ seen' = [seen EXCEPT ![p] = columns]
  /\ GoTo(p, "alter")
  /\ UNCHANGED <<tables, columns, stored, dirty, holder>>

AddColumn(p, c) ==
  /\ pc[p] = "alter" /\ c \notin seen[p]
  /\ c \notin columns /\ holder = Nobody
  /\ columns' = columns \cup {c}
  /\ seen' = [seen EXCEPT ![p] = @ \cup {c}]
  /\ UNCHANGED <<tables, stored, dirty, holder, pc>>

\* "duplicate column name": another process has added it since.
AddColumnFails(p, c) ==
  /\ pc[p] = "alter" /\ c \notin seen[p]
  /\ c \in columns
  /\ Return(p)
  /\ UNCHANGED <<tables, columns, stored, dirty, holder>>

\* Mutant: the loop is left after its first column.
TakeLockEarly(p) ==
  /\ pc[p] = "alter" /\ (seen[p] # {} \/ NewColumns = {})
  /\ holder = Nobody /\ holder' = p
  /\ GoTo(p, "locked")
  /\ UNCHANGED <<tables, columns, stored, dirty, seen>>

\* UPDATE tasks SET retry_count = 0 WHERE retry_count IS NULL: begins the
\* transaction, whether or not there is such a row.
TakeLock(p) ==
  /\ pc[p] = "alter" /\ NewColumns \subseteq seen[p]
  /\ holder = Nobody /\ holder' = p
  /\ GoTo(p, "locked")
  /\ UNCHANGED <<tables, columns, stored, dirty, seen>>

\* A statement that needs the lock waits too long for it.
BusyTimeout(p) ==
  /\ (pc[p] = "create" /\ tables # NewTables) \/ pc[p] = "alter"
  /\ holder # Nobody
  /\ Return(p)
  /\ UNCHANGED <<tables, columns, stored, dirty, holder>>

-------------------------------------------------------------------------------
(* run_migrations, in the transaction that the UPDATE has begun             *)

IsApplied(db) == db.applied

\* The migration has nothing to do.
SkipMigration(p) ==
  /\ pc[p] = "locked" /\ IsApplied(dirty)
  /\ GoTo(p, "ready")
  /\ UNCHANGED <<tables, columns, stored, dirty, holder, seen>>

\* An old bundle gets diagnostics, and the source that it has not got.
Audited(row) ==
  [audit |-> IF row.audit = "none" THEN "legacy_backfill" ELSE row.audit,
   sources |-> IF row.sources = 0 THEN 1 ELSE row.sources]

BackfillBundles(p) ==
  /\ pc[p] = "locked" /\ ~IsApplied(dirty)
  /\ dirty' = [dirty EXCEPT !.bundles =
       [b \in BundleIds |-> IF @[b] = NoBundle THEN NoBundle ELSE Audited(@[b])]]
  /\ GoTo(p, "bundles")
  /\ UNCHANGED <<tables, columns, stored, holder, seen>>

\* Mutant: the statuses are swapped.
BackfillSwapped(st) == [from |-> st, to |-> NoStatus, reason |-> "legacy_backfill"]

Backfill(st) == [from |-> NoStatus, to |-> st, reason |-> "legacy_backfill"]

\* INSERT ... SELECT ... WHERE NOT EXISTS
NeedsBackfill(db, t) ==
  /\ db.status[t] # NoStatus
  /\ \A i \in 1..Len(db.log[t]) : db.log[t][i] # Backfill(db.status[t])

BackfillHistory(p) ==
  /\ pc[p] = "bundles"
  /\ dirty' = [dirty EXCEPT !.log =
       [t \in Tasks |-> IF NeedsBackfill(dirty, t)
                        THEN Append(@[t], Backfill(dirty.status[t])) ELSE @[t]]]
  /\ GoTo(p, "history")
  /\ UNCHANGED <<tables, columns, stored, holder, seen>>

RecordVersion(p) ==
  /\ pc[p] = "history"
  /\ dirty' = [dirty EXCEPT !.applied = TRUE]
  /\ GoTo(p, "ready")
  /\ UNCHANGED <<tables, columns, stored, holder, seen>>

-------------------------------------------------------------------------------
(* The command itself, and its end                                          *)

\* task create and task set-status: the row and its history (TransitionSessions).
WriteStatus(p, t, st) ==
  /\ pc[p] = "ready"
  /\ dirty.status[t] # st /\ Len(dirty.log[t]) < MaxHistory
  /\ dirty' = [dirty EXCEPT
       !.status[t] = st,
       !.log[t] = Append(@, [from |-> dirty.status[t], to |-> st, reason |-> "command"])]
  /\ GoTo(p, "done")
  /\ UNCHANGED <<tables, columns, stored, holder, seen>>

\* context build: a bundle with its diagnostics and its sources (ContextBuild).
BuildBundle(p, b) ==
  /\ pc[p] = "ready"
  /\ dirty.bundles[b] = NoBundle
  /\ dirty' = [dirty EXCEPT !.bundles[b] = [audit |-> "build", sources |-> 1]]
  /\ GoTo(p, "done")
  /\ UNCHANGED <<tables, columns, stored, holder, seen>>

\* Also of a command that only reads, like task list.
Commit(p) ==
  /\ pc[p] \in {"ready", "done"}
  /\ stored' = dirty /\ holder' = Nobody
  /\ Return(p)
  /\ UNCHANGED <<tables, columns, dirty>>

\* Mutant: connect() commits in its finally clause.
AbandonCommits(p) ==
  /\ pc[p] # "closed"
  /\ IF holder = p THEN stored' = dirty /\ holder' = Nobody ELSE UNCHANGED <<stored, holder>>
  /\ Return(p)
  /\ UNCHANGED <<tables, columns, dirty>>

\* The process dies, or an exception leaves connect(); the schema stays.
Abandon(p) ==
  /\ pc[p] # "closed"
  /\ IF holder = p THEN dirty' = stored /\ holder' = Nobody ELSE UNCHANGED <<dirty, holder>>
  /\ Return(p)
  /\ UNCHANGED <<tables, columns, stored>>

Next ==
  \E p \in Processes :
    \/ Open(p) \/ ReadColumns(p) \/ TakeLock(p) \/ BusyTimeout(p)
    \/ \E t \in NewTables : CreateTable(p, t)
    \/ \E c \in NewColumns : AddColumn(p, c) \/ AddColumnFails(p, c)
    \/ SkipMigration(p) \/ BackfillBundles(p) \/ BackfillHistory(p) \/ RecordVersion(p)
    \/ \E t \in Tasks, st \in Statuses : WriteStatus(p, t, st)
    \/ \E b \in BundleIds : BuildBundle(p, b)
    \/ Commit(p) \/ Abandon(p)

Spec == Init /\ [][Next]_vars

-------------------------------------------------------------------------------
(* Properties                                                               *)

\* The variables keep their types.
TypeOK ==
  /\ tables \subseteq NewTables /\ columns \subseteq NewColumns
  /\ stored \in Databases /\ dirty \in Databases
  /\ holder \in Processes \cup {Nobody}
  /\ pc \in [Processes -> {"closed", "create", "alter", "locked", "bundles",
                           "history", "ready", "done"}]
  /\ seen \in [Processes -> SUBSET NewColumns]

\* The rows are as the migration leaves them: every task has one beginning and
\* its last row tells its status, every bundle has diagnostics and its source once.
IsMigrated(db) ==
  /\ \A t \in Tasks :
       LET rows == db.log[t] IN
         IF db.status[t] = NoStatus THEN rows = << >>
         ELSE /\ rows # << >> /\ rows[Len(rows)].to = db.status[t]
              /\ \A i \in 1..Len(rows) : rows[i].from = NoStatus <=> i = 1
  /\ \A b \in BundleIds :
       db.bundles[b] # NoBundle =>
         db.bundles[b].audit # "none" /\ db.bundles[b].sources = 1

\* And as the old version left them.
IsOld(db) ==
  /\ \A t \in Tasks : db.log[t] = << >>
  /\ \A b \in BundleIds : db.bundles[b] \in {OldBundle, NoBundle}

\* The committed rows are migrated as a whole or not at all, whoever opened the
\* database at the same time and wherever one of them died; and once the version
\* is recorded, no later run of the migrations adds to a history again.
MigratedAsOne == IF stored.applied THEN IsMigrated(stored) ELSE IsOld(stored)

\* A command that has called init_db, as every writing one does, finds the new schema and
\* migrated rows, and so it leaves them.
CommandsSeeMigrated ==
  \A p \in Processes :
    pc[p] \in {"ready", "done"} =>
      /\ tables = NewTables /\ columns = NewColumns
      /\ holder = p /\ dirty.applied /\ IsMigrated(dirty)
=============================================================================
