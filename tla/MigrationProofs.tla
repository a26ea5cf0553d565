---------------------------- MODULE MigrationProofs ----------------------------
(****************************************************************************)
(* A database is migrated as a whole and once, for any number of processes  *)
(* that open it, any tasks, bundles, statuses, tables and columns.          *)
(****************************************************************************)
EXTENDS Migration, TLAPS

\* The places of a process inside its transaction.
InTransaction == {"locked", "bundles", "history", "ready", "done"}

BundlesMigrated(db) ==
  \A b \in BundleIds :
    db.bundles[b] # NoBundle =>
      db.bundles[b].audit # "none" /\ db.bundles[b].sources = 1

TaskMigrated(st, rows) ==
  IF st = NoStatus THEN rows = << >>
  ELSE /\ rows # << >> /\ rows[Len(rows)].to = st
       /\ \A i \in 1..Len(rows) : rows[i].from = NoStatus <=> i = 1

NoHistory(db) == \A t \in Tasks : db.log[t] = << >>

\* A process has the lock exactly while it is in its transaction.
LockInv ==
  /\ \A p \in Processes : pc[p] \in InTransaction <=> holder = p
  /\ holder = Nobody => dirty = stored

\* Columns are never lost, so what a process takes to exist does exist.
SchemaInv ==
  \A p \in Processes :
    /\ pc[p] \notin {"closed", "create"} => tables = NewTables /\ seen[p] \subseteq columns
    /\ pc[p] \in InTransaction => columns = NewColumns

\* How far the lock holder has come with the rows.
RowsInv ==
  \A p \in Processes :
    /\ pc[p] = "locked" => dirty = stored
    /\ pc[p] = "bundles" => ~stored.applied /\ BundlesMigrated(dirty) /\ NoHistory(dirty)
    /\ pc[p] = "history" => IsMigrated(dirty)
    /\ pc[p] \in {"ready", "done"} => dirty.applied /\ IsMigrated(dirty)

IInv == TypeOK /\ LockInv /\ SchemaInv /\ RowsInv /\ MigratedAsOne

-------------------------------------------------------------------------------
(* Histories and rows                                                       *)

LEMMA MigratedParts ==
  ASSUME NEW db
  PROVE  IsMigrated(db) <=> /\ \A t \in Tasks : TaskMigrated(db.status[t], db.log[t])
                            /\ BundlesMigrated(db)
  BY DEF IsMigrated, TaskMigrated, BundlesMigrated

\* A history that tells the status goes on doing so when the next row is added.
LEMMA NextRow ==
  ASSUME NEW st \in Statuses \cup {NoStatus}, NEW rows \in Seq(LogEntries),
         TaskMigrated(st, rows), NEW row \in LogEntries, row.from = st
  PROVE  TaskMigrated(row.to, Append(rows, row))
  <1> DEFINE new == Append(rows, row)
  <1>1. /\ Len(rows) \in Nat /\ Len(new) = Len(rows) + 1 /\ new # << >>
        /\ new[Len(new)] = row
        /\ \A i \in 1..Len(rows) : new[i] = rows[i]
    OBVIOUS
  <1>2. row.to # NoStatus
    BY MigrationAssumption DEF LogEntries
  <1>3. CASE st = NoStatus
    <2>1. Len(rows) = 0
      BY <1>3 DEF TaskMigrated
    <2> QED BY <1>1, <1>2, <1>3, <2>1 DEF TaskMigrated
  <1>4. CASE st # NoStatus
    <2>1. rows # << >> /\ \A i \in 1..Len(rows) : rows[i].from = NoStatus <=> i = 1
      BY <1>4 DEF TaskMigrated
    <2>2. Len(rows) > 0
      BY <2>1
    <2>3. ASSUME NEW i \in 1..Len(new)
          PROVE  new[i].from = NoStatus <=> i = 1
      <3>1. CASE i \in 1..Len(rows)
        BY <1>1, <2>1, <3>1
      <3>2. CASE i = Len(new)
        BY <1>1, <1>4, <2>2, <3>2
      <3> QED BY <1>1, <3>1, <3>2
    <2> QED BY <1>1, <1>2, <2>3 DEF TaskMigrated
  <1> QED BY <1>3, <1>4

-------------------------------------------------------------------------------
(* Each step of the rows, with its type                                     *)

LEMMA Fields ==
  ASSUME NEW db \in Databases
  PROVE  /\ db.applied \in BOOLEAN
         /\ db.status \in [Tasks -> Statuses \cup {NoStatus}]
         /\ db.log \in [Tasks -> Seq(LogEntries)]
         /\ db.bundles \in [BundleIds -> Bundles \cup {NoBundle}]
  BY DEF Databases

LEMMA BundlesBackfilled ==
  ASSUME NEW db \in Databases, IsOld(db), NEW new,
         new = [db EXCEPT !.bundles =
                  [b \in BundleIds |-> IF @[b] = NoBundle THEN NoBundle ELSE Audited(@[b])]]
  PROVE  new \in Databases /\ BundlesMigrated(new) /\ NoHistory(new)
  <1> DEFINE rows == [b \in BundleIds |->
                        IF db.bundles[b] = NoBundle THEN NoBundle ELSE Audited(db.bundles[b])]
  <1>1. \A b \in BundleIds : db.bundles[b] # NoBundle =>
          Audited(db.bundles[b]) = [audit |-> "legacy_backfill", sources |-> 1]
    BY DEF IsOld, OldBundle, Audited
  <1>2. [audit |-> "legacy_backfill", sources |-> 1] \in Bundles
    BY DEF Bundles
  <1>3. rows \in [BundleIds -> Bundles \cup {NoBundle}]
    BY <1>1, <1>2
  <1>4. /\ new.bundles = rows /\ new.status = db.status
        /\ new.log = db.log /\ new.applied = db.applied
    BY DEF Databases
  <1>5. new \in Databases
    BY <1>3 DEF Databases
  <1>6. BundlesMigrated(new)
    BY <1>1, <1>4 DEF BundlesMigrated
  <1> QED BY <1>4, <1>5, <1>6 DEF NoHistory, IsOld

LEMMA HistoryBackfilled ==
  ASSUME NEW db \in Databases, BundlesMigrated(db), NoHistory(db), NEW new,
         new = [db EXCEPT !.log =
                  [t \in Tasks |-> IF NeedsBackfill(db, t)
                                   THEN Append(@[t], Backfill(db.status[t])) ELSE @[t]]]
  PROVE  new \in Databases /\ IsMigrated(new)
  <1> DEFINE rows == [t \in Tasks |-> IF NeedsBackfill(db, t)
                                      THEN Append(db.log[t], Backfill(db.status[t]))
                                      ELSE db.log[t]]
  <1>1. ASSUME NEW t \in Tasks
        PROVE  rows[t] \in Seq(LogEntries) /\ TaskMigrated(db.status[t], rows[t])
    <2>1. db.log[t] = << >> /\ db.status[t] \in Statuses \cup {NoStatus}
      BY DEF NoHistory, Databases
    <2>2. << >> \in Seq(LogEntries) /\ TaskMigrated(NoStatus, << >>)
      BY DEF TaskMigrated
    <2>3. CASE db.status[t] = NoStatus
      <3>1. ~NeedsBackfill(db, t)
        BY <2>3 DEF NeedsBackfill
      <3>2. rows[t] = << >>
        BY <2>1, <3>1
      <3> QED BY <2>2, <2>3, <3>2
    <2>4. CASE db.status[t] # NoStatus
      <3> DEFINE row == Backfill(db.status[t])
      <3>1. row \in LogEntries /\ row.from = NoStatus /\ row.to = db.status[t]
        BY <2>1, <2>4 DEF Backfill, LogEntries
      <3>2. NeedsBackfill(db, t)
        BY <2>1, <2>4 DEF NeedsBackfill
      <3>3. rows[t] = Append(<< >>, row)
        BY <2>1, <3>2
      <3> HIDE DEF row, rows
      <3>4. Append(<< >>, row) \in Seq(LogEntries)
        BY <2>2, <3>1
      <3>5. TaskMigrated(row.to, Append(<< >>, row))
        BY <2>2, <3>1, NextRow
      <3> QED BY <3>1, <3>3, <3>4, <3>5
    <2> QED BY <2>3, <2>4
  <1>2. rows \in [Tasks -> Seq(LogEntries)]
    BY <1>1
  <1>3. new.log = rows /\ new.status = db.status /\ new.bundles = db.bundles
    BY DEF Databases
  <1>4. new \in Databases
    BY <1>2 DEF Databases
  <1>5. BundlesMigrated(new)
    BY <1>3 DEF BundlesMigrated
  <1> QED BY <1>1, <1>3, <1>4, <1>5, MigratedParts

LEMMA StatusWritten ==
  ASSUME NEW db \in Databases, IsMigrated(db), NEW t \in Tasks, NEW st \in Statuses, NEW new,
         new = [db EXCEPT !.status[t] = st,
                          !.log[t] = Append(@, [from |-> db.status[t], to |-> st,
                                                reason |-> "command"])]
  PROVE  new \in Databases /\ IsMigrated(new) /\ new.applied = db.applied
  <1> DEFINE row == [from |-> db.status[t], to |-> st, reason |-> "command"]
  <1>1. row \in LogEntries /\ row.from = db.status[t] /\ row.to = st
    BY Fields DEF LogEntries
  <1>2. /\ new.status = [db.status EXCEPT ![t] = st]
        /\ new.log = [db.log EXCEPT ![t] = Append(@, row)]
        /\ new.bundles = db.bundles /\ new.applied = db.applied
    BY DEF Databases
  <1>3. Append(db.log[t], row) \in Seq(LogEntries)
    BY <1>1, Fields
  <1>4. new \in Databases
    BY <1>3 DEF Databases
  <1>5. \A u \in Tasks : TaskMigrated(db.status[u], db.log[u])
    BY MigratedParts
  <1>6. TaskMigrated(new.status[t], new.log[t])
    <2>1. new.status[t] = row.to /\ new.log[t] = Append(db.log[t], row)
      BY <1>1, <1>2, Fields
    <2>2. /\ row.from \in Statuses \cup {NoStatus} /\ db.log[t] \in Seq(LogEntries)
          /\ TaskMigrated(row.from, db.log[t]) /\ row \in LogEntries
      BY <1>1, <1>5, Fields
    <2> HIDE DEF row
    <2>3. TaskMigrated(row.to, Append(db.log[t], row))
      BY <2>2, NextRow
    <2> QED BY <2>1, <2>3
  <1>7. \A u \in Tasks \ {t} : TaskMigrated(new.status[u], new.log[u])
    BY <1>2, <1>5, Fields
  <1>8. BundlesMigrated(new)
    BY <1>2, MigratedParts DEF BundlesMigrated
  <1> QED BY <1>2, <1>4, <1>6, <1>7, <1>8, MigratedParts

LEMMA BundleBuilt ==
  ASSUME NEW db \in Databases, IsMigrated(db), NEW b \in BundleIds, NEW new,
         new = [db EXCEPT !.bundles[b] = [audit |-> "build", sources |-> 1]]
  PROVE  new \in Databases /\ IsMigrated(new) /\ new.applied = db.applied
  <1>1. [audit |-> "build", sources |-> 1] \in Bundles
    BY DEF Bundles
  <1>2. /\ new.bundles = [db.bundles EXCEPT ![b] = [audit |-> "build", sources |-> 1]]
        /\ new.status = db.status /\ new.log = db.log /\ new.applied = db.applied
    BY DEF Databases
  <1>3. new \in Databases
    BY <1>1 DEF Databases
  <1>4. BundlesMigrated(new)
    BY <1>2, Fields, MigratedParts DEF BundlesMigrated
  <1> QED BY <1>2, <1>3, <1>4, MigratedParts

-------------------------------------------------------------------------------
(* The steps                                                                *)

LEMMA InvInitially == Init => IInv
  <1> SUFFICES ASSUME Init PROVE IInv
    OBVIOUS
  <1>1. PICK st \in [Tasks -> Statuses \cup {NoStatus}],
             bs \in [BundleIds -> {OldBundle, NoBundle}] :
          stored = [applied |-> FALSE, status |-> st,
                    log |-> [t \in Tasks |-> << >>], bundles |-> bs]
    BY DEF Init
  <1>2. OldBundle \in Bundles
    BY DEF OldBundle, Bundles
  <1>3. bs \in [BundleIds -> Bundles \cup {NoBundle}]
    BY <1>2
  <1>4. stored \in Databases /\ ~stored.applied /\ IsOld(stored)
    BY <1>1, <1>3 DEF Databases, IsOld
  <1>5. TypeOK
    BY <1>4 DEF Init, TypeOK
  <1>6. LockInv /\ SchemaInv /\ RowsInv
    BY MigrationAssumption DEF Init, LockInv, SchemaInv, RowsInv, InTransaction
  <1> QED BY <1>4, <1>5, <1>6 DEF IInv, MigratedAsOne

\* Steps of init_db before the lock: the rows stay as they are.
SchemaStep(p) ==
  \/ Open(p) \/ ReadColumns(p)
  \/ \E t \in NewTables : CreateTable(p, t)
  \/ \E c \in NewColumns : AddColumn(p, c) \/ AddColumnFails(p, c)
  \/ BusyTimeout(p)

LEMMA SchemaSteps ==
  ASSUME IInv, NEW p \in Processes, SchemaStep(p)
  PROVE  IInv'
  <1>1. /\ UNCHANGED <<stored, dirty, holder>>
        /\ pc[p] \in {"closed", "create", "alter"}
        /\ pc'[p] \in {"closed", "create", "alter"}
        /\ \A q \in Processes \ {p} : pc'[q] = pc[q] /\ seen'[q] = seen[q]
        /\ tables \subseteq tables' /\ columns \subseteq columns'
        /\ tables' \subseteq NewTables /\ columns' \subseteq NewColumns
        /\ pc'[p] = "alter" => tables' = NewTables /\ seen'[p] \subseteq columns'
    BY DEF IInv, TypeOK, SchemaInv, SchemaStep, Open, ReadColumns, CreateTable, AddColumn,
           AddColumnFails, BusyTimeout, Return, GoTo
  <1>2. TypeOK'
    BY DEF IInv, TypeOK, SchemaStep, Open, ReadColumns, CreateTable, AddColumn,
           AddColumnFails, BusyTimeout, Return, GoTo
  <1>3. LockInv'
    BY <1>1 DEF IInv, LockInv, InTransaction
  <1>4. SchemaInv'
    BY <1>1 DEF IInv, TypeOK, SchemaInv, InTransaction
  <1>5. RowsInv'
    BY <1>1 DEF IInv, RowsInv, BundlesMigrated, NoHistory, IsMigrated
  <1>6. MigratedAsOne'
    BY <1>1 DEF IInv, MigratedAsOne, IsOld, IsMigrated
  <1> QED BY <1>2, <1>3, <1>4, <1>5, <1>6 DEF IInv

\* Steps inside the transaction that leave it open.
LEMMA TransactionSteps ==
  ASSUME IInv, NEW p \in Processes, pc[p] \in InTransaction,
         UNCHANGED <<tables, columns, stored, holder, seen>>,
         dirty' \in Databases,
         NEW label \in InTransaction \ {"locked"}, GoTo(p, label),
         label = "bundles" => ~stored.applied /\ BundlesMigrated(dirty') /\ NoHistory(dirty'),
         label = "history" => IsMigrated(dirty'),
         label \in {"ready", "done"} => dirty'.applied /\ IsMigrated(dirty')
  PROVE  IInv'
  <1>1. holder = p /\ \A q \in Processes \ {p} : pc[q] \notin InTransaction
    BY DEF IInv, LockInv
  <1>2. pc'[p] = label /\ \A q \in Processes \ {p} : pc'[q] = pc[q]
    BY DEF IInv, TypeOK, GoTo
  <1>3. TypeOK'
    BY DEF IInv, TypeOK, GoTo, InTransaction
  <1>4. LockInv'
    BY <1>1, <1>2, MigrationAssumption DEF IInv, LockInv
  <1>5. SchemaInv'
    BY <1>2 DEF IInv, SchemaInv, InTransaction
  <1>6. RowsInv'
    BY <1>1, <1>2 DEF RowsInv, InTransaction, BundlesMigrated, NoHistory, IsMigrated
  <1>7. MigratedAsOne'
    BY DEF IInv, MigratedAsOne, IsOld, IsMigrated
  <1> QED BY <1>3, <1>4, <1>5, <1>6, <1>7 DEF IInv

LEMMA EndSteps ==
  ASSUME IInv, NEW p \in Processes, Commit(p) \/ Abandon(p)
  PROVE  IInv'
  <1>1. \A q \in Processes \ {p} : pc'[q] = pc[q] /\ seen'[q] = seen[q]
    BY DEF IInv, TypeOK, Commit, Abandon, Return, GoTo
  <1>2. pc'[p] = "closed" /\ UNCHANGED <<tables, columns>>
    BY DEF IInv, TypeOK, Commit, Abandon, Return, GoTo
  <1>3. TypeOK'
    BY DEF IInv, TypeOK, Commit, Abandon, Return, GoTo
  <1>4. SchemaInv'
    BY <1>1, <1>2 DEF IInv, SchemaInv, InTransaction
  <1>5. CASE holder = p
    <2>1. holder' = Nobody /\ dirty' = stored'
      BY <1>5 DEF Commit, Abandon
    <2>2. \A q \in Processes \ {p} : pc[q] \notin InTransaction
      BY <1>5 DEF IInv, LockInv
    <2>3. LockInv' /\ RowsInv'
      BY <1>1, <1>2, <2>1, <2>2, MigrationAssumption DEF LockInv, RowsInv, InTransaction
    <2>4. MigratedAsOne'
      <3>1. CASE stored' = stored
        BY <3>1 DEF IInv, MigratedAsOne, IsOld, IsMigrated
      <3>2. CASE Commit(p)
        <4>1. stored' = dirty /\ dirty.applied /\ IsMigrated(dirty)
          BY <3>2 DEF Commit, IInv, RowsInv
        <4> QED BY <4>1 DEF MigratedAsOne, IsMigrated
      <3> QED BY <3>1, <3>2 DEF Abandon
    <2> QED BY <1>3, <1>4, <2>3, <2>4 DEF IInv
  <1>6. CASE holder # p
    <2>1. Abandon(p) /\ pc[p] \notin InTransaction
      BY <1>6 DEF IInv, LockInv, InTransaction, Commit
    <2>2. UNCHANGED <<stored, dirty, holder>>
      BY <1>6, <2>1 DEF Abandon
    <2>3. LockInv' /\ RowsInv'
      BY <1>1, <1>2, <1>6, <2>2
         DEF IInv, LockInv, RowsInv, InTransaction, BundlesMigrated, NoHistory, IsMigrated
    <2>4. MigratedAsOne'
      BY <2>2 DEF IInv, MigratedAsOne, IsOld, IsMigrated
    <2> QED BY <1>3, <1>4, <2>3, <2>4 DEF IInv
  <1> QED BY <1>5, <1>6

LEMMA LockStep ==
  ASSUME IInv, NEW p \in Processes, TakeLock(p)
  PROVE  IInv'
  <1>1. /\ pc'[p] = "locked" /\ holder' = p /\ dirty = stored
        /\ UNCHANGED <<tables, columns, stored, dirty, seen>>
        /\ \A q \in Processes \ {p} : pc'[q] = pc[q]
    BY DEF IInv, TypeOK, LockInv, TakeLock, GoTo
  <1>2. \A q \in Processes : pc[q] \notin InTransaction
    BY MigrationAssumption DEF IInv, LockInv, TakeLock
  <1>3. columns = NewColumns
    BY DEF IInv, TypeOK, SchemaInv, TakeLock
  <1>4. TypeOK'
    BY DEF IInv, TypeOK, TakeLock, GoTo
  <1>5. LockInv'
    BY <1>1, <1>2, MigrationAssumption DEF LockInv, InTransaction
  <1>6. SchemaInv'
    BY <1>1, <1>3 DEF IInv, SchemaInv, TakeLock
  <1>7. RowsInv'
    BY <1>1, <1>2 DEF RowsInv, InTransaction
  <1>8. MigratedAsOne'
    BY <1>1 DEF IInv, MigratedAsOne, IsOld, IsMigrated
  <1> QED BY <1>4, <1>5, <1>6, <1>7, <1>8 DEF IInv

LEMMA InvStep == IInv /\ [Next]_vars => IInv'
  <1> SUFFICES ASSUME IInv, [Next]_vars PROVE IInv'
    OBVIOUS
  <1> USE DEF InTransaction
  <1>0. dirty \in Databases /\ RowsInv
    BY DEF IInv, TypeOK
  <1>1. ASSUME NEW p \in Processes, SkipMigration(p)
        PROVE  IInv'
    <2>1. dirty.applied /\ IsMigrated(dirty)
      BY <1>0, <1>1 DEF SkipMigration, IsApplied, RowsInv, IInv, MigratedAsOne
    <2>2. dirty' = dirty
      BY <1>1 DEF SkipMigration
    <2> QED BY <1>0, <1>1, <2>1, <2>2, TransactionSteps DEF SkipMigration
  <1>2. ASSUME NEW p \in Processes, BackfillBundles(p)
        PROVE  IInv'
    <2>1. ~stored.applied /\ IsOld(dirty)
      BY <1>0, <1>2 DEF BackfillBundles, IsApplied, RowsInv, IInv, MigratedAsOne
    <2>2. dirty' \in Databases /\ BundlesMigrated(dirty') /\ NoHistory(dirty')
      BY <1>0, <1>2, <2>1, BundlesBackfilled DEF BackfillBundles
    <2> QED BY <1>2, <2>1, <2>2, TransactionSteps DEF BackfillBundles
  <1>3. ASSUME NEW p \in Processes, BackfillHistory(p)
        PROVE  IInv'
    <2>1. BundlesMigrated(dirty) /\ NoHistory(dirty)
      BY <1>0, <1>3 DEF BackfillHistory, RowsInv
    <2>2. dirty' \in Databases /\ IsMigrated(dirty')
      BY <1>0, <1>3, <2>1, HistoryBackfilled DEF BackfillHistory
    <2> QED BY <1>3, <2>2, TransactionSteps DEF BackfillHistory
  <1>4. ASSUME NEW p \in Processes, RecordVersion(p)
        PROVE  IInv'
    <2>1. dirty' = [dirty EXCEPT !.applied = TRUE] /\ IsMigrated(dirty)
      BY <1>0, <1>4 DEF RecordVersion, RowsInv
    <2>2. /\ dirty'.applied /\ dirty'.status = dirty.status
          /\ dirty'.log = dirty.log /\ dirty'.bundles = dirty.bundles
      BY <1>0, <2>1 DEF Databases
    <2>3. dirty' \in Databases
      BY <1>0, <2>1 DEF Databases
    <2>4. IsMigrated(dirty')
      BY <2>1, <2>2 DEF IsMigrated
    <2> QED BY <1>4, <2>2, <2>3, <2>4, TransactionSteps DEF RecordVersion
  <1>5. ASSUME NEW p \in Processes, NEW t \in Tasks, NEW st \in Statuses,
               WriteStatus(p, t, st)
        PROVE  IInv'
    <2>1. IsMigrated(dirty) /\ dirty.applied
      BY <1>0, <1>5 DEF WriteStatus, RowsInv
    <2>2. dirty' \in Databases /\ IsMigrated(dirty') /\ dirty'.applied
      BY <1>0, <1>5, <2>1, StatusWritten DEF WriteStatus
    <2> QED BY <1>5, <2>2, TransactionSteps DEF WriteStatus
  <1>6. ASSUME NEW p \in Processes, NEW b \in BundleIds, BuildBundle(p, b)
        PROVE  IInv'
    <2>1. IsMigrated(dirty) /\ dirty.applied
      BY <1>0, <1>6 DEF BuildBundle, RowsInv
    <2>2. dirty' \in Databases /\ IsMigrated(dirty') /\ dirty'.applied
      BY <1>0, <1>6, <2>1, BundleBuilt DEF BuildBundle
    <2> QED BY <1>6, <2>2, TransactionSteps DEF BuildBundle
  <1>7. CASE UNCHANGED vars
    BY <1>7 DEF vars, IInv, TypeOK, LockInv, SchemaInv, RowsInv, MigratedAsOne,
                IsMigrated, IsOld, BundlesMigrated, NoHistory
  <1> QED BY <1>1, <1>2, <1>3, <1>4, <1>5, <1>6, <1>7, SchemaSteps, EndSteps, LockStep
          DEF Next, SchemaStep

-------------------------------------------------------------------------------
(* The theorems                                                             *)

LEMMA Invariance == Spec => []IInv
  BY InvInitially, InvStep, PTL DEF Spec

\* The variables keep their types.
THEOREM TypeCorrect == Spec => []TypeOK
  <1>1. IInv => TypeOK
    BY DEF IInv
  <1> QED BY <1>1, Invariance, PTL

\* run_migrations migrates the rows as a whole, once, whoever opens the database
\* at the same time and dies.
THEOREM WholeMigration == Spec => []MigratedAsOne
  <1>1. IInv => MigratedAsOne
    BY DEF IInv
  <1> QED BY <1>1, Invariance, PTL

\* A command that calls init_db, as those that write do, has the lock, the new schema and
\* migrated rows from then on.
THEOREM MigratedFirst == Spec => []CommandsSeeMigrated
  <1>1. IInv => CommandsSeeMigrated
    BY DEF IInv, LockInv, SchemaInv, RowsInv, CommandsSeeMigrated, InTransaction
  <1> QED BY <1>1, Invariance, PTL
================================================================================
