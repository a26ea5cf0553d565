-------------------------- MODULE ContextBuildProofs --------------------------
(****************************************************************************)
(* What a build under the write lock stores is one moment, no committed     *)
(* bundle lacks its sources, and no reader has a task row that is ahead of  *)
(* the rows beside it, for any builders, exporters and bundle ids and any   *)
(* number of other commands in between.                                     *)
(****************************************************************************)
EXTENDS ContextBuild, TLAPS

\* The tables that are left to read.
Left(order) == {order[i] : i \in 1..Len(order)}

LEMMA HeadAndTail ==
  ASSUME NEW order \in Seq(Tables), order # << >>
  PROVE  /\ Head(order) \in Tables /\ Tail(order) \in Seq(Tables)
         /\ Left(order) \subseteq {Head(order)} \cup Left(Tail(order))
  <1>1. /\ Len(order) \in Nat /\ Len(order) > 0
        /\ Head(order) = order[1] /\ Len(Tail(order)) = Len(order) - 1
        /\ \A i \in 1..(Len(order) - 1) : Tail(order)[i] = order[i + 1]
    OBVIOUS
  <1>2. ASSUME NEW i \in 1..Len(order)
        PROVE  order[i] \in {Head(order)} \cup Left(Tail(order))
    <2>1. CASE i = 1
      BY <1>1, <2>1
    <2>2. CASE i # 1
      <3>1. i - 1 \in 1..Len(Tail(order)) /\ order[i] = Tail(order)[i - 1]
        BY <1>1, <1>2, <2>2
      <3> QED BY <3>1 DEF Left
    <2> QED BY <2>1, <2>2
  <1>3. Head(order) \in Tables /\ Tail(order) \in Seq(Tables)
    OBVIOUS
  <1> QED BY <1>2, <1>3 DEF Left

LEMMA NothingLeft == Left(<< >>) = {}
  BY DEF Left

LEMMA OrderTypes ==
  /\ BuildOrder \in Seq(Tables) /\ Left(BuildOrder) = Tables
  /\ ResolveOrder \in Seq(Tables) /\ Left(ResolveOrder) = ResolvedTables
  <1>1. /\ BuildOrder \in Seq(Tables) /\ Len(BuildOrder) = 5
        /\ ResolveOrder \in Seq(Tables) /\ Len(ResolveOrder) = 4
    BY DEF BuildOrder, ResolveOrder, Tables
  <1>2. /\ BuildOrder[1] = "tasks" /\ BuildOrder[2] = "task_states"
        /\ BuildOrder[3] = "decisions" /\ BuildOrder[4] = "open_questions"
        /\ BuildOrder[5] = "runs"
        /\ ResolveOrder[1] = "tasks" /\ ResolveOrder[2] = "decisions"
        /\ ResolveOrder[3] = "open_questions" /\ ResolveOrder[4] = "runs"
    BY DEF BuildOrder, ResolveOrder
  <1>3. /\ 1..5 = {1, 2, 3, 4, 5} /\ 1..4 = {1, 2, 3, 4}
    OBVIOUS
  <1>4. Left(BuildOrder) = {BuildOrder[i] : i \in {1, 2, 3, 4, 5}}
    BY <1>1, <1>3 DEF Left
  <1>5. Left(ResolveOrder) = {ResolveOrder[i] : i \in {1, 2, 3, 4}}
    BY <1>1, <1>3 DEF Left
  <1>6. Left(BuildOrder) = Tables
    BY <1>4, <1>2 DEF Tables
  <1>7. Left(ResolveOrder) = ResolvedTables
    BY <1>5, <1>2 DEF Tables, ResolvedTables
  <1> QED BY <1>1, <1>6, <1>7

-------------------------------------------------------------------------------
(* The inductive invariant                                                  *)

\* Only builders resolve and insert.
ExportersOnlyRead ==
  \A r \in Readers : pc[r] \in {"resolve", "bundle_inserted", "built"} => r \in Builders

\* Who has inserted something, and every CLI build from its start, has the lock.
LockInv ==
  /\ \A r \in Readers :
       pc[r] \in {"bundle_inserted", "built"} => holder = r
  /\ \A r \in CliBuilders : pc[r] # "idle" => holder = r
  /\ holder = Nobody => dirtyBundles = bundles /\ dirtySources = sources

\* What a CLI build has read is what the tables contain: nobody could write since.
HasReadNow(r) ==
  /\ pc[r] = "read" =>
       \A t \in Tables : snap[r].read[t] = now[t] \/ t \in Left(todo[r])
  /\ pc[r] = "resolve" =>
       /\ snap[r].read = now
       /\ \A t \in ResolvedTables :
            snap[r].resolved[t] = now[t] \/ t \in Left(todo[r])

ReadInv == \A r \in CliBuilders : HasReadNow(r)

\* The bundles of CLI builds that a table contains.
OneMomentEach(rows) ==
  \A b \in BundleIds :
    rows[b] # Nothing /\ rows[b].by \in CliBuilders => IsOneMoment(rows[b].snap)

\* Inside its transaction the lock holder has one bundle without sources, between
\* the two inserts, or none.
AuditInv ==
  /\ BundleIsAuditable
  /\ \A b \in dirtySources : dirtyBundles[b] # Nothing
  /\ holder # Nobody /\ pc[holder] # "bundle_inserted" =>
       \A b \in BundleIds : dirtyBundles[b] # Nothing => b \in dirtySources
  /\ holder # Nobody =>
       \A b, c \in BundleIds \ dirtySources :
         dirtyBundles[b] # Nothing /\ dirtyBundles[c] # Nothing => b = c

MomentInv == OneMomentEach(bundles) /\ OneMomentEach(dirtyBundles)

IInv == TypeOK /\ ExportersOnlyRead /\ LockInv /\ ReadInv /\ MomentInv /\ AuditInv

-------------------------------------------------------------------------------
LEMMA TypeInitially == Init => TypeOK
  <1>1. Unread \in Versions
    BY DEF Unread, Versions
  <1> QED BY <1>1, BuildAssumption DEF Init, TypeOK, Empty, Snapshots

LEMMA InvInitially == Init => IInv
  BY TypeInitially, BuildAssumption
     DEF Init, IInv, ExportersOnlyRead, LockInv, ReadInv, HasReadNow, MomentInv, OneMomentEach, AuditInv,
         BundleIsAuditable, Readers, Builders

-------------------------------------------------------------------------------
(* Types                                                                    *)

LEMMA ReturnType ==
  ASSUME TypeOK, NEW r \in Readers, Return(r)
  PROVE  /\ pc' \in [Readers -> {"idle", "read", "resolve", "bundle_inserted", "built"}]
         /\ todo' \in [Readers -> Seq(Tables)]
         /\ snap' \in [Readers -> Snapshots]
         /\ pc'[r] = "idle" /\ \A q \in Readers \ {r} : pc'[q] = pc[q]
  <1>1. Empty \in Snapshots /\ << >> \in Seq(Tables)
    BY DEF Empty, Unread, Snapshots, Versions
  <1> QED BY <1>1 DEF TypeOK, Return, GoTo

LEMMA StartType ==
  ASSUME TypeOK, NEW r \in Readers, StartReading(r)
  PROVE  /\ pc' \in [Readers -> {"idle", "read", "resolve", "bundle_inserted", "built"}]
         /\ todo' \in [Readers -> Seq(Tables)]
         /\ snap' \in [Readers -> Snapshots]
         /\ pc'[r] = "read" /\ todo'[r] = BuildOrder
         /\ \A q \in Readers \ {r} : pc'[q] = pc[q]
  <1>1. Empty \in Snapshots
    BY DEF Empty, Unread, Snapshots, Versions
  <1> QED BY <1>1, OrderTypes DEF TypeOK, StartReading, GoTo

LEMMA WriteType ==
  ASSUME TypeOK, NEW changed \in WriteSets, Write(changed)
  PROVE  TypeOK'
  <1>1. now' \in Versions
    BY DEF TypeOK, Write, Versions
  <1> QED BY <1>1 DEF TypeOK, Write, stored, dirty

LEMMA ReadTableType ==
  ASSUME TypeOK, NEW r \in Readers, ReadTable(r)
  PROVE  TypeOK'
  <1> DEFINE t == Head(todo[r])
  <1>1. t \in Tables /\ Tail(todo[r]) \in Seq(Tables)
    BY HeadAndTail DEF TypeOK, ReadTable
  <1>2. now[t] \in Nat /\ snap[r] \in Snapshots
    BY <1>1 DEF TypeOK, Versions
  <1>3. [snap[r] EXCEPT !.read[t] = now[t]] \in Snapshots
    BY <1>1, <1>2 DEF Snapshots, Versions
  <1>4. snap' \in [Readers -> Snapshots]
    BY <1>3 DEF TypeOK, ReadTable
  <1>5. todo' \in [Readers -> Seq(Tables)]
    BY <1>1 DEF TypeOK, ReadTable
  <1> QED BY <1>4, <1>5 DEF TypeOK, ReadTable, tables, stored, dirty

LEMMA ResolveTableType ==
  ASSUME TypeOK, NEW r \in Readers, ResolveTable(r)
  PROVE  TypeOK'
  <1> DEFINE t == Head(todo[r])
  <1>1. t \in Tables /\ Tail(todo[r]) \in Seq(Tables)
    BY HeadAndTail DEF TypeOK, ResolveTable
  <1>2. now[t] \in Nat /\ snap[r] \in Snapshots
    BY <1>1 DEF TypeOK, Versions
  <1>3. [snap[r] EXCEPT !.resolved[t] = now[t]] \in Snapshots
    BY <1>1, <1>2 DEF Snapshots, Versions
  <1>4. snap' \in [Readers -> Snapshots]
    BY <1>3 DEF TypeOK, ResolveTable
  <1>5. todo' \in [Readers -> Seq(Tables)]
    BY <1>1 DEF TypeOK, ResolveTable
  <1> QED BY <1>4, <1>5 DEF TypeOK, ResolveTable, tables, stored, dirty

LEMMA InsertBundleType ==
  ASSUME TypeOK, NEW r \in Readers, NEW b \in BundleIds, InsertBundle(r, b), r \in Builders
  PROVE  TypeOK'
  <1>1. [by |-> r, snap |-> snap[r]] \in Bundles
    BY DEF TypeOK, Bundles
  <1> QED BY <1>1 DEF TypeOK, InsertBundle, GoTo, tables, stored

LEMMA TypeStep == TypeOK /\ ExportersOnlyRead /\ [Next]_vars => TypeOK' /\ ExportersOnlyRead'
  <1> SUFFICES ASSUME TypeOK, ExportersOnlyRead, [Next]_vars
               PROVE  TypeOK' /\ ExportersOnlyRead'
    OBVIOUS
  <1> USE DEF ExportersOnlyRead
  <1>1. ASSUME NEW changed \in WriteSets, Write(changed)
        PROVE  TypeOK' /\ ExportersOnlyRead'
    BY <1>1, WriteType DEF Write
  <1>2. ASSUME NEW r \in Readers, StartLocked(r)
        PROVE  TypeOK' /\ ExportersOnlyRead'
    <2>1. r \in Builders
      BY <1>2 DEF StartLocked, Builders
    <2> QED BY <1>2, <2>1, StartType
            DEF StartLocked, StartReading, TypeOK, tables, stored, dirty
  <1>3. ASSUME NEW r \in Readers, Start(r)
        PROVE  TypeOK' /\ ExportersOnlyRead'
    BY <1>3, StartType DEF Start, StartReading, TypeOK, tables, stored, dirty, Readers
  <1>4. ASSUME NEW r \in Readers, ReadTable(r)
        PROVE  TypeOK' /\ ExportersOnlyRead'
    BY <1>4, ReadTableType DEF ReadTable
  <1>5. ASSUME NEW r \in Readers, StartResolving(r)
        PROVE  TypeOK' /\ ExportersOnlyRead'
    BY <1>5, OrderTypes DEF StartResolving, GoTo, TypeOK, tables, stored, dirty
  <1>6. ASSUME NEW r \in Readers, ResolveTable(r)
        PROVE  TypeOK' /\ ExportersOnlyRead'
    BY <1>6, ResolveTableType DEF ResolveTable
  <1>7. ASSUME NEW r \in Readers, BusyTimeout(r)
        PROVE  TypeOK' /\ ExportersOnlyRead'
    BY <1>7, ReturnType DEF BusyTimeout, TypeOK, tables, stored, dirty, Readers
  <1>8. ASSUME NEW r \in Readers, Commit(r)
        PROVE  TypeOK' /\ ExportersOnlyRead'
    BY <1>8, ReturnType DEF Commit, TypeOK, tables, dirty
  <1>9. ASSUME NEW r \in Readers, WriteFile(r)
        PROVE  TypeOK' /\ ExportersOnlyRead'
    <2>1. snap[r].read \in Versions
      BY DEF TypeOK, Snapshots
    <2>2. r \notin Builders
      BY <1>9, BuildAssumption DEF WriteFile
    <2>3. file' \in [Exporters -> Versions \cup {Nothing}]
      BY <1>9, <2>1 DEF WriteFile, TypeOK
    <2>4. holder # r
      BY <2>2, BuildAssumption DEF TypeOK, Readers
    <2> QED BY <1>9, <2>3, <2>4, ReturnType
            DEF WriteFile, TypeOK, tables, stored, dirty, Readers
  <1>10. ASSUME NEW r \in Readers, Abandon(r)
         PROVE  TypeOK' /\ ExportersOnlyRead'
    <2>1. CASE holder = r
      BY <1>10, <2>1, ReturnType DEF Abandon, TypeOK, tables, stored
    <2>2. CASE holder # r
      BY <1>10, <2>2, ReturnType DEF Abandon, TypeOK, tables, stored, dirty, Readers
    <2> QED BY <2>1, <2>2
  <1>11. ASSUME NEW r \in Readers, NEW b \in BundleIds, InsertBundle(r, b)
         PROVE  TypeOK' /\ ExportersOnlyRead'
    <2>1. r \in Builders
      BY <1>11 DEF InsertBundle
    <2> QED BY <1>11, <2>1, InsertBundleType DEF InsertBundle, GoTo, TypeOK
  <1>12. ASSUME NEW r \in Readers, NEW b \in BundleIds, InsertSources(r, b)
         PROVE  TypeOK' /\ ExportersOnlyRead'
    BY <1>12 DEF InsertSources, GoTo, TypeOK, tables, stored
  <1>13. CASE UNCHANGED vars
    BY <1>13 DEF vars, tables, stored, dirty, TypeOK
  <1> QED BY <1>1, <1>2, <1>3, <1>4, <1>5, <1>6, <1>7, <1>8, <1>9, <1>10, <1>11,
             <1>12, <1>13 DEF Next

-------------------------------------------------------------------------------
(* The lock                                                                 *)

LEMMA LockStep == IInv /\ Next => LockInv'
  <1> SUFFICES ASSUME IInv, Next PROVE LockInv'
    OBVIOUS
  <1> USE DEF LockInv
  <1>0. TypeOK /\ ExportersOnlyRead /\ LockInv
    BY DEF IInv
  <1>a. CliBuilders \subseteq Readers /\ Nobody \notin Readers
    BY BuildAssumption DEF Readers, Builders
  <1>1. ASSUME NEW changed \in WriteSets, Write(changed)
        PROVE  LockInv'
    BY <1>0, <1>1 DEF Write, stored, dirty
  <1>2. ASSUME NEW r \in Readers, StartLocked(r)
        PROVE  LockInv'
    BY <1>0, <1>a, <1>2, StartType DEF StartLocked, StartReading, stored, dirty
  <1>3. ASSUME NEW r \in Readers, Start(r)
        PROVE  LockInv'
    BY <1>0, <1>a, <1>3, StartType DEF Start, StartReading, stored, dirty
  <1>4. ASSUME NEW r \in Readers, ReadTable(r) \/ ResolveTable(r)
        PROVE  LockInv'
    BY <1>0, <1>4 DEF ReadTable, ResolveTable, stored, dirty
  <1>5. ASSUME NEW r \in Readers, StartResolving(r)
        PROVE  LockInv'
    BY <1>0, <1>a, <1>5 DEF StartResolving, GoTo, TypeOK, stored, dirty
  <1>6. ASSUME NEW r \in Readers, BusyTimeout(r)
        PROVE  LockInv'
    BY <1>0, <1>a, <1>6, ReturnType DEF BusyTimeout, stored, dirty
  <1>7. ASSUME NEW r \in Readers, Commit(r)
        PROVE  LockInv'
    BY <1>0, <1>a, <1>7, ReturnType DEF Commit, dirty
  <1>8. ASSUME NEW r \in Readers, WriteFile(r)
        PROVE  LockInv'
    BY <1>0, <1>a, <1>8, ReturnType DEF WriteFile, stored, dirty
  <1>9. ASSUME NEW r \in Readers, Abandon(r)
        PROVE  LockInv'
    <2>1. CASE holder = r
      BY <1>0, <1>a, <1>9, <2>1, ReturnType DEF Abandon, stored
    <2>2. CASE holder # r
      BY <1>0, <1>a, <1>9, <2>2, ReturnType DEF Abandon, stored, dirty
    <2> QED BY <2>1, <2>2
  <1>10. ASSUME NEW r \in Readers, NEW b \in BundleIds, InsertBundle(r, b)
         PROVE  LockInv'
    BY <1>0, <1>a, <1>10 DEF InsertBundle, GoTo, TypeOK
  <1>11. ASSUME NEW r \in Readers, NEW b \in BundleIds, InsertSources(r, b)
         PROVE  LockInv'
    BY <1>0, <1>a, <1>11 DEF InsertSources, GoTo, TypeOK
  <1> QED BY <1>1, <1>2, <1>3, <1>4, <1>5, <1>6, <1>7, <1>8, <1>9, <1>10, <1>11
             DEF Next

-------------------------------------------------------------------------------
(* What has been read                                                       *)

\* When nothing is left to read, a CLI build has read one moment.
LEMMA BuildIsOneMoment ==
  ASSUME IInv, NEW r \in CliBuilders, pc[r] = "resolve", todo[r] = << >>
  PROVE  IsOneMoment(snap[r])
  <1>1. snap[r].read = now /\ \A t \in ResolvedTables : snap[r].resolved[t] = now[t]
    BY NothingLeft DEF IInv, ReadInv, HasReadNow
  <1> QED BY <1>1 DEF IInv, TypeOK, IsOneMoment

LEMMA ReadTableReads ==
  ASSUME IInv, NEW r \in CliBuilders, ReadTable(r)
  PROVE  HasReadNow(r)'
  <1> DEFINE t == Head(todo[r])
  <1>1. r \in Readers
    BY DEF Readers, Builders
  <1>2. /\ todo[r] \in Seq(Tables) /\ snap[r] \in Snapshots
        /\ pc[r] = "read" /\ todo[r] # << >>
    BY <1>1 DEF IInv, TypeOK, ReadTable
  <1>3. t \in Tables /\ Left(todo[r]) \subseteq {t} \cup Left(Tail(todo[r]))
    BY <1>2, HeadAndTail
  <1>4. /\ snap'[r].read = [snap[r].read EXCEPT ![t] = now[t]]
        /\ todo'[r] = Tail(todo[r])
        /\ UNCHANGED <<pc, now>>
    BY <1>1, <1>2 DEF IInv, TypeOK, ReadTable, tables, Snapshots
  <1>5. \A u \in Tables : snap[r].read[u] = now[u] \/ u \in Left(todo[r])
    BY <1>2 DEF IInv, ReadInv, HasReadNow
  <1>6. \A u \in Tables : snap'[r].read[u] = now[u] \/ u \in Left(todo'[r])
    BY <1>2, <1>3, <1>4, <1>5 DEF Snapshots, Versions
  <1> QED BY <1>2, <1>4, <1>6 DEF HasReadNow

LEMMA ResolveTableReads ==
  ASSUME IInv, NEW r \in CliBuilders, ResolveTable(r)
  PROVE  HasReadNow(r)'
  <1> DEFINE t == Head(todo[r])
  <1>1. r \in Readers
    BY DEF Readers, Builders
  <1>2. /\ todo[r] \in Seq(Tables) /\ snap[r] \in Snapshots
        /\ pc[r] = "resolve" /\ todo[r] # << >>
    BY <1>1 DEF IInv, TypeOK, ResolveTable
  <1>3. t \in Tables /\ Left(todo[r]) \subseteq {t} \cup Left(Tail(todo[r]))
    BY <1>2, HeadAndTail
  <1>4. /\ snap'[r].resolved = [snap[r].resolved EXCEPT ![t] = now[t]]
        /\ snap'[r].read = snap[r].read
        /\ todo'[r] = Tail(todo[r])
        /\ UNCHANGED <<pc, now>>
    BY <1>1, <1>2 DEF IInv, TypeOK, ResolveTable, tables, Snapshots
  <1>5. /\ snap[r].read = now
        /\ \A u \in ResolvedTables :
             snap[r].resolved[u] = now[u] \/ u \in Left(todo[r])
    BY <1>2 DEF IInv, ReadInv, HasReadNow
  <1>6. \A u \in ResolvedTables :
          snap'[r].resolved[u] = now[u] \/ u \in Left(todo'[r])
    BY <1>2, <1>3, <1>4, <1>5 DEF Snapshots, Versions, ResolvedTables
  <1> QED BY <1>2, <1>4, <1>5, <1>6 DEF HasReadNow

LEMMA ResolvingStarts ==
  ASSUME IInv, NEW r \in CliBuilders, StartResolving(r)
  PROVE  HasReadNow(r)'
  <1>1. r \in Readers
    BY DEF Readers, Builders
  <1>2. \A t \in Tables : snap[r].read[t] = now[t]
    BY NothingLeft DEF IInv, ReadInv, HasReadNow, StartResolving
  <1>3. snap[r].read \in Versions /\ now \in Versions
    BY <1>1 DEF IInv, TypeOK, Snapshots
  <1>4. snap[r].read = now
    BY <1>2, <1>3 DEF Versions
  <1>5. pc'[r] = "resolve" /\ todo'[r] = ResolveOrder /\ UNCHANGED <<snap, now>>
    BY <1>1 DEF IInv, TypeOK, StartResolving, GoTo, tables
  <1> QED BY <1>4, <1>5, OrderTypes DEF HasReadNow

LEMMA ReadStep == IInv /\ Next => ReadInv'
  <1> SUFFICES ASSUME IInv, Next, NEW r \in CliBuilders
               PROVE  HasReadNow(r)'
    BY DEF ReadInv
  <1>a. TypeOK /\ LockInv /\ HasReadNow(r)
    BY DEF IInv, ReadInv
  <1>b. r \in Readers /\ Nobody \notin Readers
    BY BuildAssumption DEF Readers, Builders
  <1>c. ASSUME UNCHANGED <<now, pc[r], todo[r], snap[r]>>
        PROVE  HasReadNow(r)'
    BY <1>a, <1>c DEF HasReadNow
  <1>d. ASSUME pc'[r] \notin {"read", "resolve"}
        PROVE  HasReadNow(r)'
    BY <1>d DEF HasReadNow
  <1>1. ASSUME NEW changed \in WriteSets, Write(changed)
        PROVE  HasReadNow(r)'
    BY <1>1, <1>a, <1>b, <1>d DEF Write, LockInv
  <1>2. ASSUME NEW q \in Readers, StartLocked(q) \/ Start(q)
        PROVE  HasReadNow(r)'
    <2>1. StartReading(q) /\ UNCHANGED now
      BY <1>2 DEF StartLocked, Start, StartReading, tables
    <2>2. CASE q = r
      BY <1>a, <2>1, <2>2, StartType, OrderTypes DEF HasReadNow
    <2>3. CASE q # r
      BY <1>a, <1>b, <1>c, <2>1, <2>3 DEF StartReading, GoTo, TypeOK
    <2> QED BY <2>2, <2>3
  <1>3. ASSUME NEW q \in Readers, ReadTable(q) \/ ResolveTable(q) \/ StartResolving(q)
        PROVE  HasReadNow(r)'
    <2>1. CASE q = r
      BY <1>3, <2>1, ReadTableReads, ResolveTableReads, ResolvingStarts
    <2>2. CASE q # r
      BY <1>3, <1>a, <1>b, <1>c, <2>2
         DEF ReadTable, ResolveTable, StartResolving, GoTo, TypeOK, tables
    <2> QED BY <2>1, <2>2
  <1>4. ASSUME NEW q \in Readers,
               BusyTimeout(q) \/ Commit(q) \/ WriteFile(q) \/ Abandon(q)
        PROVE  HasReadNow(r)'
    <2>1. Return(q) /\ UNCHANGED now
      BY <1>4 DEF BusyTimeout, Commit, WriteFile, Abandon, tables
    <2>2. CASE q = r
      BY <1>a, <1>d, <2>1, <2>2, ReturnType
    <2>3. CASE q # r
      BY <1>a, <1>b, <1>c, <2>1, <2>3 DEF Return, GoTo, TypeOK
    <2> QED BY <2>2, <2>3
  <1>5. ASSUME NEW q \in Readers, NEW b \in BundleIds,
               InsertBundle(q, b) \/ InsertSources(q, b)
        PROVE  HasReadNow(r)'
    <2>1. /\ UNCHANGED <<now, todo, snap>>
          /\ pc'[q] \in {"bundle_inserted", "built"}
          /\ \A p \in Readers \ {q} : pc'[p] = pc[p]
      BY <1>5, <1>a DEF InsertBundle, InsertSources, GoTo, TypeOK, tables
    <2> QED BY <1>b, <1>c, <1>d, <2>1
  <1> QED BY <1>1, <1>2, <1>3, <1>4, <1>5 DEF Next

-------------------------------------------------------------------------------
(* What has been stored                                                     *)

LEMMA MomentsOnlyGrow == IInv /\ Next => moments \subseteq moments'
  BY DEF Next, Write, StartLocked, Start, StartReading, ReadTable, StartResolving,
         ResolveTable, BusyTimeout, Commit, WriteFile, Abandon, InsertBundle,
         InsertSources, tables

LEMMA MomentStep == IInv /\ Next => MomentInv'
  <1> SUFFICES ASSUME IInv, Next PROVE MomentInv'
    OBVIOUS
  <1>0. TypeOK /\ MomentInv
    BY DEF IInv
  <1>1. ASSUME bundles' \in {bundles, dirtyBundles}, dirtyBundles' \in {bundles, dirtyBundles}
        PROVE  MomentInv'
    BY <1>0, <1>1, MomentsOnlyGrow DEF MomentInv, OneMomentEach, IsOneMoment
  <1>2. ASSUME NEW r \in Readers, NEW b \in BundleIds, InsertBundle(r, b)
        PROVE  MomentInv'
    <2> DEFINE row == [by |-> r, snap |-> snap[r]]
    <2>1. dirtyBundles' = [dirtyBundles EXCEPT ![b] = row] /\ bundles' = bundles
      BY <1>2 DEF InsertBundle, stored
    <2>2. r \in CliBuilders => IsOneMoment(snap[r])
      BY <1>2, BuildIsOneMoment DEF InsertBundle
    <2>3. OneMomentEach(bundles)'
      BY <1>0, <2>1, MomentsOnlyGrow DEF MomentInv, OneMomentEach, IsOneMoment
    <2>4. ASSUME NEW c \in BundleIds,
                 (dirtyBundles[c] # Nothing /\ dirtyBundles[c].by \in CliBuilders)'
          PROVE  IsOneMoment(dirtyBundles[c].snap)'
      <3>1. CASE c = b
        <4>1. dirtyBundles'[c] = row
          BY <1>0, <2>1, <3>1 DEF TypeOK
        <4>2. IsOneMoment(snap[r])
          BY <2>2, <2>4, <4>1
        <4> QED BY <4>1, <4>2, MomentsOnlyGrow DEF IsOneMoment
      <3>2. CASE c # b
        <4>1. dirtyBundles'[c] = dirtyBundles[c]
          BY <1>0, <2>1, <3>2 DEF TypeOK
        <4>2. IsOneMoment(dirtyBundles[c].snap)
          BY <1>0, <2>4, <4>1 DEF MomentInv, OneMomentEach
        <4> QED BY <4>1, <4>2, MomentsOnlyGrow DEF IsOneMoment
      <3> QED BY <3>1, <3>2
    <2>5. OneMomentEach(dirtyBundles)'
      BY <2>4 DEF OneMomentEach
    <2> QED BY <2>3, <2>5 DEF MomentInv
  <1>3. CASE \E r \in Readers, b \in BundleIds : InsertBundle(r, b)
    BY <1>2, <1>3
  <1>4. CASE ~(\E r \in Readers, b \in BundleIds : InsertBundle(r, b))
    BY <1>1, <1>4
       DEF Next, Write, StartLocked, Start, StartReading, ReadTable, StartResolving,
           ResolveTable, BusyTimeout, Commit, WriteFile, Abandon, InsertSources,
           stored, dirty
  <1> QED BY <1>3, <1>4

LEMMA AuditStep == IInv /\ Next => AuditInv'
  <1> SUFFICES ASSUME IInv, Next PROVE AuditInv'
    OBVIOUS
  <1> USE DEF AuditInv, BundleIsAuditable
  <1>0. TypeOK /\ LockInv /\ AuditInv
    BY DEF IInv
  <1>a. Nobody \notin Readers
    BY BuildAssumption
  <1>1. ASSUME NEW changed \in WriteSets, Write(changed)
        PROVE  AuditInv'
    BY <1>0, <1>1 DEF Write, stored, dirty
  <1>2. ASSUME NEW r \in Readers, StartLocked(r)
        PROVE  AuditInv'
    BY <1>0, <1>a, <1>2 DEF StartLocked, StartReading, stored, dirty, LockInv
  <1>3. ASSUME NEW r \in Readers, Start(r)
        PROVE  AuditInv'
    BY <1>0, <1>3, StartType DEF Start, StartReading, stored, dirty, TypeOK, Readers
  <1>4. ASSUME NEW r \in Readers, ReadTable(r) \/ ResolveTable(r)
        PROVE  AuditInv'
    BY <1>0, <1>4 DEF ReadTable, ResolveTable, stored, dirty
  <1>5. ASSUME NEW r \in Readers, StartResolving(r)
        PROVE  AuditInv'
    BY <1>0, <1>5 DEF StartResolving, GoTo, TypeOK, stored, dirty, Readers
  <1>6. ASSUME NEW r \in Readers, BusyTimeout(r)
        PROVE  AuditInv'
    BY <1>0, <1>6, ReturnType DEF BusyTimeout, stored, dirty, TypeOK, Readers
  <1>7. ASSUME NEW r \in Readers, Commit(r)
        PROVE  AuditInv'
    <2>1. holder = r
      BY <1>0, <1>7 DEF Commit, LockInv
    <2>2. \A b \in BundleIds : dirtyBundles[b] # Nothing <=> b \in dirtySources
      BY <1>0, <1>a, <1>7, <2>1 DEF Commit
    <2> QED BY <1>0, <1>7, <2>2 DEF Commit, dirty
  <1>8. ASSUME NEW r \in Readers, WriteFile(r)
        PROVE  AuditInv'
    BY <1>0, <1>8, ReturnType DEF WriteFile, stored, dirty, TypeOK, Readers
  <1>9. ASSUME NEW r \in Readers, Abandon(r)
        PROVE  AuditInv'
    <2>1. CASE holder = r
      BY <1>0, <1>9, <2>1 DEF Abandon, stored, TypeOK
    <2>2. CASE holder # r
      BY <1>0, <1>9, <2>2, ReturnType DEF Abandon, stored, dirty, TypeOK, Readers
    <2> QED BY <2>1, <2>2
  <1>10. ASSUME NEW r \in Readers, NEW b \in BundleIds, InsertBundle(r, b)
         PROVE  AuditInv'
    <2>1. \A c \in BundleIds : dirtyBundles[c] # Nothing <=> c \in dirtySources
      BY <1>0, <1>a, <1>10 DEF InsertBundle, LockInv
    <2>2. /\ holder' = r /\ pc'[r] = "bundle_inserted"
          /\ UNCHANGED <<bundles, sources, dirtySources>>
          /\ \A c \in BundleIds \ {b} : dirtyBundles'[c] = dirtyBundles[c]
      BY <1>0, <1>10 DEF InsertBundle, GoTo, TypeOK, stored
    <2>3. dirtySources \subseteq BundleIds /\ b \notin dirtySources
      BY <1>0, <1>10, <2>1 DEF InsertBundle, TypeOK
    <2> QED BY <1>0, <2>1, <2>2, <2>3
  <1>11. ASSUME NEW r \in Readers, NEW b \in BundleIds, InsertSources(r, b)
         PROVE  AuditInv'
    <2>1. holder = r /\ holder' = r
      BY <1>0, <1>11 DEF InsertSources, LockInv
    <2>2. /\ dirtySources' = dirtySources \cup {b}
          /\ dirtyBundles[b] # Nothing /\ b \notin dirtySources
          /\ UNCHANGED <<bundles, sources, dirtyBundles>>
      BY <1>11 DEF InsertSources, stored
    <2>3. \A c \in BundleIds : dirtyBundles[c] # Nothing => c \in dirtySources'
      BY <1>0, <1>a, <2>1, <2>2
    <2> QED BY <1>0, <2>1, <2>2, <2>3
  <1> QED BY <1>1, <1>2, <1>3, <1>4, <1>5, <1>6, <1>7, <1>8, <1>9, <1>10, <1>11
             DEF Next

-------------------------------------------------------------------------------
(* Without the lock                                                         *)

\* A moment of the task row that r has read, not later than any table: a table that is
\* left to read can only be later still.
IsBehind(m, r) ==
  /\ m["tasks"] = snap[r].read["tasks"]
  /\ \A t \in Tables : m[t] <= now[t]
  /\ \A t \in Tables : t \in Left(todo[r]) \/ m[t] <= snap[r].read[t]

\* The task row is read first: there is such a moment from then on.
IsNotAhead(r) ==
  /\ pc[r] = "read" =>
       \/ todo[r] = BuildOrder
       \/ "tasks" \notin Left(todo[r]) /\ \E m \in moments : IsBehind(m, r)
  /\ pc[r] = "resolve" => TaskIsNotAhead(snap[r].read)

NoneIsAhead(rows) ==
  \A b \in BundleIds : rows[b] # Nothing => TaskIsNotAhead(rows[b].snap.read)

AheadInv ==
  /\ \A r \in Readers : IsNotAhead(r)
  /\ NoneIsAhead(dirtyBundles)
  /\ NoTaskIsAhead

LEMMA TailLeavesLess ==
  ASSUME NEW order \in Seq(Tables), order # << >>
  PROVE  /\ Head(order) \in Left(order)
         /\ Left(Tail(order)) \subseteq Left(order)
  <1>1. /\ Len(order) \in Nat /\ Len(order) > 0
        /\ Head(order) = order[1] /\ Len(Tail(order)) = Len(order) - 1
        /\ \A i \in 1..(Len(order) - 1) : Tail(order)[i] = order[i + 1]
    OBVIOUS
  <1>2. Head(order) \in Left(order)
    BY <1>1 DEF Left
  <1>3. ASSUME NEW i \in 1..Len(Tail(order))
        PROVE  Tail(order)[i] \in Left(order)
    <2>1. i + 1 \in 1..Len(order) /\ Tail(order)[i] = order[i + 1]
      BY <1>1, <1>3
    <2> QED BY <2>1 DEF Left
  <1> QED BY <1>2, <1>3 DEF Left

LEMMA TasksFirst ==
  /\ BuildOrder # << >> /\ Head(BuildOrder) = "tasks"
  /\ Left(Tail(BuildOrder)) = Tables \ {"tasks"}
  <1> DEFINE rest == Tail(BuildOrder)
  <1>1. /\ Len(rest) = 4
        /\ rest[1] = "task_states" /\ rest[2] = "decisions"
        /\ rest[3] = "open_questions" /\ rest[4] = "runs"
    BY DEF BuildOrder
  <1>2. 1..4 = {1, 2, 3, 4}
    OBVIOUS
  <1>3. Left(rest) = {rest[i] : i \in {1, 2, 3, 4}}
    BY <1>1, <1>2 DEF Left
  <1>4. Left(rest) = {"task_states", "decisions", "open_questions", "runs"}
    <2> HIDE DEF rest
    <2> QED BY <1>1, <1>3
  <1> QED BY <1>4 DEF BuildOrder, Tables

\* TaskIsNotAhead, of any set of moments.
NotAheadOf(ms, read) ==
  \E m \in ms : m["tasks"] = read["tasks"] /\ \A t \in Tables : m[t] <= read[t]

LEMMA NotAheadGrows ==
  ASSUME NEW ms, NEW more, ms \subseteq more, NEW read, NotAheadOf(ms, read)
  PROVE  NotAheadOf(more, read)
  BY DEF NotAheadOf

LEMMA WriteKeepsBehind ==
  ASSUME IInv, NEW r \in Readers, NEW changed \in WriteSets, Write(changed), IsNotAhead(r)
  PROVE  IsNotAhead(r)'
  <1>1. /\ moments \subseteq moments' /\ UNCHANGED <<pc, todo, snap>>
        /\ \A t \in Tables : now[t] \in Nat /\ now'[t] \in Nat /\ now[t] <= now'[t]
    BY DEF Write, IInv, TypeOK, Versions
  <1>2. ASSUME NEW m \in moments, IsBehind(m, r)
        PROVE  m \in moments' /\ IsBehind(m, r)'
    <2>1. \A t \in Tables : m[t] \in Nat
      BY <1>2 DEF IInv, TypeOK, Versions
    <2>2. \A t \in Tables : m[t] <= now'[t]
      BY <1>1, <1>2, <2>1 DEF IsBehind
    <2> QED BY <1>1, <1>2, <2>2 DEF IsBehind
  <1>3. pc[r] = "resolve" => TaskIsNotAhead(snap[r].read)'
    BY <1>1 DEF IsNotAhead, TaskIsNotAhead
  <1> QED BY <1>1, <1>2, <1>3 DEF IsNotAhead

LEMMA ReadKeepsBehind ==
  ASSUME IInv, NEW r \in Readers, ReadTable(r), IsNotAhead(r)
  PROVE  IsNotAhead(r)'
  <1> DEFINE t == Head(todo[r])
  <1>1. /\ todo[r] \in Seq(Tables) /\ snap[r] \in Snapshots
        /\ pc[r] = "read" /\ todo[r] # << >>
    BY DEF IInv, TypeOK, ReadTable
  <1>2. t \in Tables /\ Left(todo[r]) \subseteq {t} \cup Left(Tail(todo[r]))
    BY <1>1, HeadAndTail
  <1>3. t \in Left(todo[r]) /\ Left(Tail(todo[r])) \subseteq Left(todo[r])
    BY <1>1, TailLeavesLess
  <1>4. /\ snap'[r].read = [snap[r].read EXCEPT ![t] = now[t]]
        /\ todo'[r] = Tail(todo[r])
        /\ UNCHANGED <<pc, now, moments>>
    BY <1>1 DEF IInv, TypeOK, ReadTable, tables, Snapshots
  <1>5. /\ snap'[r].read[t] = now[t]
        /\ \A u \in Tables \ {t} : snap'[r].read[u] = snap[r].read[u]
    BY <1>1, <1>2, <1>4 DEF Snapshots, Versions
  <1>6. now \in moments /\ \A u \in Tables : now[u] <= now[u]
    BY DEF IInv, TypeOK, Versions
  <1> HIDE DEF t
  <1>7. CASE todo[r] = BuildOrder
    <2>1. t = "tasks" /\ Left(todo'[r]) = Tables \ {"tasks"}
      BY <1>4, <1>7, TasksFirst DEF t
    <2>2. IsBehind(now, r)'
      BY <1>4, <1>5, <1>6, <2>1, <1>2 DEF IsBehind
    <2> QED BY <1>1, <1>4, <1>6, <2>1, <2>2 DEF IsNotAhead
  <1>8. CASE todo[r] # BuildOrder
    <2>1. PICK m \in moments : IsBehind(m, r)
      BY <1>1, <1>8 DEF IsNotAhead
    <2>2. "tasks" \notin Left(todo[r])
      BY <1>1, <1>8 DEF IsNotAhead
    <2>3. t # "tasks" /\ "tasks" \notin Left(todo'[r])
      BY <1>3, <1>4, <2>2 DEF t
    <2>4. m["tasks"] = snap'[r].read["tasks"]
      BY <1>5, <2>1, <2>3 DEF IsBehind, Tables
    <2>5. \A u \in Tables : u \in Left(todo'[r]) \/ m[u] <= snap'[r].read[u]
      <3>1. m[t] <= snap'[r].read[t]
        BY <1>2, <1>5, <2>1 DEF IsBehind
      <3>2. ASSUME NEW u \in Tables, u # t, u \notin Left(todo'[r])
            PROVE  m[u] <= snap'[r].read[u]
        <4>1. u \notin Left(todo[r])
          BY <1>2, <1>4, <3>2 DEF t
        <4> QED BY <1>5, <2>1, <3>2, <4>1 DEF IsBehind
      <3> QED BY <3>1, <3>2
    <2>6. IsBehind(m, r)'
      BY <1>4, <2>1, <2>4, <2>5 DEF IsBehind
    <2> QED BY <1>1, <1>4, <2>1, <2>3, <2>6 DEF IsNotAhead
  <1> QED BY <1>7, <1>8

\* When nothing is left to read, the moment is not later than any table that was read.
LEMMA ReadIsNotAhead ==
  ASSUME NEW r \in Readers, IsNotAhead(r), pc[r] = "read", todo[r] = << >>
  PROVE  TaskIsNotAhead(snap[r].read)
  BY NothingLeft, TasksFirst DEF IsNotAhead, IsBehind, TaskIsNotAhead

LEMMA ReaderStep == IInv /\ AheadInv /\ Next => \A r \in Readers : IsNotAhead(r)'
  <1> SUFFICES ASSUME IInv, AheadInv, Next, NEW r \in Readers
               PROVE  IsNotAhead(r)'
    OBVIOUS
  <1>a. TypeOK /\ IsNotAhead(r)
    BY DEF IInv, AheadInv
  <1>b. ASSUME UNCHANGED <<now, moments, pc[r], todo[r], snap[r]>>
        PROVE  IsNotAhead(r)'
    BY <1>a, <1>b DEF IsNotAhead, IsBehind, TaskIsNotAhead
  <1>c. ASSUME pc'[r] \notin {"read", "resolve"}
        PROVE  IsNotAhead(r)'
    BY <1>c DEF IsNotAhead
  <1>1. ASSUME NEW changed \in WriteSets, Write(changed)
        PROVE  IsNotAhead(r)'
    BY <1>1, <1>a, WriteKeepsBehind
  <1>2. ASSUME NEW q \in Readers, StartLocked(q) \/ Start(q)
        PROVE  IsNotAhead(r)'
    <2>1. StartReading(q) /\ UNCHANGED <<now, moments>>
      BY <1>2 DEF StartLocked, Start, StartReading, tables
    <2>2. CASE q = r
      BY <1>a, <2>1, <2>2, StartType DEF IsNotAhead
    <2>3. CASE q # r
      BY <1>a, <1>b, <2>1, <2>3 DEF StartReading, GoTo, TypeOK
    <2> QED BY <2>2, <2>3
  <1>3. ASSUME NEW q \in Readers, ReadTable(q) \/ ResolveTable(q) \/ StartResolving(q)
        PROVE  IsNotAhead(r)'
    <2>1. CASE q = r /\ ReadTable(q)
      BY <1>a, <2>1, ReadKeepsBehind
    <2>2. CASE q = r /\ StartResolving(q)
      <3>1. TaskIsNotAhead(snap[r].read)
        BY <1>a, <2>2, ReadIsNotAhead DEF StartResolving
      <3>2. pc'[r] = "resolve" /\ UNCHANGED <<snap, moments>>
        BY <1>a, <2>2 DEF StartResolving, GoTo, TypeOK, tables
      <3> QED BY <3>1, <3>2 DEF IsNotAhead, TaskIsNotAhead
    <2>3. CASE q = r /\ ResolveTable(q)
      <3>1. /\ pc[r] = "resolve" /\ UNCHANGED <<pc, moments>>
            /\ snap'[r].read = snap[r].read
        BY <1>a, <2>3 DEF ResolveTable, TypeOK, Snapshots, tables
      <3> QED BY <1>a, <3>1 DEF IsNotAhead, TaskIsNotAhead
    <2>4. CASE q # r
      BY <1>3, <1>a, <1>b, <2>4
         DEF ReadTable, ResolveTable, StartResolving, GoTo, TypeOK, tables
    <2> QED BY <1>3, <2>1, <2>2, <2>3, <2>4
  <1>4. ASSUME NEW q \in Readers,
               BusyTimeout(q) \/ Commit(q) \/ WriteFile(q) \/ Abandon(q)
        PROVE  IsNotAhead(r)'
    <2>1. Return(q) /\ UNCHANGED <<now, moments>>
      BY <1>4 DEF BusyTimeout, Commit, WriteFile, Abandon, tables
    <2>2. CASE q = r
      BY <1>a, <1>c, <2>1, <2>2, ReturnType
    <2>3. CASE q # r
      BY <1>a, <1>b, <2>1, <2>3 DEF Return, GoTo, TypeOK
    <2> QED BY <2>2, <2>3
  <1>5. ASSUME NEW q \in Readers, NEW b \in BundleIds,
               InsertBundle(q, b) \/ InsertSources(q, b)
        PROVE  IsNotAhead(r)'
    <2>1. /\ UNCHANGED <<now, moments, todo, snap>>
          /\ pc'[q] \in {"bundle_inserted", "built"}
          /\ \A p \in Readers \ {q} : pc'[p] = pc[p]
      BY <1>5, <1>a DEF InsertBundle, InsertSources, GoTo, TypeOK, tables
    <2> QED BY <1>b, <1>c, <2>1
  <1> QED BY <1>1, <1>2, <1>3, <1>4, <1>5 DEF Next

\* A table of bundles, and a file, none of which is ahead of some moment in ms.
AllCovered(ms, rows) ==
  \A b \in BundleIds : rows[b] # Nothing => NotAheadOf(ms, rows[b].snap.read)

AllFilesCovered(ms, files) ==
  \A r \in Exporters : files[r] # Nothing => NotAheadOf(ms, files[r])

LEMMA AheadMeans ==
  /\ NoneIsAhead(dirtyBundles) <=> AllCovered(moments, dirtyBundles)
  /\ NoTaskIsAhead <=> AllCovered(moments, bundles) /\ AllFilesCovered(moments, file)
  BY DEF NoneIsAhead, NoTaskIsAhead, TaskIsNotAhead, AllCovered, AllFilesCovered, NotAheadOf

LEMMA AheadMeansAfter ==
  /\ NoneIsAhead(dirtyBundles)' <=> AllCovered(moments', dirtyBundles')
  /\ NoTaskIsAhead' <=> AllCovered(moments', bundles') /\ AllFilesCovered(moments', file')
  BY DEF NoneIsAhead, NoTaskIsAhead, TaskIsNotAhead, AllCovered, AllFilesCovered, NotAheadOf

LEMMA AheadStep == IInv /\ AheadInv /\ Next => AheadInv'
  <1> SUFFICES ASSUME IInv, AheadInv, Next PROVE AheadInv'
    OBVIOUS
  <1>0. /\ TypeOK /\ moments \subseteq moments'
        /\ AllCovered(moments, dirtyBundles) /\ AllCovered(moments, bundles)
        /\ AllFilesCovered(moments, file)
    BY AheadMeans, MomentsOnlyGrow DEF IInv, AheadInv
  <1>1. /\ AllCovered(moments', dirtyBundles) /\ AllCovered(moments', bundles)
        /\ AllFilesCovered(moments', file)
    BY <1>0, NotAheadGrows DEF AllCovered, AllFilesCovered
  <1>2. /\ AllCovered(moments', bundles') /\ AllCovered(moments', dirtyBundles')
        /\ AllFilesCovered(moments', file')
    <2>1. CASE \E r \in Readers, b \in BundleIds : InsertBundle(r, b)
      <3>1. PICK r \in Readers, b \in BundleIds : InsertBundle(r, b)
        BY <2>1
      <3>2. /\ dirtyBundles' = [dirtyBundles EXCEPT ![b] = [by |-> r, snap |-> snap[r]]]
            /\ UNCHANGED <<bundles, file>> /\ pc[r] = "resolve"
        BY <3>1 DEF InsertBundle, stored
      <3>3. NotAheadOf(moments, snap[r].read)
        BY <3>2 DEF AheadInv, IsNotAhead, TaskIsNotAhead, NotAheadOf
      <3>4. NotAheadOf(moments', snap[r].read)
        BY <3>3, <1>0, NotAheadGrows
      <3>5. \A c \in BundleIds :
              dirtyBundles'[c] = dirtyBundles[c] \/ dirtyBundles'[c].snap = snap[r]
        BY <1>0, <3>2 DEF TypeOK
      <3>6. AllCovered(moments', dirtyBundles')
        BY <1>1, <3>4, <3>5 DEF AllCovered
      <3> QED BY <1>1, <3>2, <3>6
    <2>2. CASE \E r \in Readers : WriteFile(r)
      <3>1. PICK r \in Readers : WriteFile(r)
        BY <2>2
      <3>2. /\ file' = [file EXCEPT ![r] = snap[r].read]
            /\ UNCHANGED <<bundles, dirtyBundles>>
            /\ pc[r] = "read" /\ todo[r] = << >>
        BY <3>1 DEF WriteFile, stored, dirty
      <3>3. NotAheadOf(moments, snap[r].read)
        BY <3>2, ReadIsNotAhead DEF AheadInv, TaskIsNotAhead, NotAheadOf
      <3>4. NotAheadOf(moments', snap[r].read)
        BY <3>3, <1>0, NotAheadGrows
      <3>5. \A q \in Exporters : file'[q] = file[q] \/ file'[q] = snap[r].read
        BY <1>0, <3>2 DEF TypeOK
      <3>6. AllFilesCovered(moments', file')
        BY <1>1, <3>4, <3>5 DEF AllFilesCovered
      <3> QED BY <1>1, <3>2, <3>6
    <2>3. CASE /\ ~(\E r \in Readers, b \in BundleIds : InsertBundle(r, b))
               /\ ~(\E r \in Readers : WriteFile(r))
      <3>1. /\ bundles' \in {bundles, dirtyBundles}
            /\ dirtyBundles' \in {bundles, dirtyBundles} /\ file' = file
        BY <2>3
           DEF Next, Write, StartLocked, Start, StartReading, ReadTable, StartResolving,
               ResolveTable, BusyTimeout, Commit, Abandon, InsertSources, stored, dirty
      <3> QED BY <1>1, <3>1
    <2> QED BY <2>1, <2>2, <2>3
  <1> QED BY <1>2, ReaderStep, AheadMeansAfter DEF AheadInv

-------------------------------------------------------------------------------
(* The theorems                                                             *)

LEMMA InvStutters == IInv /\ UNCHANGED vars => IInv'
  BY DEF vars, tables, stored, dirty, IInv, TypeOK, ExportersOnlyRead, LockInv,
         ReadInv, HasReadNow, MomentInv, OneMomentEach, IsOneMoment, AuditInv,
         BundleIsAuditable

LEMMA InvStep == IInv /\ [Next]_vars => IInv'
  <1>1. IInv /\ Next => IInv'
    BY TypeStep, LockStep, ReadStep, MomentStep, AuditStep DEF IInv
  <1> QED BY <1>1, InvStutters

LEMMA Invariance == Spec => []IInv
  BY InvInitially, InvStep, PTL DEF Spec

\* The variables keep their types, and the lock holder is in its build.
THEOREM TypeCorrect == Spec => []TypeOK
  <1>1. IInv => TypeOK
    BY DEF IInv
  <1> QED BY <1>1, Invariance, PTL

\* What "context build" stores is one moment, because init_db's UPDATE has taken
\* the lock before its first SELECT.
THEOREM LockedBuild == Spec => []LockedBuildIsOneMoment
  <1>1. IInv => LockedBuildIsOneMoment
    BY DEF IInv, MomentInv, OneMomentEach, LockedBuildIsOneMoment
  <1> QED BY <1>1, Invariance, PTL

\* No commit, and no death between the two inserts, leaves a bundle without its
\* sources or sources without their bundle.
THEOREM Auditable == Spec => []BundleIsAuditable
  <1>1. IInv => BundleIsAuditable
    BY DEF IInv, AuditInv
  <1> QED BY <1>1, Invariance, PTL

LEMMA AheadInitially == Init => AheadInv
  BY BuildAssumption
     DEF Init, AheadInv, IsNotAhead, NoneIsAhead, NoTaskIsAhead

LEMMA AheadStutters == AheadInv /\ UNCHANGED vars => AheadInv'
  BY DEF vars, tables, stored, dirty, AheadInv, IsNotAhead, IsBehind, NoneIsAhead,
         NoTaskIsAhead, TaskIsNotAhead

\* No stored bundle and no exported file has a task row that is ahead of the rows beside
\* it, although its reader need not hold the lock: the task is read first.
THEOREM NobodyIsAhead == Spec => []NoTaskIsAhead
  <1>1. IInv /\ AheadInv /\ [Next]_vars => AheadInv'
    BY AheadStep, AheadStutters
  <1>2. AheadInv => NoTaskIsAhead
    BY DEF AheadInv
  <1> QED BY <1>1, <1>2, AheadInitially, Invariance, PTL DEF Spec
================================================================================
