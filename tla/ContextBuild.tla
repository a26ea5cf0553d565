----------------------------- MODULE ContextBuild -----------------------------
(****************************************************************************)
(* Readers that put several tables together, while commands go on changing  *)
(* them: "context build" of the CLI, a program that calls                   *)
(* ContextRebuildService.build() itself, and "export task".                 *)
(*                                                                          *)
(* Each of them reads a task's tables one SELECT after the other; build()   *)
(* then asks the resolver, which reads the rows again, and stores a bundle  *)
(* and its sources.  "context build" runs init_db first and so holds the    *)
(* write lock while it reads; the other two need not hold it.  A table is a *)
(* version number: it counts the commits that touched the rows of the task. *)
(* The service's cache of the latest bundle is in BundleService and the     *)
(* resolver in Resolution; the bundles that an export copies into its file  *)
(* are left out.                                                            *)
(****************************************************************************)
EXTENDS Naturals, Sequences, FiniteSets

CONSTANTS
  CliBuilders, LibBuilders, Exporters,  \* processes and programs, by what they do
  BundleIds,
  MaxWrites,  \* bound on the commits of other commands
  Nobody, Nothing

Builders == CliBuilders \cup LibBuilders
Readers == Builders \cup Exporters

\* Mutant: the task is read last.
TaskLast == <<"task_states", "decisions", "open_questions", "runs", "tasks">>

\* The order of the SELECTs; export reads the same tables in the same order.
BuildOrder == <<"tasks", "task_states", "decisions", "open_questions", "runs">>

\* The dashboard has no reference of its own, so the resolver does not read it.
ResolveOrder == <<"tasks", "decisions", "open_questions", "runs">>

Tables == {"tasks", "task_states", "decisions", "open_questions", "runs"}
ResolvedTables == Tables \ {"task_states"}

\* The tables that one writing command changes: set-status and update; put and
\* patch; add; accept and reject; answer and defer; start and finish.
WriteSets == {{"tasks"}, {"tasks", "task_states"}, {"tasks", "decisions"},
              {"tasks", "open_questions"}, {"decisions"}, {"open_questions"}, {"runs"}}

Versions == [Tables -> Nat]

\* What a reader has seen: read by the SELECTs, resolved by the resolver.
Snapshots == [read : Versions, resolved : Versions]
Bundles == [by : Builders, snap : Snapshots]

ASSUME BuildAssumption ==
  /\ CliBuilders \cap LibBuilders = {} /\ Builders \cap Exporters = {}
  /\ Nobody \notin Readers
  /\ Nothing \notin Bundles /\ Nothing \notin Versions
  /\ MaxWrites \in Nat

VARIABLES
  now, moments,              \* the committed versions, and (history) all there were
  bundles, sources,          \* committed: context_bundles, and the ids that have rows
                             \* in context_bundle_sources
  dirtyBundles, dirtySources, holder,  \* the same as the lock holder sees them
  file,                      \* what the file of each exporter contains
  pc, todo, snap             \* of each reader: where it is, the tables that are left,
                             \* what it has read

tables == <<now, moments>>
stored == <<bundles, sources>>
dirty == <<dirtyBundles, dirtySources>>
vars == <<tables, stored, dirty, holder, file, pc, todo, snap>>

Unread == [t \in Tables |-> 0]
Empty == [read |-> Unread, resolved |-> Unread]

Init ==
  /\ now = Unread /\ moments = {now}
  /\ bundles = [b \in BundleIds |-> Nothing] /\ sources = {}
  /\ dirtyBundles = bundles /\ dirtySources = sources /\ holder = Nobody
  /\ file = [r \in Exporters |-> Nothing]
  /\ pc = [r \in Readers |-> "idle"]
  /\ todo = [r \in Readers |-> << >>]
  /\ snap = [r \in Readers |-> Empty]

GoTo(r, label) == pc' = [pc EXCEPT ![r] = label]

Return(r) ==
  /\ GoTo(r, "idle")
  /\ todo' = [todo EXCEPT ![r] = << >>]
  /\ snap' = [snap EXCEPT ![r] = Empty]

-------------------------------------------------------------------------------
\* A writing command commits: at once, and only when nobody has the lock.
Write(changed) ==
  /\ holder = Nobody
  /\ Cardinality(moments) <= MaxWrites
  /\ now' = [t \in Tables |-> IF t \in changed THEN now[t] + 1 ELSE now[t]]
  /\ moments' = moments \cup {now'}
  /\ UNCHANGED <<stored, dirty, holder, file, pc, todo, snap>>

StartReading(r) ==
  /\ GoTo(r, "read")
  /\ todo' = [todo EXCEPT ![r] = BuildOrder]
  /\ snap' = [snap EXCEPT ![r] = Empty]
  /\ UNCHANGED <<tables, stored, dirty, file>>

\* Mutant: init_db finds nothing to write, and leaves no transaction open.
StartUnlocked(r) ==
  /\ r \in CliBuilders /\ pc[r] = "idle"
  /\ holder = Nobody /\ UNCHANGED holder
  /\ StartReading(r)

\* context build: init_db takes the lock.
StartLocked(r) ==
  /\ r \in CliBuilders /\ pc[r] = "idle"
  /\ holder = Nobody /\ holder' = r
  /\ StartReading(r)

\* build() in whatever transaction its caller is in, and export task.
Start(r) ==
  /\ r \notin CliBuilders
  /\ pc[r] \in {"idle", "built"}
  /\ UNCHANGED holder
  /\ StartReading(r)

ReadTable(r) ==
  /\ pc[r] = "read" /\ todo[r] # << >>
  /\ LET t == Head(todo[r]) IN snap' = [snap EXCEPT ![r].read[t] = now[t]]
  /\ todo' = [todo EXCEPT ![r] = Tail(@)]
  /\ UNCHANGED <<tables, stored, dirty, holder, file, pc>>

StartResolving(r) ==
  /\ r \in Builders
  /\ pc[r] = "read" /\ todo[r] = << >>
  /\ GoTo(r, "resolve")
  /\ todo' = [todo EXCEPT ![r] = ResolveOrder]
  /\ UNCHANGED <<tables, stored, dirty, holder, file, snap>>

\* resolve_many: one SELECT per reference, here one step per table.
ResolveTable(r) ==
  /\ pc[r] = "resolve" /\ todo[r] # << >>
  /\ LET t == Head(todo[r]) IN snap' = [snap EXCEPT ![r].resolved[t] = now[t]]
  /\ todo' = [todo EXCEPT ![r] = Tail(@)]
  /\ UNCHANGED <<tables, stored, dirty, holder, file, pc>>

InsertBundle(r, b) ==
  /\ pc[r] = "resolve" /\ todo[r] = << >>
  /\ dirtyBundles[b] = Nothing
  /\ holder \in {r, Nobody} /\ holder' = r
  /\ dirtyBundles' = [dirtyBundles EXCEPT ![b] = [by |-> r, snap |-> snap[r]]]
  /\ GoTo(r, "bundle_inserted")
  /\ UNCHANGED <<tables, stored, dirtySources, file, todo, snap>>

\* A row per reference; nobody else sees the bundle between two of them.
InsertSources(r, b) ==
  /\ pc[r] = "bundle_inserted"
  /\ dirtyBundles[b] # Nothing /\ dirtyBundles[b].by = r /\ b \notin dirtySources
  /\ dirtySources' = dirtySources \cup {b}
  /\ GoTo(r, "built")
  /\ UNCHANGED <<tables, stored, dirtyBundles, holder, file, todo, snap>>

\* The INSERT of the bundle raises after the busy timeout.
BusyTimeout(r) ==
  /\ pc[r] = "resolve" /\ todo[r] = << >>
  /\ holder \notin {r, Nobody}
  /\ Return(r)
  /\ UNCHANGED <<tables, stored, dirty, holder, file>>

Commit(r) ==
  /\ pc[r] = "built"
  /\ bundles' = dirtyBundles /\ sources' = dirtySources
  /\ holder' = Nobody
  /\ Return(r)
  /\ UNCHANGED <<tables, dirty, file>>

\* The export's transaction is over before the file is written.
WriteFile(r) ==
  /\ r \in Exporters
  /\ pc[r] = "read" /\ todo[r] = << >>
  /\ file' = [file EXCEPT ![r] = snap[r].read]
  /\ Return(r)
  /\ UNCHANGED <<tables, stored, dirty, holder>>

\* Mutant: what has been written so far is kept.
AbandonCommits(r) ==
  /\ pc[r] # "idle"
  /\ IF holder = r
     THEN /\ bundles' = dirtyBundles /\ sources' = dirtySources
          /\ holder' = Nobody
     ELSE UNCHANGED <<stored, holder>>
  /\ Return(r)
  /\ UNCHANGED <<tables, dirty, file>>

\* Mutant: the connection is left open, and its transaction with it.
AbandonKeepsLock(r) ==
  /\ pc[r] # "idle"
  /\ Return(r)
  /\ UNCHANGED <<tables, stored, dirty, holder, file>>

\* The process dies, an exception leaves connect(), or the caller rolls back.
Abandon(r) ==
  /\ pc[r] # "idle"
  /\ IF holder = r
     THEN /\ dirtyBundles' = bundles /\ dirtySources' = sources
          /\ holder' = Nobody
     ELSE UNCHANGED <<dirty, holder>>
  /\ Return(r)
  /\ UNCHANGED <<tables, stored, file>>

Next ==
  \/ \E changed \in WriteSets : Write(changed)
  \/ \E r \in Readers :
       \/ StartLocked(r) \/ Start(r) \/ ReadTable(r)
       \/ StartResolving(r) \/ ResolveTable(r) \/ BusyTimeout(r)
       \/ Commit(r) \/ WriteFile(r) \/ Abandon(r)
       \/ \E b \in BundleIds : InsertBundle(r, b) \/ InsertSources(r, b)

Spec == Init /\ [][Next]_vars

-------------------------------------------------------------------------------
(* Properties                                                               *)

\* The variables keep their types; the lock holder is a builder in its build.
TypeOK ==
  /\ now \in Versions /\ now \in moments /\ moments \subseteq Versions
  /\ bundles \in [BundleIds -> Bundles \cup {Nothing}]
  /\ dirtyBundles \in [BundleIds -> Bundles \cup {Nothing}]
  /\ sources \subseteq BundleIds /\ dirtySources \subseteq BundleIds
  /\ holder \in Builders \cup {Nobody}
  /\ file \in [Exporters -> Versions \cup {Nothing}]
  /\ pc \in [Readers -> {"idle", "read", "resolve", "bundle_inserted", "built"}]
  /\ todo \in [Readers -> Seq(Tables)]
  /\ snap \in [Readers -> Snapshots]
  /\ holder # Nobody => pc[holder] # "idle"

\* A snapshot is one moment: the versions it read were committed together once,
\* and the resolver saw the same rows.
IsOneMoment(s) ==
  /\ s.read \in moments
  /\ \A t \in ResolvedTables : s.resolved[t] = s.read[t]

\* What "context build" stores is the state of one moment, in all its parts
\* (INV-032 of docs/specs/invariants.md).
LockedBuildIsOneMoment ==
  \A b \in BundleIds :
    bundles[b] # Nothing /\ bundles[b].by \in CliBuilders => IsOneMoment(bundles[b].snap)

\* A reader without the lock may mix moments, but its task row is never ahead of
\* the rest: whatever was committed up to the change that the row's updated_at
\* shows is in the dashboard, the decisions and the questions beside it.
TaskIsNotAhead(read) ==
  \E m \in moments : m["tasks"] = read["tasks"] /\ \A t \in Tables : m[t] <= read[t]

\* Stored bundles and exported files have no task row that is ahead.
NoTaskIsAhead ==
  /\ \A b \in BundleIds : bundles[b] # Nothing => TaskIsNotAhead(bundles[b].snap.read)
  /\ \A r \in Exporters : file[r] # Nothing => TaskIsNotAhead(file[r])

\* No committed bundle is without the rows of its sources, and there are no
\* rows without a bundle, wherever a build is cut off (INV-033).
BundleIsAuditable == \A b \in BundleIds : bundles[b] # Nothing <=> b \in sources

\* The snapshot of every bundle is one moment, whoever called build() (INV-032):
\* false without the lock.
EveryBundleIsOneMoment ==
  \A b \in BundleIds : bundles[b] # Nothing => bundles[b].snap.read \in moments
=============================================================================
