# agent-taskstate in TLA+

`agent-taskstate` keeps the state of long-running agent tasks in one SQLite
database.  Several processes use that database at once: commands of the CLI, each
a short process, and programs that import the library and use its services on a
connection of their own.  What must not break is the story the database tells:
which status a task has, how it got there, and on what ground.

This directory holds the specifications of that behaviour, their TLC runs and the
TLAPS proofs.  `PROJECT.json` lists the runs, the mutants that each property
must catch, the source lines of every definition, the hazards, the findings and
the theorems.

## 1. The system

Paths are below `src/src/agent_taskstate/`.

| part | state it keeps | operations | what makes it correct |
|---|---|---|---|
| transition tables (`transition_config.py`, `cli/constants.py`) | none | which status may follow which, when a reason is required | the CLI's table is part of the service's |
| `StateTransitionService` (`state_transition.py`) | `tasks.status`, `state_transitions` | `transition`, `record_initial`, `get_history` | status and history are written together; the history is a legal path and only grows |
| connections and `init_db` (`cli/db.py`, `migrations/`) | the transaction, the write lock, the schema | open, migrate, commit, roll back | a command sees and writes one state; it never hangs |
| task commands (`cli/commands/task.py`, `cli/validation.py`) | `tasks` | create, update, set-status, show, list, history | the gates of ready, in_progress, review and done |
| dashboard (`cli/commands/state.py`) | `task_states` with a revision | get, put (insert only), patch (expected revision) | no lost update, harmless retries |
| decisions, questions, runs (`cli/commands/`) | a table each | add, accept, reject, answer, defer, start, finish | closed rows stay closed |
| bundle services (`context_bundle.py`) | `context_bundle(s)`, their sources, a cache in memory | create, add source, build, latest, list | the cache never contradicts the table |
| tracker bridge (`tracker_bridge.py`) | `issue_cache`, `entity_link`, `sync_event`, the external tracker | fetch, link, snapshot, comment, status, suggest | events say what happened outside |
| resolvers (`resolver.py`), typed references (`typed_ref.py`) | none | resolve, parse, format, canonical form | round trips, complete reports |
| export (`cli/commands/export.py`) | a file | export | one moment's state |
| acceptance plugin (`agent_taskstate_workflow_plugin/`) | Markdown files, read only | sync, index | complete reports |

The parts meet in the database.  Three mechanisms decide what an interleaving can
do:

* `connect()` commits when its block ends, rolls back on an exception, and closes.
* `init_db()` runs `UPDATE tasks SET retry_count = 0 WHERE retry_count IS NULL`.
  In Python's `sqlite3` the first `INSERT` or `UPDATE` begins the transaction and
  takes SQLite's only write lock, so everything a writing command reads *after*
  `init_db()` is read under the lock, although nothing in the command says so.
  `task show`, `task history`, `state get`, `decision list`, `question list` and
  `export task` never call it.
* `StateTransitionService.transition()` reads the status with a `SELECT`, which
  takes no lock, and writes later.  A caller that has written nothing before reads
  without the lock.

What is hard here: the interleaving of connections, a death or an error between
two writes, lost answers and retries, checks whose ground moves before they are
used, and rules that are spread over several modules.  `PROJECT.json`, "hazards",
lists each at its line.

## 2. The modules

| module | stands for | state |
|---|---|---|
| `TransitionRules` | both transition tables, the reason rules, the shape of a history | none |
| `StatusLog` | the promise: a status and an append-only history per task, one creation or one legal move at a time | `status`, `log` |
| `TransitionSessions` | the same, statement by statement, on several connections with one write lock | committed tables, the holder's uncommitted tables, lock, each session's program counter, request and what its `SELECT` returned |
| `HistoryTimes` | `TransitionSessions` with the times of the history's rows, for the sessions of the command line | a clock, committed and uncommitted `changed_at`, the earliest time of each session's row |
| `TaskLifecycle` | every writing command on a task and its rows, one step each | status, log, goal, dashboard, decisions, questions, runs; when each was written |
| `Dashboard` | one dashboard and the agents that patch it | the row with its revision, each agent's view and plan |
| `BundleService` | programs that create or build, look up and roll back context bundles with either service, each with its cache | committed and uncommitted bundles, caches, calls in progress, clock |
| `ContextBuild` | `context build`, `build()` in a program and `export task`, one `SELECT` at a time beside other commands | a version number per table, what each reader has read, bundles and sources, files |
| `Resolution` | what `build()` does between its `SELECT`s and its `INSERT`s: resolve every reference, load raw content, report | what is behind each reference, results so far, raw content, the stored bundle |
| `TypedRefs` | `format_ref`, `parse_ref`, `canonicalize_ref` as operators on texts | none |
| `TrackerBridge` | fetches, comments and statuses between the database and an external tracker | the tracker's issues, cache rows, event log, calls in progress |
| `TrackerViews` | `TrackerBridge` with the links, the snapshots and the suggestions of the same programs | committed and uncommitted links, what each reader's `SELECT`s returned |
| `Migration` | `init_db` and `run_migrations` of several processes on one old database | new tables and columns, committed and uncommitted rows, lock, each process's place and the columns it has seen |
| `MC...` | symmetry and data for TLC | |
| `...Proofs` | the theorems | |

`TransitionSessions` and `TaskLifecycle` both implement `StatusLog`
(`INSTANCE StatusLog WITH`, the identity on `status` and `log`, checked as
`ImplementsStatusLog`).  They divide the work:
the first has few data and all the interleavings and shows that a command of the
CLI is atomic; the second relies on that and has one step per command, but all the
rows the gates look at.

How the models correspond to the code:

* A history row keeps `from`, `to` and whether a reason was given.  Actor, run,
  ids and times are left out; `actor_type` is checked before anything is read.
* `AcquireLock` is `init_db`; `CliCheck` and `CliRefuse` are `get_task`,
  `validate_status_transition` and the checks of `transition()`.  They are one
  step because all of them read under the lock.  In `TransitionSessions` the gates
  on other rows may succeed or fail (`GatedStatuses`); `TaskLifecycle!GateOpen`
  is their content.
* `InsertHistory` and `UpdateStatus` are the two writes, in the code's order;
  `InsertTask` and `RecordInitial` those of `task create`.  That `record_initial` leaves a
  first row alone (`state_transition.py:194`) is left out: `task create` never finds one.
* In `TaskLifecycle`, `goalAt`, `dashAt` and `askedAt` say after how many moves through
  its gates (`Entries`) a task's goal, its dashboard and a question were written.  No
  command reads them; `GatesStillHold` tells by them what nobody has written since.
* `Abandon` is a death, an exception or a caller's rollback, at any statement.
  `BusyTimeout` is SQLite's error after 30 seconds.  For a library caller it ends
  the transaction the caller had not yet begun.
* In `HistoryTimes`, `task create` takes the time of its row before it waits for the lock,
  `transition()` between its checks and its `INSERT`; `MayPrecede` is the `ORDER BY` of
  `get_history`, whose second key, a random id, decides nothing.  Callers of the library,
  who may wait for the lock with a time they have taken, are left out.
* A caller of the library may call `transition()` several times in one transaction
  (`ApiCall` from "written"), may have written before (`ApiBegin`), and may keep
  its transaction open.
* In `BundleService`, `CreateBegin` takes the time and `CreateInsert` writes, because
  the `INSERT` may wait for the lock in between; `LatestFind` and `LatestLoad` are
  the `SELECT` of the bundle and that of its sources.  A cached entry is a copy of the
  row.  `Rebuilders` are the programs with a `ContextRebuildService`: they use tables of
  their own (`SameTable`), store a bundle with its sources and put it into a cache that
  has no bound (`BuildInsert`).  `maker` names the service that created a bundle; it is
  what tells the two pairs of tables apart, and the properties speak of it.  `AddSource`
  does not look for its bundle; a source of a bundle that is not there changes no bundle.
* In `ContextBuild` a table is a number that counts the commits to the task's rows in
  it.  `WriteSets` lists the tables that one command changes together: adding a
  decision or a question and writing the dashboard also touch `tasks.updated_at`.
  `StartLocked` is `context build`, whose `init_db` takes the lock; `Start` is the
  rest.  `moments` keeps all states there were, for the properties.
* In `Resolution`, what is behind a reference is "found", "missing" or "unstorable" (an
  answer that `json.dumps` refuses) and may change between any two steps; rows of the
  database only come.  A plugin may claim, answer and raise as it likes; what a built-in
  resolver raises is caught in `resolve_ref`, what a plugin's `can_resolve` raises leaves
  both loops (`Escape`).  `Rows` are what the `SELECT`s may have returned: references to the
  task's own rows, among them one to a decision whose id has a colon, which
  `resolve_ref` refuses, and the two lists of the dashboard.  `odd` are references whose raw
  content `json.dumps` refuses.
* In `TypedRefs`, a text is the sequence of pieces that `split(":")` makes of it, so that
  an id with a colon is one of several pieces.  `Format`, `Parse` and the normal forms
  that the bridge asks for are the code's conditions in the code's order.
* In `TrackerViews`, `LinkIssue` writes what a caller gave it in its canonical form, and the
  `SELECT`s of a snapshot (cache row, last event) and of a suggestion (then the links) are
  a step each.  A key is a text as well: one with a colon is of several pieces, and the
  reference that is made of it is refused by all calls.
* In `TrackerBridge`, `RemoteKey` maps what a caller writes ("#12") to the key with
  which the tracker answers ("owner/repo#12").  `Performed` may end in "failed": the
  tracker did it and its answer was lost.  `Abandon` undoes what the connection
  wrote, never what the tracker did.  Events are in the order of their `INSERT`s.
* In `Migration`, `CREATE` and `ALTER` commit by themselves and `ReadColumns` reads
  without the lock, once; an `ALTER` of a column that has appeared since fails and ends
  the command (`AddColumnFails`).  From `TakeLock` on everything happens in one
  transaction; the steps of the migration are kept apart because a process may die
  between them.  The old database is one of version 1.0.1: any tasks and bundles,
  no history, no diagnostics.  A new database has no rows to migrate and all columns.
  Processes are commands that call `init_db`; those that never do are left out.
* In `Dashboard`, a command is one step; an agent's `StateGet`, `Decide` and
  `StatePatch` are three, and the answer of a `put` or `patch` may be lost.
  `BlindPatch` is a patch with a guessed revision.  Columns hold model values in
  their canonical form.

## 3. The runs

| run | instance | shows |
|---|---|---|
| `sessions_cli` | 1 task, 2 CLI processes, requests until 4 rows, 2 times | types, histories read in the order of the commits, implements `StatusLog` and so the table |
| `sessions_api` | 1 task, 1 CLI process, 1 library caller, requests until 3 rows | status = last row, checks under the lock stay true, append-only, every command returns |
| `sessions_race` | 1 task, 1 CLI process, 2 library callers | violation: an illegal history from two unlocked reads |
| `dashboard` | 3 agents, 2 columns, 2 values, revisions to 4 | revisions identify contents, no lost update, retries are harmless |
| `lifecycle` | 1 task, 1 decision, 1 question, 1 run, history to 4 rows | what a gate asked for still holds until it is written again, closed questions and finished runs stay so, implements `StatusLog` |
| `bundles` | 2 bundle services, 1 rebuild service, 2 tasks, 2 bundles, 1 source, caches of 1 entry, 2 times | caches are bounded, a service sees its own bundles, drafts are remembered by their maker only, stored bundles stay |
| `bundle_sources` | the same | violation: the cached bundle misses a source |
| `builds` | 1 CLI build, 1 library build, 1 export, 2 bundles, 1 other commit | a locked build is one moment, no task row is ahead of the rows beside it, no bundle without sources |
| `builds_mixed` | 1 library build, 1 other commit | violation: a snapshot of a state that never was |
| `migration` | 3 processes, 2 tasks, 2 bundles, 1 table, 2 columns, history to 3 rows | the rows are migrated as a whole and once, no command that calls `init_db` works on rows that are not |
| `references` | 3 built-in resolvers and a plugin, 6 tasks of up to 4 references | a bundle is complete or says that it is partial, raw content belongs to a source, every build is stored if what it stores can be written as JSON |
| `bridge` | 2 bridges, 1 issue with 2 keys, one with a colon, 4 spellings of references, 1 link | a cache row and its event stand together, claimed comments were posted, a fetch under the lock does not go back, links are stored in one form, events lead back or nowhere, snapshots and suggestions fit together |

Bounds.  `MaxHistory` stops *requests* on a task with that many rows; sessions that
have asked already go on, so one more row per session arises.  One row and two
open requests is what it takes for a row to start from the wrong status.
Two times, with rows that may share one, are what two rows in the wrong order need.
In `lifecycle` four rows reach from
draft to review (draft, ready, in_progress, review), and tasks that start further
along are closed, reopened and archived.  Four revisions let three agents read,
overtake each other and retry.  A cache of one entry is full as soon as a second task
is looked up, and two times, with steps between which the clock need not tick, give bundles that tie,
follow and overtake each other.  One other commit splits what a reader
sees into a part before it and a part after it.  In `bridge`, two events per bridge, calls
under way included, allow a success and a failure under both keys; one link is stored in
one spelling and looked up in the others of its key.  The tasks of `references` hold, beside
good references, one that is none, one in the old form, one without a fetcher, one
without an adapter and an own one that is refused, and the same reference twice in two forms.

Fairness.  Two runs check a liveness property.  `sessions_api` does so under weak fairness of
each CLI process (`CliStep`): a process that has started keeps running, and the
busy handler gives up after its timeout.  Nothing is assumed of library callers,
which may hold the lock for ever, nor of `Abandon` or of new requests.  `references`
assumes weak fairness of the steps of `build()` (`BuildStep`): it is a loop over a
finite list, and a resolver answers or raises.  `BuildIsStored` supposes besides that
answers can be written as JSON, because `build()` raises for others.
`CHECK_DEADLOCK` is left on everywhere.

## 4. The proofs

`TransitionSessionsProofs` is about any set of tasks and sessions.

* `TypeCorrect`: the type invariant.
* `CheckUnderLockIsCurrent` and `StatusAndHistoryAgree` rest on an inductive
  invariant that relates the holder's uncommitted tables to its program counter:
  with no holder they equal the committed ones, and between the two writes the
  last uncommitted row, not the uncommitted status, is what the request asked for.
  `StatusIsLastEntry` alone is not inductive, because `Commit` publishes the
  uncommitted tables.
* `HistoryIsAppendOnly`: the uncommitted history always extends the committed one.
* `CliImplementsStatusLog` holds when there are no library callers (`OnlyCli`): a session
  that is past its check then holds the lock, its uncommitted tables are the committed
  ones plus exactly its request, and `Commit` is a step of `StatusLog`; every other step
  stutters.  With library callers it is false, which `sessions_race` shows.
* `PromiseExplainsStatus` is about `StatusLog` alone: what it promises implies that every
  history is a legal path which ends in the status and only grows.  `CliHistoryIsPath`
  follows from the two.
* `LockedCallersKeepPaths` says who is not exposed to that race: any number of library
  callers, as long as each has the lock when `transition()` reads the status
  (`ChecksUnderLock`, a discipline which the code does not enforce).  `DisciplineInv`, for
  all sessions, keeps the histories legal in the uncommitted tables too, and what has been
  checked legal until it is written.
* `CliCommandsAreFinite`, the safety half of `CliCommandReturns`: each statement lowers
  `StatementsLeft`, and no other session raises it.
* `ReadsInOrder`, about `HistoryTimes`: `TimesInv` says that a command between its check and
  its `INSERT` sees only rows from before its check, because it holds the lock.
  `TimesTypeCorrect` and `TimesImplementStatusLog` carry the types and the refinement over
  to the sessions with times.
* `CliWithinService`: the CLI's table is part of the service's.

`TaskLifecycleProofs` proves all four properties of the run `lifecycle` for any tasks,
decisions, questions and runs.  Every command writes the status and its history row in one
step, so `ImplementsStatusLog` is a case split over the commands.  `GatesStillHold` compares
when something was written with how often the task has moved since (`EntriesAppend`: a move
counts for the gates it goes through); `GateInv` adds to it that a task which does not exist
has no history, so that a creation is no move.

`TrackerBridgeProofs` proves the types, `CachedAsReported` and `CommentsWerePosted` for any bridges
and keys.  `CachedAsReported` is not inductive: between the two writes of a fetch the
uncommitted row has no event yet.  `ReportInv` says who may be in that place, the
lock holder only, and that its call, which is not over, keeps it from committing.
`EventsAreKept` says that the log is only added to.  `LockedFetchesGoForward` is about two
fetches of one issue: if a bridge has the lock when the tracker answers
(`FetchesUnderLock`; commands of the CLI do, `init_db` takes it), the cached version never
goes back, because the row that will be replaced is the one that was there at the answer
(`ForwardInv`).  Without the lock TLC finds the older answer written last.
`AnswersUnderLock` says the same of one fetch without any discipline: a bridge that has had
the lock since the tracker answered does not replace a row by an older one (`FreshInv`).
About `TrackerViews` it proves that a snapshot knows its synchronisation and that what is
read under the lock is current, and about `TypedRefs`, for any pieces, that a stored
reference is in its canonical form and that what was formatted is never read as something
else; the event of a key leads back to it if and only if the key has no colon.

`ContextBuildProofs` proves `TypeCorrect`, `LockedBuild`, `Auditable` and `NobodyIsAhead` for any builders,
exporters and bundles and any number of other commands.  `LockedBuildIsOneMoment` needs
to be carried back to the `SELECT`s: `ReadInv` says that every table which a CLI
build has read, or has resolved, still has the version it read, because `LockInv` gives
the build the lock from its start, and `MomentInv` keeps what has been inserted.
For `BundleIsAuditable` the uncommitted tables count: `AuditInv` allows the lock holder
one bundle without sources, and only between the two inserts, where it cannot commit.
`NoTaskIsAhead` holds without the lock as well, because the task's row is read first: the
moment that row is of (`AheadInv`) is not later than what is read of any other table
afterwards, since versions only grow.

`BundleServiceProofs` proves all five properties of the run `bundles` for any services, tasks,
bundles and cache sizes.  `OwnBundleIsSeen` is carried by what a service has looked up and
not loaded yet as well as by its cache: no bundle of its own is newer than either, because a
service has one call at a time and drops the entry when it creates a bundle.
`EarlySourcesAreListed` is the counterpart of the run `bundle_sources`: where every source
comes in the transaction that creates its bundle, and before the service asks for it
(`SourcesFirst`, as the tests of the repository do), the latest bundle lists its sources.
`CopyInv` needs that committed bundles then never change, not even in uncommitted tables.
`OnlyOwnDraftsAreCached` rests on the lock: what a service sees and did not make is
committed, or was made by itself in the same transaction.

`ResolutionProofs` proves the safety properties of the run `references` for any resolvers,
plugins, tasks and references.  `CompleteUnlessPartial` is not inductive, because it is about the
stored bundle; `ReportInv` says of every place in the build how far the results are those
of the references in their order, that whatever was cut short by an exception is on
record, and that raw content was loaded for resolved references only; `Store` then
publishes it.  The loop that selects the references of a kind is a recursive function;
`OfKindIsFilter` proves by induction over the length that it returns exactly those
references, in order.  (The induction is over a set of counterexamples and its least number,
`LeastNumber`, because a theorem with an operator as parameter cannot be used.)  Of
`BuildIsStored` the proofs have all but the fairness: `EveryReferenceIsAnswered`,
`BuildsAreFinite` (the variant `StepsLeft`) and `JsonIsStored`.

`MigrationProofs` proves `TypeCorrect`, `WholeMigration` and `MigratedFirst` for any
processes that call `init_db`, any tasks, bundles, tables and columns.  `MigratedAsOne` is about committed rows;
`RowsInv` says for each place in the transaction how far the uncommitted ones are,
`LockInv` that only the lock holder is in such a place, so that what the version row
says when it is read is still true when the backfill runs.

`DashboardProofs` proves the properties of `Dashboard` for any agents, columns
and values.

The assumptions are the `ASSUME`s of the modules: on the kinds of the sessions
(`SessionsAssumption`), the model values that stand for "none" (`DashboardAssumption`,
`LifecycleAssumption`, `NoCallAssumption`), the sets that must not overlap
(`BuildAssumption`, `BundleAssumption`, `BridgeAssumption`, `MigrationAssumption`), what
`lower()` does to a piece (`PiecesAssumption`, `InvalidAssumption`, `SamplesAssumption`),
the references of the bridge (`ViewsAssumption`) and the list of resolvers
(`ResolutionAssumption`).  TLC evaluates each in a run, and also `TimesAssumption`, which no
proof needs.

Some theorems suppose something of the callers besides, and say so in their statements:
`OnlyCli`, and the disciplines `ChecksUnderLock`, `SourcesFirst` and `FetchesUnderLock`;
`JsonIsStored` supposes that answers can be written as JSON.  TLC found `ReportInv`,
`DisciplineInv`, `CopyInv` and `ForwardInv` to hold on small instances, the last three
under their disciplines, before they were proved.

Model-checked only: `CliCommandReturns` and `BuildIsStored`, which are liveness: that a
process which can go on does go on is fairness, and that it can is `ENABLED`.

## 5. Findings

* Two callers of `StateTransitionService` that read before they write can commit a
  history that is no path of the table (`sessions_race`); callers that take the lock first
  cannot (`LockedCallersKeepPaths`).
* The cache of the latest bundle goes on without a source that was added
  (`bundle_sources`), unless all sources come with the bundle (`EarlySourcesAreListed`).
* `build()` outside of a transaction stores a snapshot of a state that never was
  (`builds_mixed`).

Where the documents disagree with the code, or with each other, the models follow the code:

* A task that is done can be reopened and archived (`transition_config.py:44`,
  `cli/constants.py:63`), as `docs/agent-taskstate_mvp_spec.md:226` has it.  INV-050
  (`docs/specs/invariants.md:345`), `docs/specs/state-machine.md:195` and `:489` and
  `docs/specs/service-boundaries.md:119` forbid leaving a terminal status.
* Every move to done, cancelled or archived needs a reason (`transition_config.py:48-55`).
  `docs/tests/task.feature:257-275` moves review to done and done to archived without
  one, and `docs/src/agent-taskstate_mvp_spec.md:204-218` asks for one only of
  draft to archived and done to in_progress.
* `state put` is insert-only, as `README.md:14` of the repository promises;
  `docs/tests/state.feature:33-55` still has it overwrite the dashboard and reset its revision
  to 1.

The run `lifecycle` passes on the first two because `StatusLog` promises the moves of the
code's tables.

Seen in the code and not shown by a run:

* A run can be started on a closed task (`cli/commands/run.py:27` asks only that the task
  exists; INV-051, `docs/specs/invariants.md:349`, has it refused by default).
* A task moves to done with open questions (`cli/validation.py:173`, INV-041) and can be
  created in done (`cli/commands/task.py:76`).
* The new columns of an old `tasks` table are committed one by one, not "transactionally"
  (`README.md:11`), and the second of two processes that add them fails (`cli/db.py:140`).
* A bundle that was rolled back stays in the cache of the service that made it
  (`context_bundle.py:457`, `:859`); `OnlyOwnDraftsAreCached` says that it goes no further.
* A reference of the dashboard that cannot be parsed is dropped without a diagnostic
  (`context_bundle.py:705`), so a bundle may be complete without it; an answer or raw content
  of a resolver that is no JSON makes `build()` raise (`context_bundle.py:786`); no fetcher of memx serves
  an `artifact` (`resolver.py:346`).
* GitHub's adapter reports success for a status that it ignores (`tracker_bridge.py:283`);
  a failure under another key of an issue does not show in its snapshot
  (`tracker_bridge.py:660`); a comment may be posted and its event never be committed
  (`tracker_bridge.py:712`).
* Links are looked up by the text of their reference, not by the issue: a link that was
  made under the key `#1` is not found under `acme/x#1`, and no suggestion is made from it
  for the row that is cached under the other key (`tracker_bridge.py:574`, `:599`).
* A key with a colon is fetched, cached and logged under a reference that no call accepts
  (`tracker_bridge.py:517`, `typed_ref.py:77`).
* A decision may be accepted after it was rejected, and rejected after it was accepted; an
  answered question may be deferred (`cli/commands/decision.py:67`, `question.py:79`).
* Of two bundles with one `generated_at` either may be the latest, and a bundle that waited for
  the lock counts as older than one that was committed before it (`context_bundle.py:432`).
* Of two fetches of an issue that are made without the lock, the older answer may be
  written last (`tracker_bridge.py:517`).

## 6. What is left

Planned:

1. The order of the histories that callers of the library write, and `tasks.updated_at`,
   which most commands take before they wait for the lock.  All models with times have
   one clock that never goes back; several clocks are not modelled anywhere.
2. Databases whose program ran `SCHEMA_SQL` and never `init_db`, in `Migration`.
3. `AcceptanceSync`: the comparison of the acceptance plugin as an operator.

Not modelled: connections of the bridge with their secrets and the commands that only
list; a local resolver without a connection, the legacy names of its tables, and
`should_include_raw` and `load_summary`, which `build()` does not call; indexes; custom
transition tables.  Not to be modelled: the parser, the output of JSON, row conversion,
compression and the clients of external trackers, which keep no state of their own.
