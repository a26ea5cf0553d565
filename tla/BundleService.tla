---------------------------- MODULE BundleService ----------------------------
(****************************************************************************)
(* The two services that keep context bundles: ContextBundleService with    *)
(* the tables context_bundle and context_bundle_source, and                 *)
(* ContextRebuildService with context_bundles and context_bundle_sources.   *)
(* Each program has one of them, on a connection of its own, with a cache   *)
(* of the latest bundle of a task in memory.                                *)
(*                                                                          *)
(* A bundle takes its time before its INSERT waits for the write lock, and  *)
(* get_latest_bundle finds a bundle in one SELECT and loads its sources in  *)
(* a later one, so other connections may commit in between.  A rollback and *)
(* a commit of somebody else leave the cache as it is.  What build() reads  *)
(* before it stores a bundle is in ContextBuild and Resolution.             *)
(****************************************************************************)
EXTENDS Naturals, Sequences

CONSTANTS
  Services,    \* one process each
  Rebuilders,  \* those that use ContextRebuildService
  Tasks,
  BundleIds,   \* what gen_id may return, each id once
  Refs,        \* typed references of sources
  CacheMax,    \* _cache_max_size
  MaxTime,     \* bound on the clock
  NoBundle, NoService, NoCall

Bundles == [task : Tasks, at : Nat, refs : SUBSET Refs]

\* A cached bundle is a copy: later sources do not reach it.
Entries == [id : BundleIds, task : Tasks, at : Nat, refs : SUBSET Refs]

\* A call that has begun: create_bundle and build have their time, get_latest_bundle
\* its id.
Calls == [op : {"create"}, task : Tasks, at : Nat]
           \cup [op : {"latest"}, task : Tasks, id : BundleIds]

ASSUME BundleAssumption ==
  /\ Rebuilders \subseteq Services
  /\ NoBundle \notin Bundles /\ NoService \notin Services /\ NoCall \notin Calls
  /\ CacheMax \in Nat \ {0} /\ MaxTime \in Nat

VARIABLES
  stored, dirty, holder,  \* committed rows, the rows the lock holder sees, the holder
  cache, call,            \* of each service
  maker,                  \* of each id: the service that gen_id returned it to
  clock

dbVars == <<stored, dirty, holder>>
vars == <<stored, dirty, holder, cache, call, maker, clock>>

Init ==
  /\ stored = [b \in BundleIds |-> NoBundle] /\ dirty = stored
  /\ holder = NoService
  /\ cache = [s \in Services |-> << >>]
  /\ call = [s \in Services |-> NoCall]
  /\ maker = [b \in BundleIds |-> NoService] /\ clock = 0

-------------------------------------------------------------------------------
VisibleTo(s) == IF holder = s THEN dirty ELSE stored

\* The tables of the other service are not asked.
SameTable(b, s) == maker[b] \in Rebuilders <=> s \in Rebuilders

Sees(s, b) == VisibleTo(s)[b] # NoBundle /\ SameTable(b, s)

HasOrTakesLock(s) == holder \in {s, NoService} /\ holder' = s

Idle(s) == call[s] = NoCall
InCall(s, op) == ~Idle(s) /\ call[s].op = op
Return(s) == call' = [call EXCEPT ![s] = NoCall]

IsCached(t, entries) == \E i \in 1..Len(entries) : entries[i].task = t

\* WHERE task_id = ? ORDER BY generated_at DESC: a tie may go either way.
Newest(s, t) ==
  LET ofTask == {b \in BundleIds : Sees(s, b) /\ VisibleTo(s)[b].task = t}
  IN  {b \in ofTask : \A c \in ofTask : VisibleTo(s)[c].at <= VisibleTo(s)[b].at}

EntryOf(b, row) == [id |-> b, task |-> row.task, at |-> row.at, refs |-> row.refs]

\* del self._latest_cache[task_id], if there is such a key; a task is a key once.
Without(entries, t) ==
  IF IsCached(t, entries)
  THEN LET i == CHOOSE j \in 1..Len(entries) : entries[j].task = t
       IN  SubSeq(entries, 1, i - 1) \o SubSeq(entries, i + 1, Len(entries))
  ELSE entries

\* Mutant: the size is checked after the entry was counted in.
RememberOneMore(s, entries, e) ==
  Append(IF s \notin Rebuilders /\ Len(entries) > CacheMax THEN Tail(entries) ELSE entries, e)

\* The dictionary keeps the order of insertion; the first key goes when it is full.  The
\* cache of ContextRebuildService is never full.
Remember(s, entries, e) ==
  Append(IF s \notin Rebuilders /\ Len(entries) >= CacheMax THEN Tail(entries) ELSE entries, e)

-------------------------------------------------------------------------------
CreateBegin(s, t) ==
  /\ Idle(s)
  /\ call' = [call EXCEPT ![s] = [op |-> "create", task |-> t, at |-> clock]]
  /\ UNCHANGED <<dbVars, cache, maker, clock>>

NewRow(s, refs) == [task |-> call[s].task, at |-> call[s].at, refs |-> refs]

\* Mutant: only the latest bundle of a task is kept.
InsertReplaces(s, b, refs) ==
  /\ InCall(s, "create") /\ maker[b] = NoService
  /\ HasOrTakesLock(s)
  /\ dirty' = [c \in BundleIds |->
                 IF c = b THEN NewRow(s, refs)
                 ELSE IF Sees(s, c) /\ dirty[c].task = call[s].task THEN NoBundle ELSE dirty[c]]
  /\ maker' = [maker EXCEPT ![b] = s]
  /\ Return(s)
  /\ UNCHANGED <<stored, clock>>

\* The INSERTs: sources come with the bundle or later.
InsertAs(s, b, refs) ==
  /\ InCall(s, "create") /\ maker[b] = NoService
  /\ HasOrTakesLock(s)
  /\ dirty' = [dirty EXCEPT ![b] = NewRow(s, refs)]
  /\ maker' = [maker EXCEPT ![b] = s]
  /\ Return(s)
  /\ UNCHANGED <<stored, clock>>

\* Mutant: the cache is not told of the new bundle.
CreateInsertKeepsCache(s, b) ==
  /\ s \notin Rebuilders
  /\ InsertAs(s, b, {})
  /\ UNCHANGED cache

CreateInsert(s, b) ==
  /\ s \notin Rebuilders
  /\ InsertAs(s, b, {})
  /\ cache' = [cache EXCEPT ![s] = Without(@, call[s].task)]

\* build() puts what it stored into the cache, for the entry there was.
BuildInsert(s, b, refs) ==
  /\ s \in Rebuilders
  /\ InsertAs(s, b, refs)
  /\ cache' = [cache EXCEPT ![s] =
                 Append(Without(@, call[s].task), EntryOf(b, NewRow(s, refs)))]

\* The INSERT raises: the lock was not free for the connection's timeout.
CreateFails(s) ==
  /\ InCall(s, "create")
  /\ holder \notin {s, NoService}
  /\ Return(s)
  /\ UNCHANGED <<dbVars, cache, maker, clock>>

\* The bundle is not looked up and the cache not touched.  A source for a bundle that the
\* service's table does not have becomes a row no lookup reads, or an error where foreign
\* keys are on; the INSERT has begun a transaction all the same.
AddSource(s, b, r) ==
  /\ s \notin Rebuilders
  /\ Idle(s)
  /\ HasOrTakesLock(s)
  /\ dirty' = IF Sees(s, b) THEN [dirty EXCEPT ![b].refs = @ \cup {r}] ELSE dirty
  /\ UNCHANGED <<stored, cache, call, maker, clock>>

\* Mutant: no "if not row: return None" after the first SELECT.
LatestFindUnchecked(s, t) ==
  /\ Idle(s) /\ ~IsCached(t, cache[s])
  /\ \E b \in Newest(s, t) \cup {NoBundle} :
       call' = [call EXCEPT ![s] = [op |-> "latest", task |-> t, id |-> b]]
  /\ UNCHANGED <<dbVars, cache, maker, clock>>

\* get_latest_bundle when the cache has no entry of the task; when it has one,
\* the entry is the answer and nothing changes.
LatestFind(s, t) ==
  /\ Idle(s) /\ ~IsCached(t, cache[s])
  /\ \E b \in Newest(s, t) :
       call' = [call EXCEPT ![s] = [op |-> "latest", task |-> t, id |-> b]]
  /\ UNCHANGED <<dbVars, cache, maker, clock>>

\* Mutant: _latest_cache is an attribute of the class, and the services share a process.
LatestLoadForAll(s) ==
  /\ InCall(s, "latest")
  /\ LET b == call[s].id
     IN  cache' = [q \in Services |->
                     IF q \in Rebuilders <=> s \in Rebuilders
                     THEN Remember(s, Without(cache[q], call[s].task), EntryOf(b, VisibleTo(s)[b]))
                     ELSE cache[q]]
  /\ Return(s)
  /\ UNCHANGED <<dbVars, maker, clock>>

LatestLoad(s) ==
  /\ InCall(s, "latest")
  /\ LET b == call[s].id
     IN  cache' = [cache EXCEPT ![s] = Remember(s, @, EntryOf(b, VisibleTo(s)[b]))]
  /\ Return(s)
  /\ UNCHANGED <<dbVars, maker, clock>>

ClearCache(s) ==
  /\ Idle(s)
  /\ cache' = [cache EXCEPT ![s] = << >>]
  /\ UNCHANGED <<dbVars, call, maker, clock>>

-------------------------------------------------------------------------------
(* The program around the service                                           *)

Commit(s) ==
  /\ holder = s /\ Idle(s)
  /\ stored' = dirty /\ holder' = NoService
  /\ UNCHANGED <<dirty, cache, call, maker, clock>>

Rollback(s) ==
  /\ holder = s /\ Idle(s)
  /\ dirty' = stored /\ holder' = NoService
  /\ UNCHANGED <<stored, cache, call, maker, clock>>

\* The process dies and is started again.
Restart(s) ==
  /\ IF holder = s THEN dirty' = stored /\ holder' = NoService
                   ELSE UNCHANGED <<dirty, holder>>
  /\ cache' = [cache EXCEPT ![s] = << >>]
  /\ Return(s)
  /\ UNCHANGED <<stored, maker, clock>>

\* Two calls may also see the same time.
Tick ==
  /\ clock < MaxTime /\ clock' = clock + 1
  /\ UNCHANGED <<dbVars, cache, call, maker>>

Next ==
  \/ \E s \in Services :
       \/ CreateFails(s) \/ LatestLoad(s) \/ ClearCache(s)
       \/ Commit(s) \/ Rollback(s) \/ Restart(s)
       \/ \E t \in Tasks : CreateBegin(s, t) \/ LatestFind(s, t)
       \/ \E b \in BundleIds :
            \/ CreateInsert(s, b)
            \/ \E refs \in SUBSET Refs : BuildInsert(s, b, refs)
            \/ \E r \in Refs : AddSource(s, b, r)
  \/ Tick

Spec == Init /\ [][Next]_vars

-------------------------------------------------------------------------------
(* Properties                                                               *)

\* The variables keep their types.
TypeOK ==
  /\ stored \in [BundleIds -> Bundles \cup {NoBundle}]
  /\ dirty \in [BundleIds -> Bundles \cup {NoBundle}]
  /\ holder \in Services \cup {NoService}
  /\ cache \in [Services -> Seq(Entries)]
  /\ call \in [Services -> Calls \cup {NoCall}]
  /\ maker \in [BundleIds -> Services \cup {NoService}] /\ clock \in Nat

\* A cache has one entry per task, and that of a ContextBundleService at most
\* _cache_max_size: what is evicted to make room is never the entry that was asked for.
CacheIsBounded ==
  \A s \in Services :
    /\ s \notin Rebuilders => Len(cache[s]) <= CacheMax
    /\ \A i, j \in 1..Len(cache[s]) : cache[s][i].task = cache[s][j].task => i = j

\* A service that created a bundle is never answered with an older one of the
\* task, whatever it cached, committed or rolled back before ("Invalidate cache
\* for this task" in create_bundle).
OwnBundleIsSeen ==
  \A s \in Services : \A i \in 1..Len(cache[s]) : \A b \in BundleIds :
    LET entry == cache[s][i]
        row == VisibleTo(s)[b]
    IN row # NoBundle /\ maker[b] = s /\ row.task = entry.task => row.at <= entry.at

\* A bundle that is cached before its transaction is over, and then rolled back, is
\* remembered by the service that made it and by nobody else: the caches of the others
\* hold committed bundles of their own table, and those stay.
OnlyOwnDraftsAreCached ==
  \A s \in Services : \A i \in 1..Len(cache[s]) :
    LET b == cache[s][i].id IN
      maker[b] # s => /\ stored[b] # NoBundle /\ SameTable(b, s)
                      /\ stored[b].task = cache[s][i].task /\ stored[b].at = cache[s][i].at

\* A committed bundle is never changed, and loses no source, by any commit.
StoredForGood ==
  [][\A b \in BundleIds :
       stored[b] # NoBundle =>
         /\ stored'[b] # NoBundle
         /\ stored'[b].at = stored[b].at /\ stored'[b].task = stored[b].task
         /\ stored[b].refs \subseteq stored'[b].refs]_vars

\* The latest bundle lists the sources it has (what 02-agent-taskstate-state-
\* history-and-bundle-audit.md asks of the latest bundle): false, for a source
\* that is added while the bundle is cached.
LatestListsItsSources ==
  \A s \in Services : \A i \in 1..Len(cache[s]) :
    LET row == VisibleTo(s)[cache[s][i].id] IN
      row # NoBundle => cache[s][i].refs = row.refs
=============================================================================
