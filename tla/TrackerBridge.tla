---------------------------- MODULE TrackerBridge ----------------------------
(****************************************************************************)
(* TrackerBridgeService: programs that copy issues of an external tracker   *)
(* into issue_cache, post comments and statuses to it, and keep a log of    *)
(* what they did in sync_event.                                             *)
(*                                                                          *)
(* A call asks the tracker first and writes afterwards, in the transaction  *)
(* of its caller: the tracker may change, the answer may be lost, and what  *)
(* was written may be rolled back, none of which undoes what the tracker    *)
(* did.  A key is what callers write for an issue; the tracker answers with *)
(* the one key it uses itself ("#12" and "owner/repo#12" are one issue).    *)
(* Events come back in the order of their INSERTs; titles and texts are a   *)
(* version number; links and what is read are in TrackerViews, connections  *)
(* are left out.                                                            *)
(****************************************************************************)
EXTENDS Naturals, Sequences, FiniteSets

CONSTANTS
  Bridges,       \* services, each on a connection of its own
  Keys,          \* texts, see TypedRefs: TrackerViews makes references of them
  RemoteKey,     \* the key with which the tracker answers for a key
  MaxVersion,    \* bound on the changes of an issue
  MaxEvents,     \* bound on the events a bridge sees and the calls under way when it begins one
  MaxDone,       \* bound on what the tracker has been asked to do
  NoRow, NoBridge, NoCall

Issues == {RemoteKey[k] : k \in Keys}
Outbound == {"post_comment", "update_status"}
Actions == {"fetch"} \cup Outbound

ASSUME BridgeAssumption ==
  /\ IsFiniteSet(Bridges)
  /\ RemoteKey \in [Keys -> Keys]
  /\ \A k \in Keys : RemoteKey[RemoteKey[k]] = RemoteKey[k]
  /\ MaxVersion \in Nat /\ MaxEvents \in Nat /\ MaxDone \in Nat
  /\ NoRow \notin Nat /\ NoBridge \notin Bridges

\* issue_ref is made of key; ok is SyncStatus, the direction follows from action.
Events == [key : Keys, action : Actions, ok : BOOLEAN]

\* at: "asked" until the tracker answers, "failed" or "done" after it did, and
\* "cached" between the two writes of a fetch.  version is what was fetched.
Calls == [action : Actions, key : Keys, version : Nat,
          at : {"asked", "failed", "done", "cached"}]

ASSUME NoCallAssumption == NoCall \notin Calls

VARIABLES
  remote, done,              \* the tracker: version of an issue, and how often it
                             \* did what an outbound action asks
  cache, events,             \* committed rows
  dirtyCache, dirtyEvents, holder,  \* the same as the lock holder sees them
  call                       \* of each bridge

tracker == <<remote, done>>
stored == <<cache, events>>
dirty == <<dirtyCache, dirtyEvents>>
vars == <<tracker, stored, dirty, holder, call>>

Init ==
  /\ remote = [i \in Issues |-> 0]
  /\ done = [i \in Issues |-> [a \in Outbound |-> 0]]
  /\ cache = [i \in Issues |-> NoRow] /\ dirtyCache = cache
  /\ events = << >> /\ dirtyEvents = events
  /\ holder = NoBridge
  /\ call = [b \in Bridges |-> NoCall]

-------------------------------------------------------------------------------
EventsSeenBy(b) == IF holder = b THEN dirtyEvents ELSE events

Idle(b) == call[b] = NoCall
IsAt(b, place) == ~Idle(b) /\ call[b].at = place
MoveTo(b, place) == call' = [call EXCEPT ![b].at = place]
Return(b) == call' = [call EXCEPT ![b] = NoCall]

HasOrTakesLock(b) == holder \in {b, NoBridge} /\ holder' = b

\* _record_sync_event
RecordEvent(k, action, ok) ==
  dirtyEvents' = Append(dirtyEvents, [key |-> k, action |-> action, ok |-> ok])

-------------------------------------------------------------------------------
(* The external tracker and its adapter                                     *)

\* Somebody works on the issue there.
RemoteChange(i) ==
  /\ remote[i] < MaxVersion
  /\ remote' = [remote EXCEPT ![i] = @ + 1]
  /\ UNCHANGED <<done, stored, dirty, holder, call>>

Fetched(b) ==
  /\ IsAt(b, "asked") /\ call[b].action = "fetch"
  /\ call' = [call EXCEPT ![b].at = "done", ![b].version = remote[RemoteKey[call[b].key]]]
  /\ UNCHANGED <<tracker, stored, dirty, holder>>

\* The tracker does what was asked; its answer may not arrive, which the
\* adapter reports as False.
Performed(b) ==
  /\ IsAt(b, "asked") /\ call[b].action \in Outbound
  /\ done' = [done EXCEPT ![RemoteKey[call[b].key]][call[b].action] = @ + 1]
  /\ MoveTo(b, "done") \/ MoveTo(b, "failed")
  /\ UNCHANGED <<remote, stored, dirty, holder>>

\* GitHub's adapter knows "open" and "closed"; for another status it does
\* nothing and reports True.
StatusIgnored(b) ==
  /\ IsAt(b, "asked") /\ call[b].action = "update_status"
  /\ MoveTo(b, "done")
  /\ UNCHANGED <<tracker, stored, dirty, holder>>

\* No adapter, no such issue, or an error on the way.
Failed(b) ==
  /\ IsAt(b, "asked")
  /\ MoveTo(b, "failed")
  /\ UNCHANGED <<tracker, stored, dirty, holder>>

-------------------------------------------------------------------------------
(* The service                                                              *)

\* Mutant: a comment is taken for posted when it has been sent off.
BeginWithoutWaiting(b, k, action) ==
  /\ Idle(b) /\ Len(EventsSeenBy(b)) + Cardinality({c \in Bridges : ~Idle(c)}) < MaxEvents
  /\ action \in Outbound => done[RemoteKey[k]][action] < MaxDone
  /\ call' = [call EXCEPT ![b] =
                [action |-> action, key |-> k, version |-> 0,
                 at |-> IF action = "post_comment" THEN "done" ELSE "asked"]]
  /\ UNCHANGED <<tracker, stored, dirty, holder>>

\* fetch_issue, post_outbound_comment and update_outbound_status begin.
Begin(b, k, action) ==
  /\ Idle(b) /\ Len(EventsSeenBy(b)) + Cardinality({c \in Bridges : ~Idle(c)}) < MaxEvents
  /\ action \in Outbound => done[RemoteKey[k]][action] < MaxDone
  /\ call' = [call EXCEPT ![b] =
                [action |-> action, key |-> k, version |-> 0, at |-> "asked"]]
  /\ UNCHANGED <<tracker, stored, dirty, holder>>

\* Mutant: every statement commits.
CacheIssueAutocommit(b) ==
  /\ IsAt(b, "done") /\ call[b].action = "fetch"
  /\ holder \in {b, NoBridge} /\ holder' = NoBridge
  /\ dirtyCache' = [dirtyCache EXCEPT ![RemoteKey[call[b].key]] = call[b].version]
  /\ cache' = dirtyCache' /\ events' = dirtyEvents
  /\ MoveTo(b, "cached")
  /\ UNCHANGED <<tracker, dirtyEvents>>

\* INSERT OR REPLACE under the tracker's own key.
CacheIssue(b) ==
  /\ IsAt(b, "done") /\ call[b].action = "fetch"
  /\ HasOrTakesLock(b)
  /\ dirtyCache' = [dirtyCache EXCEPT ![RemoteKey[call[b].key]] = call[b].version]
  /\ MoveTo(b, "cached")
  /\ UNCHANGED <<tracker, stored, dirtyEvents>>

\* Mutant: the event is written without an issue_ref.
RecordFetchWithoutRef(b) ==
  /\ IsAt(b, "cached")
  /\ HasOrTakesLock(b)
  /\ RecordEvent(NoRow, "fetch", TRUE)
  /\ Return(b)
  /\ UNCHANGED <<tracker, stored, dirtyCache>>

RecordFetch(b) ==
  /\ IsAt(b, "cached")
  /\ HasOrTakesLock(b)
  /\ RecordEvent(RemoteKey[call[b].key], "fetch", TRUE)
  /\ Return(b)
  /\ UNCHANGED <<tracker, stored, dirtyCache>>

\* A failed fetch and both results of an outbound call, under the key that was
\* asked for.
RecordResult(b) ==
  /\ \/ IsAt(b, "failed")
     \/ IsAt(b, "done") /\ call[b].action \in Outbound
  /\ HasOrTakesLock(b)
  /\ RecordEvent(call[b].key, call[b].action, call[b].at = "done")
  /\ Return(b)
  /\ UNCHANGED <<tracker, stored, dirtyCache>>

\* The events of one action about an issue, whatever key they were recorded under.
EventsAbout(i, action) ==
  {n \in 1..Len(events) : RemoteKey[events[n].key] = i /\ events[n].action = action}

-------------------------------------------------------------------------------
(* The program around the service                                           *)

\* Mutant: a command takes the lock when the tracker has answered.
LockAfterAnswer(b) ==
  /\ Idle(b) \/ IsAt(b, "done")
  /\ HasOrTakesLock(b)
  /\ UNCHANGED <<tracker, stored, dirty, call>>

\* init_db, or another table that the program writes to: a command of the CLI has
\* the lock before the tracker is asked.
WriteElsewhere(b) ==
  /\ Idle(b) /\ HasOrTakesLock(b)
  /\ UNCHANGED <<tracker, stored, dirty, call>>

Commit(b) ==
  /\ holder = b /\ Idle(b)
  /\ cache' = dirtyCache /\ events' = dirtyEvents
  /\ holder' = NoBridge
  /\ UNCHANGED <<tracker, dirty, call>>

\* The process dies, a write waits too long for the lock, an adapter raises, or
\* the caller rolls back: between two statements of the call, or outside of it.
Abandon(b) ==
  /\ IF holder = b
     THEN dirtyCache' = cache /\ dirtyEvents' = events /\ holder' = NoBridge
     ELSE UNCHANGED <<dirty, holder>>
  /\ Return(b)
  /\ UNCHANGED <<tracker, stored>>

Next ==
  \/ \E i \in Issues : RemoteChange(i)
  \/ \E b \in Bridges :
       \/ \E k \in Keys, action \in Actions : Begin(b, k, action)
       \/ Fetched(b) \/ Performed(b) \/ StatusIgnored(b) \/ Failed(b)
       \/ CacheIssue(b) \/ RecordFetch(b) \/ RecordResult(b)
       \/ WriteElsewhere(b) \/ Commit(b) \/ Abandon(b)

Spec == Init /\ [][Next]_vars

-------------------------------------------------------------------------------
(* Properties                                                               *)

\* The variables keep their types.
TypeOK ==
  /\ remote \in [Issues -> Nat] /\ done \in [Issues -> [Outbound -> Nat]]
  /\ cache \in [Issues -> Nat \cup {NoRow}] /\ dirtyCache \in [Issues -> Nat \cup {NoRow}]
  /\ events \in Seq(Events) /\ dirtyEvents \in Seq(Events)
  /\ holder \in Bridges \cup {NoBridge}
  /\ call \in [Bridges -> Calls \cup {NoCall}]

\* An issue is cached if and only if a successful fetch of it is in the log,
\* under the key of the cache row: neither is committed without the other.
CachedAsReported ==
  \A i \in Issues :
    cache[i] # NoRow <=>
      \E n \in EventsAbout(i, "fetch") : events[n].ok /\ events[n].key = i

\* While a bridge holds the lock, the row of an issue never goes back for it: an answer that
\* it writes is not older than the row it replaces, because a command takes the lock
\* (init_db) before it asks.  A program that asks first may write an old answer last.
LockedFetchGoesForward ==
  [][\A b \in Bridges, i \in Issues :
       holder = b /\ holder' = b /\ dirtyCache[i] # NoRow
         => dirtyCache'[i] # NoRow /\ dirtyCache[i] <= dirtyCache'[i]]_vars

\* The log never claims more comments than the tracker got, whatever was rolled
\* back, lost or sent again.
CommentsWerePosted ==
  \A i \in Issues :
    Cardinality({n \in EventsAbout(i, "post_comment") : events[n].ok})
      <= done[i]["post_comment"]
=============================================================================
