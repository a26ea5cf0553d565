---------------------------- MODULE TrackerViews -----------------------------
(****************************************************************************)
(* What programs link and read beside the fetches, comments and statuses of *)
(* TrackerBridge: entity_link, snapshots for a context, suggestions.        *)
(*                                                                          *)
(* Callers write a reference in any way that typed_ref accepts; a key may   *)
(* contain a colon, and then its reference is not accepted.  A snapshot     *)
(* takes two SELECTs and a suggestion a third, each of what the connection  *)
(* sees at that moment.  Two links with the same ends and role are one.     *)
(****************************************************************************)
EXTENDS TrackerBridge, TypedRefs

CONSTANTS
  Provider,   \* of the connection
  RefTexts,   \* references that callers write
  Roles,      \* LinkRole
  MaxLinks,   \* bound on the links a bridge sees when it adds one
  NoReading,
  Unknown     \* no event yet

ASSUME ViewsAssumption ==
  /\ Keys \subseteq Texts \ {<<EmptyPiece>>}
  /\ Provider \in Pieces \ {EmptyPiece}
  /\ RefTexts \subseteq Texts
  /\ MaxLinks \in Nat
  /\ Unknown \notin BOOLEAN

VARIABLES
  links,       \* committed rows of entity_link
  dirtyLinks,  \* the same as the lock holder sees them
  reading      \* of each bridge: what its SELECTs returned so far

views == <<links, dirtyLinks, reading>>
allVars == <<vars, views>>

\* issue_ref of a cache row and of an event.
RefOf == [key \in Keys |-> Format(<<"tracker">>, <<"issue">>, key, <<Provider>>)]

IssueTexts == {text \in RefTexts : NormalIssueRef(text) # Invalid}
TaskTexts == {text \in RefTexts : NormalTaskRef(text) # Invalid}

Links == [issue : Texts, task : Texts, role : Roles]

\* at: the SELECT that is next; "told" when the call has its answer.
Readings == [ref : Texts, row : Nat, last : BOOLEAN \cup {Unknown},
             tasks : SUBSET Texts, at : {"event", "links", "told"}]

\* Mutant: a view of what is committed only.
LinksCommitted(b) == links

LinksSeenBy(b) == IF holder = b THEN dirtyLinks ELSE links

CacheSeenBy(b) == IF holder = b THEN dirtyCache ELSE cache

ViewsInit ==
  /\ Init
  /\ links = {} /\ dirtyLinks = {}
  /\ reading = [b \in Bridges |-> NoReading]

-------------------------------------------------------------------------------
\* get_issue_links, called with a text: links are found by their reference, so one made
\* under another key of the same issue is not.
IssueLinks(b, text) == {l \in LinksSeenBy(b) : l.issue = NormalIssueRef(text)}

EventsOf(b, ref) == {n \in DOMAIN EventsSeenBy(b) : RefOf[EventsSeenBy(b)[n].key] = ref}

\* ORDER BY created_at DESC LIMIT 1: result is that of the newest event about ref.
LastResult(b, ref, result) ==
  \/ EventsOf(b, ref) = {} /\ result = Unknown
  \/ \E n \in EventsOf(b, ref) :
       (\A m \in EventsOf(b, ref) : m <= n) /\ result = EventsSeenBy(b)[n].ok

\* link_issue_to_task; another reference is refused.
LinkIssue(b, text, task, role) ==
  /\ Idle(b) /\ reading[b] = NoReading
  /\ Cardinality(LinksSeenBy(b)) < MaxLinks
  /\ WriteElsewhere(b)
  /\ dirtyLinks' = dirtyLinks \cup
       {[issue |-> NormalIssueRef(text), task |-> NormalTaskRef(task), role |-> role]}
  /\ UNCHANGED <<links, reading>>

\* get_issue_snapshot and generate_sync_suggestions begin: without a cache row they
\* have their answer.
ReadRow(b, text) ==
  /\ Idle(b) /\ reading[b] = NoReading
  /\ \E i \in Issues :
       /\ RefOf[i] = NormalIssueRef(text) /\ CacheSeenBy(b)[i] # NoRow
       /\ reading' = [reading EXCEPT ![b] =
            [ref |-> NormalIssueRef(text), row |-> CacheSeenBy(b)[i], last |-> Unknown,
             tasks |-> {}, at |-> "event"]]
  /\ UNCHANGED <<vars, links, dirtyLinks>>

ReadEvent(b) ==
  /\ reading[b] # NoReading /\ reading[b].at = "event"
  /\ \E result \in BOOLEAN \cup {Unknown} :
       /\ LastResult(b, reading[b].ref, result)
       /\ reading' = [reading EXCEPT ![b].at = "links", ![b].last = result]
  /\ UNCHANGED <<vars, links, dirtyLinks>>

\* The tasks for which a suggestion is made; requires_confirmation is always set.
ReadLinks(b) ==
  /\ reading[b] # NoReading /\ reading[b].at = "links"
  /\ reading' = [reading EXCEPT ![b].at = "told", ![b].tasks =
                   {l.task : l \in {k \in IssueLinks(b, reading[b].ref) : k.role = "primary"}}]
  /\ UNCHANGED <<vars, links, dirtyLinks>>

\* A snapshot ends after its second SELECT.
Told(b) ==
  /\ reading[b] # NoReading /\ reading[b].at \in {"links", "told"}
  /\ reading' = [reading EXCEPT ![b] = NoReading]
  /\ UNCHANGED <<vars, links, dirtyLinks>>

-------------------------------------------------------------------------------
BridgeCall(b) ==
  /\ reading[b] = NoReading
  /\ \/ \E k \in Keys, action \in Actions : Begin(b, k, action)
     \/ Fetched(b) \/ Performed(b) \/ StatusIgnored(b) \/ Failed(b)
     \/ CacheIssue(b) \/ RecordFetch(b) \/ RecordResult(b) \/ WriteElsewhere(b)
  /\ UNCHANGED views

\* All tables are committed and rolled back together.
ViewsCommit(b) ==
  /\ reading[b] = NoReading
  /\ Commit(b)
  /\ links' = dirtyLinks
  /\ UNCHANGED <<dirtyLinks, reading>>

ViewsAbandon(b) ==
  /\ Abandon(b)
  /\ dirtyLinks' = IF holder = b THEN links ELSE dirtyLinks
  /\ reading' = [reading EXCEPT ![b] = NoReading]
  /\ UNCHANGED links

ViewsNext ==
  \/ \E i \in Issues : RemoteChange(i) /\ UNCHANGED views
  \/ \E b \in Bridges :
       \/ BridgeCall(b) \/ ViewsCommit(b) \/ ViewsAbandon(b)
       \/ \E text \in IssueTexts, task \in TaskTexts, role \in Roles :
            LinkIssue(b, text, task, role)
       \/ \E text \in IssueTexts : ReadRow(b, text)
       \/ ReadEvent(b) \/ ReadLinks(b) \/ Told(b)

ViewsSpec == ViewsInit /\ [][ViewsNext]_allVars

-------------------------------------------------------------------------------
(* Properties                                                               *)

\* The variables keep their types.
ViewsTypeOK ==
  /\ TypeOK
  /\ links \subseteq Links /\ dirtyLinks \subseteq Links
  /\ reading \in [Bridges -> Readings \cup {NoReading}]

\* A snapshot of a cached issue never says "unknown" of its last synchronisation
\* (get_issue_snapshot), although its two SELECTs are of two moments: the row and
\* the event of a fetch are committed together, the row is read first, and events
\* are never removed.
SnapshotKnowsItsSync ==
  \A b \in Bridges :
    reading[b] # NoReading /\ reading[b].at # "event" => reading[b].last # Unknown

\* Read-both, write-one (docs/kv-priority-roadmap/01): the forms of a reference that are
\* read have one canonical form, and only that is stored.
ReadBothWriteOne ==
  /\ OneCanonicalForm
  /\ \A l \in links : Canonical(l.issue) = l.issue /\ Canonical(l.task) = l.task

\* An event leads back to its issue, or nowhere: a reference that was made of parts is
\* never read as another one.  The one that an event carries is accepted by the calls that
\* read if and only if the key it was made of has no colon, and then it is canonical and
\* names that key.  A key with a colon, which the adapter may accept, is logged under a
\* reference that every call refuses.
RefsLeadBack ==
  /\ NeverMisread
  /\ \A n \in DOMAIN events :
       LET key == events[n].key
           ref == RefOf[key]
       IN  /\ NormalIssueRef(ref) # Invalid <=> Len(key) = 1
           /\ Len(key) = 1 => NormalIssueRef(ref) = ref /\ Parse(ref).id = key[1]

\* A program that has the lock, as every command of the CLI has after init_db, is
\* told what is so at that moment: nothing it has read can have changed since.
LockedViewIsCurrent ==
  \A b \in Bridges : holder = b /\ reading[b] # NoReading =>
    /\ \E i \in Issues : RefOf[i] = reading[b].ref /\ reading[b].row = dirtyCache[i]
    /\ reading[b].at # "event" => LastResult(b, reading[b].ref, reading[b].last)
    /\ reading[b].at = "told" =>
         reading[b].tasks =
           {l.task : l \in {k \in dirtyLinks : k.issue = reading[b].ref /\ k.role = "primary"}}
=============================================================================
