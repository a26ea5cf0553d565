----------------------------- MODULE Resolution ------------------------------
(****************************************************************************)
(* How ContextRebuildService.build() resolves the references of a task      *)
(* between reading its rows and writing the bundle: ContextRebuildResolver  *)
(* with the resolvers registered in it.                                     *)
(*                                                                          *)
(* References are resolved one after the other, and raw content is loaded   *)
(* afterwards: what they stand for may come, go and fail in between.  Lists *)
(* of the diagnostics are sets; texts are those of TypedRefs.  The reading  *)
(* of the rows and the transaction are in ContextBuild.                     *)
(****************************************************************************)
EXTENDS TypedRefs, FiniteSets

CONSTANTS
  Rows,        \* what build() may have read of a task: references to itself, its decisions,
               \* questions and runs, and the dashboard's artifact_refs and evidence_refs
  Registered,  \* names of resolvers, in the order of register_resolver
  Fetchers,    \* types that memx has a fetcher for
  Adapters,    \* providers that the tracker resolver has an adapter for
  NoBundle

\* A reference to an own row is canonical, or none if the id has a colon.
ASSUME ResolutionAssumption ==
  /\ Rows \subseteq
       [own : Seq([kind : {"task", "decision", "open_question", "run"}, ref : Texts]) \ {<< >>},
        artifact : Seq(Texts), evidence : Seq(Texts)]
  /\ \A rows \in Rows : \A i \in DOMAIN rows.own :
       Canonical(rows.own[i].ref) \in {rows.own[i].ref, Invalid}
  /\ Registered \in Seq({"local", "memx", "tracker", "plugin"})

VARIABLES
  world,       \* of each reference: what is behind it
  at,          \* where build() is
  includeRaw,
  sources,     \* kinds and references
  results,     \* a ResolvedRef for each source so far
  looked,      \* results that load_selected_raw was considered for
  raws,        \* references with raw content
  odd,         \* those whose raw content json.dumps refuses
  escaped,     \* an exception left the resolver
  bundle       \* what the last build() stored

reading == <<at, includeRaw, sources, results, looked, raws, odd, escaped>>
vars == <<world, reading, bundle>>

\* The loop over a list of the dashboard: what canonicalize_ref makes of each text is
\* appended; it raises for some, which are left out.
OfKind(kind, texts) ==
  LET refs[n \in 0..Len(texts)] ==
        IF n = 0 THEN << >>
        ELSE IF IsValid(texts[n])
             THEN Append(refs[n - 1], [kind |-> kind, ref |-> Canonical(texts[n])])
             ELSE refs[n - 1]
  IN refs[Len(texts)]

Wanted(rows) ==
  rows.own \o OfKind("artifact", rows.artifact) \o OfKind("evidence", rows.evidence)

\* What can be asked for.
Refs == UNION {{Wanted(rows)[i].ref : i \in DOMAIN Wanted(rows)} : rows \in Rows}

IsLocal(ref) == ref[1] = "agent-taskstate"

\* "missing": nothing, or what is asked raises; "unstorable": an answer that json.dumps
\* refuses.
Answers == {"found", "unstorable", "missing"}

Statuses == {"resolved", "unresolved", "unsupported"}

Results == [ref : Texts, status : Statuses, plain : BOOLEAN, raw : BOOLEAN]

Init ==
  /\ world \in [Refs -> {"found", "missing"}]
  /\ \A rows \in Rows : \A i \in DOMAIN rows.own : world[rows.own[i].ref] = "found"
  /\ at = "idle" /\ includeRaw = FALSE
  /\ sources = << >> /\ results = << >>
  /\ looked = 0 /\ raws = {} /\ odd = {} /\ escaped = FALSE
  /\ bundle = NoBundle

-------------------------------------------------------------------------------
(* The resolvers                                                            *)

\* can_resolve; that of a plugin may say anything.
Claims(resolver, ref) ==
  LET r == Parse(ref) IN
    CASE resolver = "local" -> {r.domain = "agent-taskstate" /\ r.provider = DefaultProvider}
      [] resolver = "memx" -> {r.domain = "memx"}
      [] resolver = "tracker" -> {r.domain = "tracker" /\ r.type = "issue"}
      [] OTHER -> BOOLEAN

\* The registered resolvers that may be the first to claim ref, by position: none is asked
\* about a reference that canonicalize_ref refuses.
MayDecide(ref) ==
  {i \in DOMAIN Registered :
     /\ IsValid(ref) /\ TRUE \in Claims(Registered[i], ref)
     /\ \A j \in 1..(i - 1) : FALSE \in Claims(Registered[j], ref)}

NobodyMayClaim(ref) ==
  ~IsValid(ref) \/ \A i \in DOMAIN Registered : FALSE \in Claims(Registered[i], ref)

\* A plugin is asked, and what it does not expect makes can_resolve raise.
MayEscape(ref) ==
  IsValid(ref) /\ \E i \in DOMAIN Registered :
    /\ Registered[i] = "plugin"
    /\ \A j \in 1..(i - 1) : FALSE \in Claims(Registered[j], ref)

\* table_map, _fetchers and _adapters.
Equipped(resolver, ref) ==
  LET r == Parse(ref) IN
    CASE resolver = "local" -> r.type \in {"task", "decision", "question", "run", "context_bundle"}
      [] resolver = "memx" -> r.type \in Fetchers
      [] resolver = "tracker" -> r.provider \in Adapters
      [] OTHER -> TRUE

\* raw_available counts for what is resolved only, and so does the form of the answer.
Resolved(ref, raw) ==
  [ref |-> ref, status |-> "resolved", plain |-> world[ref] # "unstorable", raw |-> raw]

NotResolved(ref, status) == [ref |-> ref, status |-> status, plain |-> TRUE, raw |-> FALSE]

\* resolve; what it raises is caught and makes the reference unresolved.
ResultsOf(resolver, ref) ==
  IF resolver = "plugin"
  THEN {Resolved(ref, raw) : raw \in BOOLEAN}
         \cup {NotResolved(ref, status) : status \in Statuses \ {"resolved"}}
  ELSE IF ~Equipped(resolver, ref) THEN {NotResolved(ref, "unsupported")}
  ELSE IF world[ref] = "missing" THEN {NotResolved(ref, "unresolved")}
  ELSE {Resolved(ref, TRUE)}

\* Mutant: a plugin's answer keeps the reference that the plugin wrote in it, another one.
ResolveAsAnswered(ref) ==
  (UNION {ResultsOf(Registered[i], ref) : i \in MayDecide(ref)})
    \cup {[Resolved(ref, TRUE) EXCEPT !.ref = other] : other \in IF MayEscape(ref) THEN Refs ELSE {}}
    \cup (IF NobodyMayClaim(ref) THEN {NotResolved(ref, "unsupported")} ELSE {})

\* resolve_ref: the first resolver that claims a reference decides, whatever it answers.
ResolveRef(ref) ==
  (UNION {ResultsOf(Registered[i], ref) : i \in MayDecide(ref)})
    \cup (IF NobodyMayClaim(ref) THEN {NotResolved(ref, "unsupported")} ELSE {})

\* load_raw: the content, if any.  The built-in resolvers write it as JSON themselves and
\* have none when that raises; the content of a plugin may be anything.
Payloads(resolver, ref) ==
  IF resolver = "plugin" THEN {"none", IF world[ref] = "unstorable" THEN "odd" ELSE "json"}
  ELSE IF Equipped(resolver, ref) /\ world[ref] = "found" THEN {"json"} ELSE {"none"}

\* load_selected_raw, with its exceptions caught.
LoadRaw(ref) ==
  (UNION {Payloads(Registered[i], ref) : i \in MayDecide(ref)})
    \cup (IF NobodyMayClaim(ref) THEN {"none"} ELSE {})

-------------------------------------------------------------------------------
(* build()                                                                  *)

Begin(rows, raw) ==
  /\ at = "idle" /\ at' = "resolve"
  /\ includeRaw' = raw /\ sources' = Wanted(rows)
  /\ results' = << >> /\ looked' = 0 /\ raws' = {} /\ odd' = {} /\ escaped' = FALSE
  /\ bundle' = NoBundle
  /\ UNCHANGED world

\* One turn of resolve_many.
ResolveNext ==
  /\ at = "resolve" /\ Len(results) < Len(sources)
  /\ \E result \in ResolveRef(sources[Len(results) + 1].ref) : results' = Append(results, result)
  /\ UNCHANGED <<world, at, includeRaw, sources, looked, raws, odd, escaped, bundle>>

ResolvedAll ==
  /\ at = "resolve" /\ Len(results) = Len(sources)
  /\ at' = IF includeRaw THEN "load" ELSE "store"
  /\ UNCHANGED <<world, includeRaw, sources, results, looked, raws, odd, escaped, bundle>>

\* selected_raw and selected_refs: of a source that is there twice, the last content.
Select(ref, payload) ==
  /\ raws' = IF payload = "none" THEN raws ELSE raws \cup {ref}
  /\ odd' = CASE payload = "none" -> odd
              [] payload = "json" -> odd \ {ref}
              [] payload = "odd" -> odd \cup {ref}

\* Mutant: the loop waits for content that a resolver said it does not have.
LoadNextWaits ==
  /\ at = "load" /\ looked < Len(results)
  /\ LET result == results[looked + 1] IN
       /\ result.status = "resolved" => result.raw
       /\ \E payload \in LoadRaw(result.ref) : Select(result.ref, payload)
  /\ looked' = looked + 1
  /\ UNCHANGED <<world, at, includeRaw, sources, results, escaped, bundle>>

\* The raw content of the next resolved reference.
LoadNext ==
  /\ at = "load" /\ looked < Len(results)
  /\ LET result == results[looked + 1] IN
       IF result.status = "resolved" /\ result.raw
       THEN \E payload \in LoadRaw(result.ref) : Select(result.ref, payload)
       ELSE UNCHANGED <<raws, odd>>
  /\ looked' = looked + 1
  /\ UNCHANGED <<world, at, includeRaw, sources, results, escaped, bundle>>

LoadedAll ==
  /\ at = "load" /\ looked = Len(results) /\ at' = "store"
  /\ UNCHANGED <<world, includeRaw, sources, results, looked, raws, odd, escaped, bundle>>

\* Mutant: the exception is only logged.
EscapeUnnoticed ==
  /\ \/ /\ at = "resolve" /\ Len(results) < Len(sources)
        /\ MayEscape(sources[Len(results) + 1].ref)
        /\ results' = << >>
     \/ /\ at = "load" /\ looked < Len(results)
        /\ results[looked + 1].status = "resolved" /\ results[looked + 1].raw
        /\ MayEscape(results[looked + 1].ref)
        /\ UNCHANGED results
  /\ at' = "store"
  /\ UNCHANGED <<world, includeRaw, sources, looked, raws, odd, escaped, bundle>>

\* Mutant: the report is dropped whenever an exception is caught.
EscapeForgets ==
  /\ \/ /\ at = "resolve" /\ Len(results) < Len(sources)
        /\ MayEscape(sources[Len(results) + 1].ref)
     \/ /\ at = "load" /\ looked < Len(results)
        /\ MayEscape(results[looked + 1].ref)
  /\ at' = "store" /\ escaped' = TRUE /\ results' = << >>
  /\ UNCHANGED <<world, includeRaw, sources, looked, raws, odd, bundle>>

\* What leaves the resolver, or a payload of a plugin that is none, is caught around both
\* loops: without a report there are no results, later the report and the raw content so
\* far are kept.
Escape ==
  /\ \/ /\ at = "resolve" /\ Len(results) < Len(sources)
        /\ MayEscape(sources[Len(results) + 1].ref)
        /\ results' = << >>
     \/ /\ at = "load" /\ looked < Len(results)
        /\ results[looked + 1].status = "resolved" /\ results[looked + 1].raw
        /\ MayEscape(results[looked + 1].ref)
        /\ UNCHANGED results
  /\ at' = "store" /\ escaped' = TRUE
  /\ UNCHANGED <<world, includeRaw, sources, looked, raws, odd, bundle>>

\* Of the report: the references with a status.
Reported(status) ==
  {results[i].ref : i \in {j \in DOMAIN results : results[j].status = status}}

\* get_diagnostics, the snapshot and the rows of context_bundle_sources.
Bundle ==
  [sources |-> [i \in DOMAIN sources |->
                  [kind |-> sources[i].kind, ref |-> sources[i].ref,
                   selected |-> sources[i].ref \in raws]],
   raw |-> raws,
   summaries |-> Reported("resolved"),
   missing |-> Reported("unresolved"),
   unsupported |-> Reported("unsupported"),
   partial |-> escaped \/ Reported("unresolved") \cup Reported("unsupported") # {},
   rawIncluded |-> includeRaw /\ raws # {}]

\* json.dumps accepts the metadata of what is resolved, and the raw content.
Storable ==
  /\ \A i \in DOMAIN results : results[i].status = "resolved" => results[i].plain
  /\ odd = {}

\* The INSERTs; an answer that json.dumps refuses makes build() raise before them.
Store ==
  /\ at = "store" /\ at' = "idle"
  /\ bundle' = IF Storable THEN Bundle ELSE NoBundle
  /\ includeRaw' = FALSE
  /\ sources' = << >> /\ results' = << >>
  /\ looked' = 0 /\ raws' = {} /\ odd' = {} /\ escaped' = FALSE
  /\ UNCHANGED world

\* Somebody else: rows of the database are added and never removed.
WorldChanges(ref) ==
  /\ \E answer \in Answers :
       /\ IsLocal(ref) => answer = "found"
       /\ world' = [world EXCEPT ![ref] = answer]
  /\ UNCHANGED <<reading, bundle>>

BuildStep == ResolveNext \/ ResolvedAll \/ LoadNext \/ LoadedAll \/ Escape \/ Store

Next ==
  \/ \E rows \in Rows, raw \in BOOLEAN : Begin(rows, raw)
  \/ BuildStep
  \/ \E ref \in Refs : WorldChanges(ref)

Spec == Init /\ [][Next]_vars

\* A resolver answers or raises.
FairSpec == Spec /\ WF_vars(BuildStep)

-------------------------------------------------------------------------------
(* Properties                                                               *)

\* The variables keep their types, and a bundle its own.
TypeOK ==
  /\ world \in [Refs -> Answers]
  /\ at \in {"idle", "resolve", "load", "store"}
  /\ {includeRaw, escaped} \subseteq BOOLEAN
  /\ results \in Seq(Results) /\ Len(results) <= Len(sources)
  /\ looked \in 0..Len(results) /\ odd \subseteq raws
  /\ bundle # NoBundle =>
       raws \cup bundle.summaries \cup bundle.missing \cup bundle.unsupported \subseteq Texts

\* partial_bundle (docs/kv-priority-roadmap/03): a bundle that does not call itself
\* partial has a summary for every one of its sources, whatever answered, failed or
\* raised while it was built.
CompleteUnlessPartial ==
  bundle # NoBundle =>
    /\ ~bundle.partial => \A i \in DOMAIN bundle.sources : bundle.sources[i].ref \in bundle.summaries
    /\ \A ref \in bundle.missing \cup bundle.unsupported : bundle.partial

\* Raw content leads back to a source: whatever selected_raw has content for is one of the
\* bundle's sources and has a summary, although it was loaded later and a plugin may answer
\* for another reference; and raw_included is set if and only if a source is selected.
RawIsOfASource ==
  bundle # NoBundle =>
    /\ bundle.raw \subseteq bundle.summaries
    /\ \A ref \in bundle.raw : \E i \in DOMAIN bundle.sources : bundle.sources[i].ref = ref
    /\ bundle.rawIncluded <=> \E i \in DOMAIN bundle.sources : bundle.sources[i].selected
    /\ \A i \in DOMAIN bundle.sources :
         bundle.sources[i].selected => bundle.sources[i].ref \in bundle.raw

\* "Even when references cannot be resolved, the build itself goes on"
\* (docs/kv-priority-roadmap/03, acceptance): as long as answers can be written as
\* JSON, every build ends with its bundle stored.
BuildIsStored ==
  [](\A ref \in Refs : world[ref] # "unstorable") => (at = "resolve" ~> bundle # NoBundle)
=============================================================================
