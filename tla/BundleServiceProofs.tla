------------------------- MODULE BundleServiceProofs -------------------------
(****************************************************************************)
(* The caches of the bundle services, for any services, tasks, bundles and  *)
(* sources, any size of the cache and any clock.                            *)
(****************************************************************************)
EXTENDS BundleService, TLAPS, SequenceTheorems

-------------------------------------------------------------------------------
(* Sequences of cached entries                                              *)

OnePerTask(entries) ==
  \A i, j \in 1..Len(entries) : entries[i].task = entries[j].task => i = j

\* Every entry of new was in old.
NothingNew(new, old) == \A i \in 1..Len(new) : \E j \in 1..Len(old) : new[i] = old[j]

LEMMA WithoutTask ==
  ASSUME NEW entries \in Seq(Entries), OnePerTask(entries), NEW t
  PROVE  /\ Without(entries, t) \in Seq(Entries)
         /\ Len(Without(entries, t)) <= Len(entries)
         /\ OnePerTask(Without(entries, t))
         /\ NothingNew(Without(entries, t), entries)
         /\ ~IsCached(t, Without(entries, t))
  <1>0. Len(entries) \in Nat /\ \A i \in 1..Len(entries) : entries[i] \in Entries
    OBVIOUS
  <1>1. CASE ~IsCached(t, entries)
    BY <1>0, <1>1 DEF Without, NothingNew
  <1>2. CASE IsCached(t, entries)
    <2> DEFINE i == CHOOSE j \in 1..Len(entries) : entries[j].task = t
               front == SubSeq(entries, 1, i - 1)
               back == SubSeq(entries, i + 1, Len(entries))
    <2>1. i \in 1..Len(entries) /\ entries[i].task = t
      BY <1>2 DEF IsCached
    <2>2. Without(entries, t) = front \o back
      BY <1>2 DEF Without
    <2> HIDE DEF i
    <2>3. /\ front \in Seq(Entries) /\ Len(front) = i - 1
          /\ \A k \in 1..(i - 1) : front[k] = entries[k]
      <3>1. \A k \in 1..(i - 1) : k \in 1..Len(entries)
        BY <1>0, <2>1
      <3>2. \A k \in 1..(i - 1) : entries[k] \in Entries
        BY <1>0, <3>1
      <3> QED BY <1>0, <2>1, <3>2, SubSeqProperties
    <2>4. /\ back \in Seq(Entries) /\ Len(back) = Len(entries) - i
          /\ \A k \in 1..(Len(entries) - i) : back[k] = entries[i + k]
      <3>1. \A k \in (i + 1)..Len(entries) : entries[k] \in Entries
        BY <1>0, <2>1
      <3> QED BY <1>0, <2>1, <3>1, SubSeqProperties
    <2> DEFINE rest == front \o back
    <2>5. /\ rest \in Seq(Entries) /\ Len(rest) = Len(entries) - 1
          /\ \A k \in 1..(Len(entries) - 1) :
               rest[k] = IF k < i THEN entries[k] ELSE entries[k + 1]
      <3>0. /\ rest \in Seq(Entries) /\ Len(rest) = Len(front) + Len(back)
            /\ \A k \in 1..(Len(front) + Len(back)) :
                 rest[k] = IF k <= Len(front) THEN front[k] ELSE back[k - Len(front)]
        BY <2>3, <2>4, ConcatProperties
      <3> HIDE DEF rest, front, back
      <3>1. rest \in Seq(Entries) /\ Len(rest) = Len(entries) - 1
        BY <1>0, <2>1, <2>3, <2>4, <3>0
      <3>2. ASSUME NEW k \in 1..(Len(entries) - 1)
            PROVE  rest[k] = IF k < i THEN entries[k] ELSE entries[k + 1]
        <4>1. CASE k < i
          <5>1. k \in 1..(i - 1)
            BY <1>0, <2>1, <3>2, <4>1
          <5>2. k \in 1..(Len(front) + Len(back)) /\ k <= Len(front)
            BY <1>0, <2>1, <2>3, <2>4, <3>2, <4>1
          <5>3. rest[k] = front[k]
            BY <3>0, <5>2
          <5> QED BY <2>3, <4>1, <5>1, <5>3
        <4>2. CASE ~(k < i)
          <5>1. k - (i - 1) \in 1..(Len(entries) - i) /\ i + (k - (i - 1)) = k + 1
            BY <1>0, <2>1, <3>2, <4>2
          <5>2. /\ k \in 1..(Len(front) + Len(back)) /\ ~(k <= Len(front))
                /\ k - Len(front) = k - (i - 1)
            BY <1>0, <2>1, <2>3, <2>4, <3>2, <4>2
          <5>3. rest[k] = back[k - (i - 1)]
            BY <3>0, <5>2
          <5> QED BY <2>4, <4>2, <5>1, <5>3
        <4> QED BY <4>1, <4>2
      <3> QED BY <3>1, <3>2
    <2> HIDE DEF rest
    <2>6. ASSUME NEW k \in 1..Len(rest)
          PROVE  \E j \in 1..Len(entries) : j # i /\ rest[k] = entries[j]
      <3>1. k \in 1..(Len(entries) - 1)
        BY <2>5, <2>6
      <3>2. CASE k < i
        BY <1>0, <2>1, <2>5, <3>1, <3>2
      <3>3. CASE ~(k < i)
        <4>1. k + 1 \in 1..Len(entries) /\ k + 1 # i
          BY <1>0, <2>1, <3>1, <3>3
        <4> QED BY <2>5, <3>1, <3>3, <4>1
      <3> QED BY <3>2, <3>3
    <2>7. OnePerTask(rest)
      <3> SUFFICES ASSUME NEW k \in 1..Len(rest), NEW l \in 1..Len(rest),
                          rest[k].task = rest[l].task
                   PROVE  k = l
        BY DEF OnePerTask
      <3> DEFINE at(n) == IF n < i THEN n ELSE n + 1
      <3>1. k \in 1..(Len(entries) - 1) /\ l \in 1..(Len(entries) - 1)
        BY <2>5
      <3>2. rest[k] = entries[at(k)] /\ rest[l] = entries[at(l)]
        BY <2>5, <3>1
      <3>3. at(k) \in 1..Len(entries) /\ at(l) \in 1..Len(entries)
        BY <1>0, <2>1, <3>1
      <3>4. at(k) = at(l)
        BY <3>2, <3>3 DEF OnePerTask
      <3> QED BY <2>1, <3>1, <3>4
    <2>8. NothingNew(rest, entries)
      BY <2>6 DEF NothingNew
    <2>9. ~IsCached(t, rest)
      BY <2>1, <2>6 DEF IsCached, OnePerTask
    <2>10. Len(rest) <= Len(entries)
      BY <1>0, <2>5
    <2> QED BY <2>2, <2>5, <2>7, <2>8, <2>9, <2>10 DEF rest
  <1> QED BY <1>1, <1>2

LEMMA AppendEntry ==
  ASSUME NEW entries \in Seq(Entries), OnePerTask(entries),
         NEW e \in Entries, ~IsCached(e.task, entries)
  PROVE  /\ Append(entries, e) \in Seq(Entries)
         /\ Len(Append(entries, e)) = Len(entries) + 1
         /\ OnePerTask(Append(entries, e))
         /\ \A i \in 1..Len(Append(entries, e)) :
              \/ Append(entries, e)[i] = e
              \/ \E j \in 1..Len(entries) : Append(entries, e)[i] = entries[j]
  <1> DEFINE new == Append(entries, e)
  <1>1. /\ new \in Seq(Entries) /\ Len(new) = Len(entries) + 1 /\ Len(entries) \in Nat
        /\ new[Len(entries) + 1] = e
        /\ \A i \in 1..Len(entries) : new[i] = entries[i]
    OBVIOUS
  <1> HIDE DEF new
  <1>2. \A i \in 1..Len(new) : i = Len(entries) + 1 \/ i \in 1..Len(entries)
    BY <1>1
  <1>3. OnePerTask(new)
    <2> SUFFICES ASSUME NEW i \in 1..Len(new), NEW j \in 1..Len(new),
                        new[i].task = new[j].task
                 PROVE  i = j
      BY DEF OnePerTask
    <2>1. CASE i \in 1..Len(entries) /\ j \in 1..Len(entries)
      BY <1>1, <2>1 DEF OnePerTask
    <2>2. CASE i = Len(entries) + 1 /\ j \in 1..Len(entries)
      BY <1>1, <2>2 DEF IsCached
    <2>3. CASE i \in 1..Len(entries) /\ j = Len(entries) + 1
      BY <1>1, <2>3 DEF IsCached
    <2> QED BY <1>2, <2>1, <2>2, <2>3
  <1>4. \A i \in 1..Len(new) : new[i] = e \/ \E j \in 1..Len(entries) : new[i] = entries[j]
    BY <1>1, <1>2
  <1> QED BY <1>1, <1>3, <1>4 DEF new

LEMMA TailEntries ==
  ASSUME NEW entries \in Seq(Entries), OnePerTask(entries), entries # << >>
  PROVE  /\ Tail(entries) \in Seq(Entries) /\ Len(Tail(entries)) = Len(entries) - 1
         /\ OnePerTask(Tail(entries)) /\ NothingNew(Tail(entries), entries)
  <1> DEFINE tail == Tail(entries)
  <1>1. /\ tail \in Seq(Entries) /\ Len(tail) = Len(entries) - 1 /\ Len(entries) \in Nat
        /\ \A i \in 1..Len(tail) : i + 1 \in 1..Len(entries) /\ tail[i] = entries[i + 1]
    OBVIOUS
  <1> HIDE DEF tail
  <1>2. OnePerTask(tail)
    <2> SUFFICES ASSUME NEW i \in 1..Len(tail), NEW j \in 1..Len(tail),
                        tail[i].task = tail[j].task
                 PROVE  i = j
      BY DEF OnePerTask
    <2>1. i + 1 = j + 1
      BY <1>1 DEF OnePerTask
    <2> QED BY <1>1, <2>1
  <1> QED BY <1>1, <1>2 DEF tail, NothingNew

\* What Remember returns, for an entry of a task that is not cached.
LEMMA Remembers ==
  ASSUME NEW s \in Services, NEW entries \in Seq(Entries), OnePerTask(entries),
         s \notin Rebuilders => Len(entries) <= CacheMax,
         NEW e \in Entries, ~IsCached(e.task, entries)
  PROVE  /\ Remember(s, entries, e) \in Seq(Entries)
         /\ s \notin Rebuilders => Len(Remember(s, entries, e)) <= CacheMax
         /\ OnePerTask(Remember(s, entries, e))
         /\ \A i \in 1..Len(Remember(s, entries, e)) :
              \/ Remember(s, entries, e)[i] = e
              \/ \E j \in 1..Len(entries) : Remember(s, entries, e)[i] = entries[j]
  <1>0. CacheMax \in Nat \ {0} /\ Len(entries) \in Nat
    BY BundleAssumption
  <1>1. CASE s \notin Rebuilders /\ Len(entries) >= CacheMax
    <2>1. entries # << >>
      BY <1>0, <1>1
    <2>2. /\ Tail(entries) \in Seq(Entries) /\ Len(Tail(entries)) = Len(entries) - 1
          /\ OnePerTask(Tail(entries)) /\ NothingNew(Tail(entries), entries)
      BY <2>1, TailEntries
    <2>3. ~IsCached(e.task, Tail(entries))
      BY <2>2 DEF NothingNew, IsCached
    <2>4. Remember(s, entries, e) = Append(Tail(entries), e)
      BY <1>1 DEF Remember
    <2>5. Len(Remember(s, entries, e)) <= CacheMax
      BY <1>0, <1>1, <2>2, <2>3, <2>4, AppendEntry
    <2> DEFINE tail == Tail(entries)
               new == Append(tail, e)
    <2>6. /\ new \in Seq(Entries) /\ OnePerTask(new)
          /\ \A i \in 1..Len(new) : new[i] = e \/ \E j \in 1..Len(tail) : new[i] = tail[j]
      BY <2>2, <2>3, AppendEntry
    <2>7. NothingNew(tail, entries)
      BY <2>2
    <2> HIDE DEF tail, new
    <2>8. \A i \in 1..Len(new) : new[i] = e \/ \E j \in 1..Len(entries) : new[i] = entries[j]
      BY <2>6, <2>7 DEF NothingNew
    <2>9. Remember(s, entries, e) = new
      BY <2>4 DEF new, tail
    <2> QED BY <2>5, <2>6, <2>8, <2>9
  <1>2. CASE ~(s \notin Rebuilders /\ Len(entries) >= CacheMax)
    <2>1. Remember(s, entries, e) = Append(entries, e)
      BY <1>2 DEF Remember
    <2>2. s \notin Rebuilders => Len(Append(entries, e)) <= CacheMax
      BY <1>0, <1>2, AppendEntry
    <2> QED BY <2>1, <2>2, AppendEntry
  <1> QED BY <1>1, <1>2

-------------------------------------------------------------------------------
(* The inductive invariant                                                  *)

\* A row is still there, whatever sources it got.
Same(row, old) == row # NoBundle /\ row.task = old.task /\ row.at = old.at

\* The transaction of the lock holder adds bundles of its own, and sources to any.
DirtyInv ==
  /\ holder = NoService => dirty = stored
  /\ \A b \in BundleIds :
       /\ stored[b] # NoBundle => Same(dirty[b], stored[b]) /\ stored[b].refs \subseteq dirty[b].refs
       /\ stored[b] = NoBundle /\ dirty[b] # NoBundle => maker[b] = holder
       /\ maker[b] = NoService => dirty[b] = NoBundle

\* No bundle is of the future.
TimeInv ==
  /\ \A b \in BundleIds : dirty[b] # NoBundle => dirty[b].at <= clock
  /\ \A s \in Services : InCall(s, "create") => call[s].at <= clock

\* What s has made of task t, among the rows it sees, is not later than at.
OwnUpTo(rows, made, s, t, at) ==
  \A b \in BundleIds :
    rows[b] # NoBundle /\ made[b] = s /\ rows[b].task = t => rows[b].at <= at

\* A call in progress: a new bundle is the latest of its service, and what
\* get_latest_bundle has found is still there, and no older than what the service made.
CreateInv ==
  \A s \in Services :
    InCall(s, "create") => OwnUpTo(VisibleTo(s), maker, s, call[s].task, call[s].at)

LatestInv ==
  \A s \in Services :
    InCall(s, "latest") =>
      /\ Sees(s, call[s].id) /\ VisibleTo(s)[call[s].id].task = call[s].task
      /\ OwnUpTo(VisibleTo(s), maker, s, call[s].task, VisibleTo(s)[call[s].id].at)
      /\ ~IsCached(call[s].task, cache[s])

\* An entry is not older than what the service made.
SeenInv ==
  \A s \in Services : \A i \in 1..Len(cache[s]) :
    OwnUpTo(VisibleTo(s), maker, s, cache[s][i].task, cache[s][i].at)

\* An entry that s did not make is of a committed row.
IsCommitted(rows, made, s, e) ==
  made[e.id] # s =>
    /\ rows[e.id] # NoBundle /\ (made[e.id] \in Rebuilders <=> s \in Rebuilders)
    /\ rows[e.id].task = e.task /\ rows[e.id].at = e.at

DraftInv ==
  \A s \in Services : \A i \in 1..Len(cache[s]) : IsCommitted(stored, maker, s, cache[s][i])

Inv1 == TypeOK /\ DirtyInv /\ TimeInv
Inv2 == CreateInv /\ LatestInv /\ CacheIsBounded /\ SeenInv /\ DraftInv
IInv == Inv1 /\ Inv2

-------------------------------------------------------------------------------
LEMMA InvInitially == Init => IInv
  BY BundleAssumption
     DEF Init, IInv, Inv1, Inv2, TypeOK, DirtyInv, TimeInv, CreateInv, LatestInv, InCall, Idle,
         CacheIsBounded, SeenInv, DraftInv

LEMMA EntryType ==
  ASSUME NEW b \in BundleIds, NEW row \in Bundles
  PROVE  /\ EntryOf(b, row) \in Entries /\ EntryOf(b, row).task = row.task
         /\ EntryOf(b, row).at = row.at /\ EntryOf(b, row).id = b
  BY DEF EntryOf, Entries, Bundles

LEMMA CallType ==
  ASSUME TypeOK, NEW s \in Services
  PROVE  /\ InCall(s, "create") => call[s].task \in Tasks /\ call[s].at \in Nat
         /\ InCall(s, "latest") => call[s].task \in Tasks /\ call[s].id \in BundleIds
  BY DEF TypeOK, InCall, Idle, Calls

LEMMA InsertAsType ==
  ASSUME Inv1, NEW s \in Services, NEW b \in BundleIds, NEW refs \in SUBSET Refs,
         InsertAs(s, b, refs)
  PROVE  /\ NewRow(s, refs) \in Bundles
         /\ NewRow(s, refs).task = call[s].task /\ NewRow(s, refs).at = call[s].at
         /\ dirty' \in [BundleIds -> Bundles \cup {NoBundle}]
         /\ dirty'[b] = NewRow(s, refs) /\ dirty'[b] # NoBundle
         /\ \A c \in BundleIds \ {b} : dirty'[c] = dirty[c]
         /\ maker' \in [BundleIds -> Services \cup {NoService}] /\ maker'[b] = s
         /\ \A c \in BundleIds \ {b} : maker'[c] = maker[c]
         /\ stored[b] = NoBundle /\ dirty[b] = NoBundle
         /\ holder' = s /\ holder \in {s, NoService}
         /\ UNCHANGED <<stored, clock>>
         /\ call' \in [Services -> Calls \cup {NoCall}] /\ call'[s] = NoCall
         /\ \A q \in Services \ {s} : call'[q] = call[q]
  <1>1. /\ NewRow(s, refs) \in Bundles
        /\ NewRow(s, refs).task = call[s].task /\ NewRow(s, refs).at = call[s].at
    BY CallType DEF Inv1, InsertAs, NewRow, Bundles
  <1>2. stored[b] = NoBundle /\ dirty[b] = NoBundle
    BY DEF Inv1, DirtyInv, InsertAs, Same
  <1> HIDE DEF NewRow
  <1> QED BY <1>1, <1>2, BundleAssumption
          DEF Inv1, TypeOK, InsertAs, HasOrTakesLock, Return

LEMMA AddSourceType ==
  ASSUME Inv1, NEW s \in Services, NEW b \in BundleIds, NEW r \in Refs, AddSource(s, b, r)
  PROVE  /\ dirty' \in [BundleIds -> Bundles \cup {NoBundle}]
         /\ \/ dirty'[b] = dirty[b]
            \/ /\ dirty[b] \in Bundles /\ Same(dirty'[b], dirty[b])
               /\ dirty'[b].refs = dirty[b].refs \cup {r}
         /\ \A c \in BundleIds \ {b} : dirty'[c] = dirty[c]
         /\ holder' = s /\ holder \in {s, NoService}
         /\ UNCHANGED <<stored, cache, call, maker, clock>>
  <1>1. holder' = s /\ holder \in {s, NoService} /\ UNCHANGED <<stored, cache, call, maker, clock>>
    BY DEF AddSource, HasOrTakesLock
  <1>2. CASE ~Sees(s, b)
    BY <1>1, <1>2 DEF Inv1, TypeOK, AddSource
  <1>3. CASE Sees(s, b)
    <2>1. dirty[b] # NoBundle
      BY <1>3 DEF Sees, VisibleTo, Inv1, DirtyInv, Same
    <2>2. dirty[b] \in Bundles
      BY <2>1 DEF Inv1, TypeOK
    <2> DEFINE row == [dirty[b] EXCEPT !.refs = @ \cup {r}]
    <2>3. /\ row \in Bundles /\ row.task = dirty[b].task /\ row.at = dirty[b].at
          /\ row.refs = dirty[b].refs \cup {r}
      BY <2>2 DEF Bundles
    <2>4. dirty' = [dirty EXCEPT ![b] = row]
      BY <1>3 DEF AddSource
    <2> HIDE DEF row
    <2> QED BY <1>1, <2>2, <2>3, <2>4, BundleAssumption DEF Inv1, TypeOK, Same
  <1> QED BY <1>2, <1>3

-------------------------------------------------------------------------------
(* The rows                                                                 *)

LEMMA TypeStep == IInv /\ Next => TypeOK'
  <1> SUFFICES ASSUME IInv, Next PROVE TypeOK'
    OBVIOUS
  <1>0. TypeOK /\ Inv1
    BY DEF IInv, Inv1
  <1>u. \A s \in Services : OnePerTask(cache[s]) /\ cache[s] \in Seq(Entries)
    BY <1>0 DEF IInv, Inv2, CacheIsBounded, OnePerTask, TypeOK
  <1>1. ASSUME NEW s \in Services, CreateFails(s) \/ ClearCache(s) \/ Commit(s) \/ Rollback(s)
        PROVE  TypeOK'
    <2>1. << >> \in Seq(Entries)
      OBVIOUS
    <2>2. CASE ClearCache(s)
      BY <1>0, <2>1, <2>2 DEF TypeOK, ClearCache, dbVars
    <2>3. CASE CreateFails(s)
      BY <1>0, <2>3 DEF TypeOK, CreateFails, Return, dbVars
    <2>4. CASE Commit(s) \/ Rollback(s)
      BY <1>0, <2>4 DEF TypeOK, Commit, Rollback
    <2> QED BY <1>1, <2>2, <2>3, <2>4
  <1>2. ASSUME NEW s \in Services, Restart(s)
        PROVE  TypeOK'
    BY <1>0, <1>2 DEF TypeOK, Restart, Return
  <1>3. ASSUME NEW s \in Services, NEW t \in Tasks, CreateBegin(s, t)
        PROVE  TypeOK'
    <2>1. [op |-> "create", task |-> t, at |-> clock] \in Calls
      BY <1>0 DEF Calls, TypeOK
    <2> QED BY <1>0, <1>3, <2>1 DEF TypeOK, CreateBegin, dbVars
  <1>4. ASSUME NEW s \in Services, NEW t \in Tasks, LatestFind(s, t)
        PROVE  TypeOK'
    <2>1. PICK b \in Newest(s, t) :
            call' = [call EXCEPT ![s] = [op |-> "latest", task |-> t, id |-> b]]
      BY <1>4 DEF LatestFind
    <2>2. [op |-> "latest", task |-> t, id |-> b] \in Calls
      BY DEF Calls, Newest
    <2> QED BY <1>0, <1>4, <2>1, <2>2 DEF TypeOK, LatestFind, dbVars
  <1>5. ASSUME NEW s \in Services, LatestLoad(s)
        PROVE  TypeOK'
    <2> DEFINE b == call[s].id
               e == EntryOf(b, VisibleTo(s)[b])
    <2>1. b \in BundleIds /\ VisibleTo(s)[b] \in Bundles
      BY <1>0, <1>5, CallType
         DEF LatestLoad, IInv, Inv2, LatestInv, Sees, VisibleTo, TypeOK
    <2>2. e \in Entries /\ e.task = call[s].task
      BY <1>5, <2>1, EntryType DEF LatestLoad, IInv, Inv2, LatestInv
    <2>3. /\ ~IsCached(e.task, cache[s])
          /\ s \notin Rebuilders => Len(cache[s]) <= CacheMax
      BY <1>5, <2>2 DEF LatestLoad, IInv, Inv2, LatestInv, CacheIsBounded
    <2>4. cache' = [cache EXCEPT ![s] = Remember(s, cache[s], e)]
      BY <1>5 DEF LatestLoad
    <2> HIDE DEF e
    <2>5. Remember(s, cache[s], e) \in Seq(Entries)
      BY <1>u, <2>2, <2>3, Remembers
    <2>6. cache' \in [Services -> Seq(Entries)]
      BY <1>0, <2>4, <2>5 DEF TypeOK
    <2> QED BY <1>0, <1>5, <2>6 DEF TypeOK, LatestLoad, Return, dbVars
  <1>6. ASSUME NEW s \in Services, NEW b \in BundleIds, CreateInsert(s, b)
        PROVE  TypeOK'
    <2>1. InsertAs(s, b, {})
      BY <1>6 DEF CreateInsert
    <2>2. Without(cache[s], call[s].task) \in Seq(Entries)
      BY <1>u, WithoutTask
    <2>3. cache' \in [Services -> Seq(Entries)]
      BY <1>0, <1>6, <2>2 DEF TypeOK, CreateInsert
    <2> QED BY <1>0, <2>1, <2>3, InsertAsType DEF TypeOK
  <1>7. ASSUME NEW s \in Services, NEW b \in BundleIds, NEW refs \in SUBSET Refs,
               BuildInsert(s, b, refs)
        PROVE  TypeOK'
    <2>1. InsertAs(s, b, refs)
      BY <1>7 DEF BuildInsert
    <2>2. Without(cache[s], call[s].task) \in Seq(Entries)
      BY <1>u, WithoutTask
    <2>3. EntryOf(b, NewRow(s, refs)) \in Entries
      BY <1>0, <2>1, InsertAsType, EntryType
    <2>4. cache' \in [Services -> Seq(Entries)]
      BY <1>0, <1>7, <2>2, <2>3 DEF TypeOK, BuildInsert
    <2> QED BY <1>0, <2>1, <2>4, InsertAsType DEF TypeOK
  <1>8. ASSUME NEW s \in Services, NEW b \in BundleIds, NEW r \in Refs, AddSource(s, b, r)
        PROVE  TypeOK'
    BY <1>0, <1>8, AddSourceType DEF TypeOK
  <1>9. CASE Tick
    BY <1>0, <1>9, BundleAssumption DEF TypeOK, Tick, dbVars
  <1> QED BY <1>1, <1>2, <1>3, <1>4, <1>5, <1>6, <1>7, <1>8, <1>9 DEF Next

LEMMA RowsStep == IInv /\ Next => DirtyInv' /\ TimeInv'
  <1> SUFFICES ASSUME IInv, Next PROVE DirtyInv' /\ TimeInv'
    OBVIOUS
  <1>0. TypeOK /\ Inv1 /\ DirtyInv /\ TimeInv
    BY DEF IInv, Inv1
  <1>a. NoService \notin Services /\ NoBundle \notin Bundles /\ NoCall \notin Calls
    BY BundleAssumption
  <1>b. \A b \in BundleIds :
          /\ stored[b] = NoBundle \/ stored[b] \in Bundles
          /\ dirty[b] = NoBundle \/ dirty[b] \in Bundles
    BY <1>0 DEF TypeOK
  <1>c. ASSUME UNCHANGED clock,
               \A s \in Services : call'[s] = call[s] \/ call'[s] = NoCall
        PROVE  \A s \in Services : InCall(s, "create")' => call'[s].at <= clock'
    BY <1>0, <1>c DEF InCall, Idle, TimeInv
  <1>1. ASSUME NEW s \in Services, CreateFails(s) \/ ClearCache(s) \/ LatestLoad(s)
        PROVE  DirtyInv' /\ TimeInv'
    BY <1>0, <1>1, <1>c
       DEF CreateFails, ClearCache, LatestLoad, Return, dbVars, TypeOK, DirtyInv, TimeInv, Same
  <1>2. ASSUME NEW s \in Services, Commit(s) \/ Rollback(s) \/ Restart(s)
        PROVE  DirtyInv' /\ TimeInv'
    <2>1. /\ UNCHANGED <<maker, clock>>
          /\ \A q \in Services : call'[q] = call[q] \/ call'[q] = NoCall
      BY <1>0, <1>2 DEF Commit, Rollback, Restart, Return, TypeOK
    <2>2. \/ stored' = dirty /\ dirty' = dirty /\ holder' = NoService
          \/ stored' = stored /\ dirty' = stored /\ holder' = NoService
          \/ UNCHANGED <<stored, dirty, holder>>
      BY <1>2 DEF Commit, Rollback, Restart
    <2>3. DirtyInv'
      BY <1>0, <1>b, <2>1, <2>2 DEF DirtyInv, Same, Bundles
    <2>4. \A b \in BundleIds : dirty'[b] # NoBundle => dirty'[b].at <= clock'
      BY <1>0, <2>1, <2>2 DEF DirtyInv, TimeInv, Same
    <2> QED BY <1>c, <2>1, <2>3, <2>4 DEF TimeInv
  <1>3. ASSUME NEW s \in Services, NEW t \in Tasks, CreateBegin(s, t)
        PROVE  DirtyInv' /\ TimeInv'
    <2>1. \A q \in Services : call'[q] = call[q] \/ call'[q].at = clock
      BY <1>0, <1>3 DEF CreateBegin, TypeOK
    <2>2. \A q \in Services : InCall(q, "create")' => call'[q].at <= clock
      BY <1>0, <2>1 DEF InCall, Idle, TimeInv, TypeOK
    <2> QED BY <1>0, <1>3, <2>2 DEF CreateBegin, dbVars, DirtyInv, TimeInv, Same
  <1>4. ASSUME NEW s \in Services, NEW t \in Tasks, LatestFind(s, t)
        PROVE  DirtyInv' /\ TimeInv'
    <2>1. PICK b \in Newest(s, t) :
            call' = [call EXCEPT ![s] = [op |-> "latest", task |-> t, id |-> b]]
      BY <1>4 DEF LatestFind
    <2>2. \A q \in Services : call'[q] = call[q] \/ call'[q].op = "latest"
      BY <1>0, <2>1 DEF TypeOK
    <2>3. UNCHANGED <<dirty, stored, holder, maker, clock>>
      BY <1>4 DEF LatestFind, dbVars
    <2>4. \A q \in Services : InCall(q, "create")' => call'[q].at <= clock
      BY <1>0, <2>2 DEF InCall, Idle, TimeInv
    <2> QED BY <1>0, <2>3, <2>4 DEF DirtyInv, TimeInv, Same
  <1>5. ASSUME NEW s \in Services, NEW b \in BundleIds, NEW refs \in SUBSET Refs,
               InsertAs(s, b, refs)
        PROVE  DirtyInv' /\ TimeInv'
    <2>1. DirtyInv'
      BY <1>0, <1>a, <1>5, InsertAsType DEF DirtyInv, Same
    <2>2. InCall(s, "create")
      BY <1>5 DEF InsertAs
    <2>3. \A c \in BundleIds : dirty'[c] # NoBundle => dirty'[c].at <= clock'
      BY <1>0, <1>5, <2>2, InsertAsType DEF TimeInv
    <2>4. \A q \in Services : call'[q] = call[q] \/ call'[q] = NoCall
      BY <1>0, <1>5, InsertAsType
    <2> QED BY <1>0, <1>5, <1>c, <2>1, <2>3, <2>4, InsertAsType DEF TimeInv
  <1>6. ASSUME NEW s \in Services, NEW b \in BundleIds, NEW r \in Refs, AddSource(s, b, r)
        PROVE  DirtyInv' /\ TimeInv'
    <2>1. DirtyInv'
      BY <1>0, <1>a, <1>6, AddSourceType, BundleAssumption DEF DirtyInv, Same
    <2>2. \A c \in BundleIds : dirty'[c] # NoBundle => dirty'[c].at <= clock'
      BY <1>0, <1>6, AddSourceType, BundleAssumption DEF TimeInv, Same
    <2> QED BY <1>0, <1>6, <1>c, <2>1, <2>2, AddSourceType DEF TimeInv
  <1>7. CASE Tick
    <2>1. /\ UNCHANGED <<dirty, stored, holder, call, maker>>
          /\ clock' = clock + 1 /\ clock \in Nat
      BY <1>0, <1>7 DEF Tick, dbVars, TypeOK
    <2>2. \A b \in BundleIds : dirty[b] # NoBundle => dirty[b].at \in Nat
      BY <1>b DEF Bundles
    <2>3. \A s \in Services : InCall(s, "create") => call[s].at \in Nat
      BY <1>0, CallType
    <2>4. TimeInv'
      <3>1. \A b \in BundleIds : dirty'[b] # NoBundle => dirty'[b].at <= clock'
        BY <1>0, <2>1, <2>2 DEF TimeInv
      <3>2. \A s \in Services : InCall(s, "create") => call[s].at <= clock'
        BY <1>0, <2>1, <2>3 DEF TimeInv
      <3> QED BY <2>1, <3>1, <3>2 DEF TimeInv, InCall, Idle
    <2> QED BY <1>0, <2>1, <2>4 DEF DirtyInv, Same
  <1>8. ASSUME NEW s \in Services, NEW b \in BundleIds,
               CreateInsert(s, b) \/ \E refs \in SUBSET Refs : BuildInsert(s, b, refs)
        PROVE  DirtyInv' /\ TimeInv'
    BY <1>5, <1>8 DEF CreateInsert, BuildInsert
  <1> QED BY <1>1, <1>2, <1>3, <1>4, <1>6, <1>7, <1>8 DEF Next

-------------------------------------------------------------------------------
(* The rows that a service sees                                             *)

\* Of its own rows s sees no others than before.
OwnShrink(rows, made, rows2, made2, s) ==
  \A b \in BundleIds :
    rows2[b] # NoBundle /\ made2[b] = s =>
      rows[b] # NoBundle /\ made[b] = s /\ Same(rows2[b], rows[b])

RowsStay(rows, rows2) == \A b \in BundleIds : rows[b] # NoBundle => Same(rows2[b], rows[b])

LEMMA MakersStay ==
  ASSUME IInv, Next, NEW b \in BundleIds, maker[b] # NoService
  PROVE  maker'[b] = maker[b]
  <1>1. ASSUME NEW s \in Services, NEW c \in BundleIds, NEW refs \in SUBSET Refs,
               InsertAs(s, c, refs)
        PROVE  maker'[b] = maker[b]
    BY <1>1, InsertAsType DEF IInv, Inv1, TypeOK, InsertAs
  <1>2. CASE UNCHANGED maker
    BY <1>2
  <1> QED BY <1>1, <1>2
          DEF Next, CreateFails, LatestLoad, ClearCache, Commit, Rollback, Restart,
              CreateBegin, LatestFind, CreateInsert, BuildInsert, AddSource, Tick

LEMMA StoredStay == IInv /\ Next => RowsStay(stored, stored')
  <1> SUFFICES ASSUME IInv, Next PROVE RowsStay(stored, stored')
    OBVIOUS
  <1>1. stored' \in {stored, dirty}
    BY DEF Next, CreateFails, LatestLoad, ClearCache, Commit, Rollback, Restart, CreateBegin,
           LatestFind, CreateInsert, BuildInsert, InsertAs, AddSource, Tick, dbVars
  <1> QED BY <1>1 DEF IInv, Inv1, DirtyInv, RowsStay, Same

\* Somebody else's steps: a commit may add rows of his, and nothing else changes.
LEMMA OthersStep ==
  ASSUME IInv, NEW s \in Services, NEW q \in Services, q # s, NEW b \in BundleIds,
         \/ Commit(q) \/ Rollback(q) \/ Restart(q)
         \/ \E refs \in SUBSET Refs : InsertAs(q, b, refs)
         \/ \E r \in Refs : AddSource(q, b, r)
  PROVE  /\ OwnShrink(VisibleTo(s), maker, VisibleTo(s)', maker', s)
         /\ RowsStay(VisibleTo(s), VisibleTo(s)')
  <1>0. Inv1 /\ DirtyInv /\ NoService \notin Services
    BY BundleAssumption DEF IInv, Inv1
  <1>1. CASE Commit(q)
    <2>1. /\ holder = q /\ VisibleTo(s) = stored
          /\ VisibleTo(s)' = dirty /\ maker' = maker
      BY <1>0, <1>1 DEF Commit, VisibleTo
    <2> QED BY <1>0, <2>1 DEF DirtyInv, OwnShrink, RowsStay, Same
  <1>2. CASE Rollback(q) \/ Restart(q)
    <2>1. VisibleTo(s)' = VisibleTo(s) /\ maker' = maker
      BY <1>0, <1>2 DEF Rollback, Restart, VisibleTo
    <2> QED BY <2>1 DEF OwnShrink, RowsStay, Same
  <1>3. CASE \E refs \in SUBSET Refs : InsertAs(q, b, refs)
    <2>1. PICK refs \in SUBSET Refs : InsertAs(q, b, refs)
      BY <1>3
    <2>2. /\ VisibleTo(s)' = VisibleTo(s) /\ VisibleTo(s)' = stored /\ stored[b] = NoBundle
          /\ \A c \in BundleIds \ {b} : maker'[c] = maker[c]
      BY <1>0, <2>1, InsertAsType DEF VisibleTo
    <2> QED BY <2>2 DEF OwnShrink, RowsStay, Same
  <1>4. CASE \E r \in Refs : AddSource(q, b, r)
    <2>1. PICK r \in Refs : AddSource(q, b, r)
      BY <1>4
    <2>2. VisibleTo(s)' = VisibleTo(s) /\ maker' = maker
      BY <1>0, <2>1, AddSourceType DEF VisibleTo
    <2> QED BY <2>2 DEF OwnShrink, RowsStay, Same
  <1> QED BY <1>1, <1>2, <1>3, <1>4

LEMMA OwnEnd ==
  ASSUME IInv, NEW s \in Services, Commit(s) \/ Rollback(s) \/ Restart(s)
  PROVE  OwnShrink(VisibleTo(s), maker, VisibleTo(s)', maker', s)
  <1>0. DirtyInv /\ NoService \notin Services
    BY BundleAssumption DEF IInv, Inv1
  <1>1. CASE Commit(s)
    <2>1. VisibleTo(s) = dirty /\ VisibleTo(s)' = dirty /\ maker' = maker
      BY <1>0, <1>1 DEF Commit, VisibleTo
    <2> QED BY <2>1 DEF OwnShrink, Same
  <1>2. CASE (Rollback(s) \/ Restart(s)) /\ holder = s
    <2>1. VisibleTo(s) = dirty /\ VisibleTo(s)' = stored /\ maker' = maker
      BY <1>0, <1>2 DEF Rollback, Restart, VisibleTo
    <2> QED BY <1>0, <2>1 DEF OwnShrink, DirtyInv, Same
  <1>3. CASE Restart(s) /\ holder # s
    <2>1. VisibleTo(s)' = VisibleTo(s) /\ maker' = maker
      BY <1>0, <1>3 DEF Restart, VisibleTo
    <2> QED BY <2>1 DEF OwnShrink, Same
  <1> QED BY <1>1, <1>2, <1>3 DEF Rollback

LEMMA OwnAddSource ==
  ASSUME IInv, NEW s \in Services, NEW b \in BundleIds, NEW r \in Refs, AddSource(s, b, r)
  PROVE  /\ OwnShrink(VisibleTo(s), maker, VisibleTo(s)', maker', s)
         /\ RowsStay(VisibleTo(s), VisibleTo(s)')
  <1>0. Inv1 /\ DirtyInv /\ NoService \notin Services
    BY BundleAssumption DEF IInv, Inv1
  <1>1. VisibleTo(s) = dirty /\ VisibleTo(s)' = dirty' /\ maker' = maker
    BY <1>0, AddSourceType DEF VisibleTo, DirtyInv
  <1>2. ASSUME NEW c \in BundleIds
        PROVE  dirty'[c] = dirty[c] \/ (Same(dirty'[c], dirty[c]) /\ dirty[c] # NoBundle)
    <2>1. CASE c = b
      <3>1. dirty'[b] = dirty[b] \/ (dirty[b] \in Bundles /\ Same(dirty'[b], dirty[b]))
        BY <1>0, AddSourceType
      <3> QED BY <2>1, <3>1, BundleAssumption
    <2>2. CASE c # b
      BY <1>0, <2>2, AddSourceType
    <2> QED BY <2>1, <2>2
  <1> QED BY <1>1, <1>2 DEF OwnShrink, RowsStay, Same

\* After an INSERT its service sees what it saw and the new row.
LEMMA OwnInsert ==
  ASSUME IInv, NEW s \in Services, NEW b \in BundleIds, NEW refs \in SUBSET Refs,
         InsertAs(s, b, refs)
  PROVE  /\ VisibleTo(s)'[b] = NewRow(s, refs)
         /\ \A c \in BundleIds \ {b} : VisibleTo(s)'[c] = VisibleTo(s)[c] /\ maker'[c] = maker[c]
  <1>0. Inv1 /\ DirtyInv /\ NoService \notin Services
    BY BundleAssumption DEF IInv, Inv1
  <1>1. VisibleTo(s) = dirty /\ VisibleTo(s)' = dirty'
    BY <1>0, InsertAsType DEF VisibleTo, DirtyInv
  <1> QED BY <1>0, <1>1, InsertAsType

\* Whatever happens, a service that has not inserted sees no new rows of its own, and one
\* that is in a call goes on seeing what it saw.
LEMMA ViewStep ==
  ASSUME IInv, Next, NEW s \in Services
  PROVE  /\ \/ OwnShrink(VisibleTo(s), maker, VisibleTo(s)', maker', s)
            \/ \E b \in BundleIds : CreateInsert(s, b) \/ \E refs \in SUBSET Refs : BuildInsert(s, b, refs)
         /\ RowsStay(VisibleTo(s), VisibleTo(s)') \/ call'[s] = NoCall
  <1>1. CASE \E q \in Services :
               \/ CreateFails(q) \/ LatestLoad(q) \/ ClearCache(q)
               \/ \E t \in Tasks : CreateBegin(q, t) \/ LatestFind(q, t)
    <2>1. VisibleTo(s)' = VisibleTo(s) /\ maker' = maker
      BY <1>1 DEF CreateFails, LatestLoad, ClearCache, CreateBegin, LatestFind, dbVars, VisibleTo
    <2> QED BY <2>1 DEF OwnShrink, RowsStay, Same
  <1>2. CASE Tick
    <2>1. VisibleTo(s)' = VisibleTo(s) /\ maker' = maker
      BY <1>2 DEF Tick, dbVars, VisibleTo
    <2> QED BY <2>1 DEF OwnShrink, RowsStay, Same
  <1>3. ASSUME NEW q \in Services, Commit(q) \/ Rollback(q) \/ Restart(q)
        PROVE  /\ OwnShrink(VisibleTo(s), maker, VisibleTo(s)', maker', s)
               /\ RowsStay(VisibleTo(s), VisibleTo(s)') \/ call'[s] = NoCall
    <2>1. CASE q = s
      <3>1. call'[s] = NoCall
        BY <1>3, <2>1 DEF Commit, Rollback, Restart, Return, Idle, IInv, Inv1, TypeOK
      <3> QED BY <1>3, <2>1, <3>1, OwnEnd
    <2>2. CASE q # s /\ BundleIds # {}
      BY <1>3, <2>2, OthersStep
    <2>3. CASE BundleIds = {}
      BY <2>3 DEF OwnShrink, RowsStay
    <2> QED BY <2>1, <2>2, <2>3
  <1>4. ASSUME NEW q \in Services, NEW b \in BundleIds,
               CreateInsert(q, b) \/ \E refs \in SUBSET Refs : BuildInsert(q, b, refs)
        PROVE  /\ \/ OwnShrink(VisibleTo(s), maker, VisibleTo(s)', maker', s)
                  \/ CreateInsert(s, b) \/ \E refs \in SUBSET Refs : BuildInsert(s, b, refs)
               /\ RowsStay(VisibleTo(s), VisibleTo(s)') \/ call'[s] = NoCall
    <2>1. PICK refs \in SUBSET Refs : InsertAs(q, b, refs)
      BY <1>4 DEF CreateInsert, BuildInsert
    <2>2. CASE q = s
      BY <1>4, <2>1, <2>2, InsertAsType DEF IInv
    <2>3. CASE q # s
      BY <2>1, <2>3, OthersStep
    <2> QED BY <2>2, <2>3
  <1>5. ASSUME NEW q \in Services, NEW b \in BundleIds, NEW r \in Refs, AddSource(q, b, r)
        PROVE  /\ OwnShrink(VisibleTo(s), maker, VisibleTo(s)', maker', s)
               /\ RowsStay(VisibleTo(s), VisibleTo(s)')
    BY <1>5, OwnAddSource, OthersStep
  <1> QED BY <1>1, <1>2, <1>3, <1>4, <1>5 DEF Next

-------------------------------------------------------------------------------
(* Calls in progress                                                        *)

LEMMA OwnKept ==
  ASSUME NEW rows, NEW made, NEW rows2, NEW made2, NEW s, NEW t, NEW at,
         OwnShrink(rows, made, rows2, made2, s), OwnUpTo(rows, made, s, t, at)
  PROVE  OwnUpTo(rows2, made2, s, t, at)
  BY DEF OwnShrink, OwnUpTo, Same

LEMMA SeenIsMade ==
  ASSUME IInv, NEW s \in Services, NEW b \in BundleIds, VisibleTo(s)[b] # NoBundle
  PROVE  /\ maker[b] # NoService /\ VisibleTo(s)[b] \in Bundles
         /\ VisibleTo(s)[b].at <= clock
         /\ maker[b] # s => Same(stored[b], VisibleTo(s)[b])
  <1>0. Inv1 /\ TypeOK /\ DirtyInv /\ TimeInv
    BY DEF IInv, Inv1
  <1>1. dirty[b] # NoBundle /\ Same(dirty[b], VisibleTo(s)[b])
    BY <1>0 DEF DirtyInv, VisibleTo, Same
  <1>2. maker[b] # NoService
    BY <1>0, <1>1 DEF DirtyInv
  <1>3. VisibleTo(s)[b] \in Bundles
    BY <1>0 DEF TypeOK, VisibleTo
  <1>4. VisibleTo(s)[b].at <= clock
    BY <1>0, <1>1 DEF TimeInv, Same
  <1>5. maker[b] # s => Same(stored[b], VisibleTo(s)[b])
    BY <1>0 DEF DirtyInv, VisibleTo, Same
  <1> QED BY <1>2, <1>3, <1>4, <1>5

\* The call of a service changes when it begins and when it ends, and its cache stays
\* the same in between.
LEMMA CallStep ==
  ASSUME IInv, Next, NEW s \in Services
  PROVE  \/ call'[s] = NoCall
         \/ \E t \in Tasks : CreateBegin(s, t) \/ LatestFind(s, t)
         \/ call'[s] = call[s] /\ (call[s] = NoCall \/ cache'[s] = cache[s])
  <1>0. TypeOK /\ Inv1
    BY DEF IInv, Inv1
  <1>1. ASSUME NEW q \in Services,
               \/ CreateFails(q) \/ LatestLoad(q) \/ ClearCache(q)
               \/ Commit(q) \/ Rollback(q) \/ Restart(q)
        PROVE  call'[s] = NoCall \/ (call'[s] = call[s] /\ (call[s] = NoCall \/ cache'[s] = cache[s]))
    BY <1>0, <1>1
       DEF TypeOK, CreateFails, LatestLoad, ClearCache, Commit, Rollback, Restart, Return, Idle
  <1>2. ASSUME NEW q \in Services, NEW t \in Tasks, CreateBegin(q, t) \/ LatestFind(q, t), q # s
        PROVE  call'[s] = call[s] /\ cache'[s] = cache[s]
    BY <1>0, <1>2 DEF TypeOK, CreateBegin, LatestFind
  <1>3. ASSUME NEW q \in Services, NEW b \in BundleIds,
               CreateInsert(q, b) \/ \E refs \in SUBSET Refs : BuildInsert(q, b, refs)
        PROVE  call'[s] = NoCall \/ (call'[s] = call[s] /\ cache'[s] = cache[s])
    BY <1>0, <1>3 DEF TypeOK, CreateInsert, BuildInsert, InsertAs, Return
  <1>4. ASSUME NEW q \in Services, NEW b \in BundleIds, NEW r \in Refs, AddSource(q, b, r)
        PROVE  call'[s] = call[s] /\ cache'[s] = cache[s]
    BY <1>4 DEF AddSource
  <1>5. CASE Tick
    BY <1>5 DEF Tick
  <1> QED BY <1>1, <1>2, <1>3, <1>4, <1>5 DEF Next

LEMMA CreateStep == IInv /\ Next => CreateInv'
  <1> SUFFICES ASSUME IInv, Next, NEW s \in Services, InCall(s, "create")'
               PROVE  OwnUpTo(VisibleTo(s)', maker', s, call'[s].task, call'[s].at)
    BY DEF CreateInv
  <1>0. TypeOK /\ Inv1 /\ CreateInv
    BY DEF IInv, Inv1, Inv2
  <1>1. call'[s] # NoCall /\ call'[s].op = "create"
    BY DEF InCall, Idle
  <1>2. OwnShrink(VisibleTo(s), maker, VisibleTo(s)', maker', s)
    BY <1>0, <1>1, ViewStep, InsertAsType DEF CreateInsert, BuildInsert
  <1>3. CASE \E t \in Tasks : CreateBegin(s, t)
    <2>1. PICK t \in Tasks : CreateBegin(s, t)
      BY <1>3
    <2>2. call'[s].task = t /\ call'[s].at = clock
      BY <1>0, <2>1 DEF CreateBegin, TypeOK
    <2>3. OwnUpTo(VisibleTo(s), maker, s, t, clock)
      BY SeenIsMade DEF OwnUpTo
    <2> QED BY <1>2, <2>2, <2>3, OwnKept
  <1>4. CASE call'[s] = call[s]
    <2>1. InCall(s, "create")
      BY <1>1, <1>4 DEF InCall, Idle
    <2>2. OwnUpTo(VisibleTo(s), maker, s, call[s].task, call[s].at)
      BY <1>0, <2>1 DEF CreateInv
    <2> QED BY <1>2, <1>4, <2>2, OwnKept
  <1>5. ASSUME NEW t \in Tasks, LatestFind(s, t)
        PROVE  FALSE
    BY <1>0, <1>1, <1>5 DEF LatestFind, TypeOK
  <1> QED BY <1>1, <1>3, <1>4, <1>5, CallStep

LEMMA LatestStep == IInv /\ Next => LatestInv'
  <1> SUFFICES ASSUME IInv, Next, NEW s \in Services, InCall(s, "latest")'
               PROVE  /\ Sees(s, call[s].id)' /\ VisibleTo(s)'[call'[s].id].task = call'[s].task
                      /\ OwnUpTo(VisibleTo(s)', maker', s, call'[s].task,
                                 VisibleTo(s)'[call'[s].id].at)
                      /\ ~IsCached(call'[s].task, cache'[s])
    BY DEF LatestInv
  <1>0. TypeOK /\ Inv1 /\ LatestInv
    BY DEF IInv, Inv1, Inv2
  <1>1. call'[s] # NoCall /\ call'[s].op = "latest"
    BY DEF InCall, Idle
  <1>2. /\ OwnShrink(VisibleTo(s), maker, VisibleTo(s)', maker', s)
        /\ RowsStay(VisibleTo(s), VisibleTo(s)')
    BY <1>0, <1>1, ViewStep, InsertAsType DEF CreateInsert, BuildInsert
  <1> DEFINE t == call'[s].task
             b == call'[s].id
  <1>3. /\ b \in BundleIds /\ Sees(s, b) /\ VisibleTo(s)[b].task = t
        /\ OwnUpTo(VisibleTo(s), maker, s, t, VisibleTo(s)[b].at)
        /\ ~IsCached(t, cache'[s])
    <2>1. CASE call'[s] = call[s] /\ (call[s] = NoCall \/ cache'[s] = cache[s])
      <3>1. InCall(s, "latest") /\ cache'[s] = cache[s]
        BY <1>1, <2>1 DEF InCall, Idle
      <3>2. call[s].id \in BundleIds
        BY <1>0, <3>1, CallType
      <3> QED BY <1>0, <2>1, <3>1, <3>2 DEF LatestInv
    <2>2. ASSUME NEW task \in Tasks, LatestFind(s, task)
          PROVE  /\ b \in BundleIds /\ Sees(s, b) /\ VisibleTo(s)[b].task = t
                 /\ OwnUpTo(VisibleTo(s), maker, s, t, VisibleTo(s)[b].at)
                 /\ ~IsCached(t, cache'[s])
      <3>1. PICK c \in Newest(s, task) :
              call' = [call EXCEPT ![s] = [op |-> "latest", task |-> task, id |-> c]]
        BY <2>2 DEF LatestFind
      <3>2. t = task /\ b = c
        BY <1>0, <3>1 DEF TypeOK
      <3>3. /\ c \in BundleIds /\ Sees(s, c) /\ VisibleTo(s)[c].task = task
            /\ \A d \in BundleIds : Sees(s, d) /\ VisibleTo(s)[d].task = task =>
                 VisibleTo(s)[d].at <= VisibleTo(s)[c].at
        BY DEF Newest
      <3>4. OwnUpTo(VisibleTo(s), maker, s, task, VisibleTo(s)[c].at)
        BY <3>3 DEF OwnUpTo, Sees, SameTable
      <3>5. ~IsCached(task, cache'[s])
        BY <2>2 DEF LatestFind
      <3> QED BY <3>2, <3>3, <3>4, <3>5
    <2>3. ASSUME NEW task \in Tasks, CreateBegin(s, task)
          PROVE  FALSE
      BY <1>0, <1>1, <2>3 DEF CreateBegin, TypeOK
    <2> QED BY <1>1, <2>1, <2>2, <2>3, CallStep
  <1> HIDE DEF t, b
  <1>4. Same(VisibleTo(s)'[b], VisibleTo(s)[b])
    BY <1>2, <1>3 DEF RowsStay, Sees
  <1>5. maker'[b] = maker[b]
    BY <1>3, SeenIsMade, MakersStay DEF Sees
  <1>6. VisibleTo(s)'[b] # NoBundle /\ (maker'[b] \in Rebuilders <=> s \in Rebuilders)
    BY <1>3, <1>4, <1>5 DEF Same, Sees, SameTable
  <1>7. OwnUpTo(VisibleTo(s)', maker', s, t, VisibleTo(s)[b].at)
    BY <1>2, <1>3, OwnKept
  <1>8. Sees(s, call[s].id)'
    BY <1>6 DEF Sees, SameTable, b
  <1> QED BY <1>3, <1>4, <1>6, <1>7, <1>8 DEF Same, t, b

-------------------------------------------------------------------------------
(* Caches                                                                   *)

\* What the invariant says of the cache of s.
CacheOK(entries, rows, made, committed, s) ==
  /\ s \notin Rebuilders => Len(entries) <= CacheMax
  /\ OnePerTask(entries)
  /\ \A i \in 1..Len(entries) :
       /\ OwnUpTo(rows, made, s, entries[i].task, entries[i].at)
       /\ IsCommitted(committed, made, s, entries[i])

LEMMA CacheMeans ==
  CacheIsBounded /\ SeenInv /\ DraftInv <=>
    \A s \in Services : CacheOK(cache[s], VisibleTo(s), maker, stored, s)
  BY DEF CacheIsBounded, SeenInv, DraftInv, CacheOK, OnePerTask

LEMMA CacheMeansAfter ==
  ASSUME \A s \in Services : CacheOK(cache'[s], VisibleTo(s)', maker', stored', s)
  PROVE  CacheIsBounded' /\ SeenInv' /\ DraftInv'
  BY DEF CacheIsBounded, SeenInv, DraftInv, CacheOK, OnePerTask

LEMMA CommittedStays ==
  ASSUME IInv, Next, NEW s \in Services, NEW e \in Entries, IsCommitted(stored, maker, s, e)
  PROVE  IsCommitted(stored', maker', s, e)
  <1>0. Inv1 /\ DirtyInv /\ NoService \notin Services /\ e.id \in BundleIds
    BY BundleAssumption DEF IInv, Inv1, Entries
  <1>1. CASE maker[e.id] = s
    BY <1>0, <1>1, MakersStay DEF IsCommitted
  <1>2. CASE maker[e.id] # s
    <2>1. stored[e.id] # NoBundle
      BY <1>2 DEF IsCommitted
    <2>2. maker[e.id] # NoService
      BY <1>0, <2>1 DEF DirtyInv, Same
    <2>3. maker'[e.id] = maker[e.id]
      BY <1>0, <2>2, MakersStay
    <2>4. Same(stored'[e.id], stored[e.id])
      BY <1>0, <2>1, StoredStay DEF RowsStay
    <2> QED BY <1>2, <2>3, <2>4 DEF IsCommitted, Same
  <1> QED BY <1>1, <1>2

LEMMA CacheStep == IInv /\ Next => CacheIsBounded' /\ SeenInv' /\ DraftInv'
  <1> SUFFICES ASSUME IInv, Next, NEW s \in Services
               PROVE  CacheOK(cache'[s], VisibleTo(s)', maker', stored', s)
    BY CacheMeansAfter
  <1>0. TypeOK /\ Inv1 /\ LatestInv /\ CreateInv
    BY DEF IInv, Inv1, Inv2
  <1>a. CacheOK(cache[s], VisibleTo(s), maker, stored, s)
    BY CacheMeans DEF IInv, Inv2
  <1>b. cache[s] \in Seq(Entries) /\ OnePerTask(cache[s]) /\ CacheMax \in Nat
    BY <1>0, <1>a, BundleAssumption DEF TypeOK, CacheOK
  <1>c. \A i \in 1..Len(cache[s]) :
          cache[s][i] \in Entries /\ IsCommitted(stored', maker', s, cache[s][i])
    BY <1>a, <1>b, CommittedStays DEF CacheOK
  <1>1. ASSUME NEW b \in BundleIds, NEW refs \in SUBSET Refs, InsertAs(s, b, refs)
        PROVE  /\ CacheOK(Without(cache[s], call[s].task), VisibleTo(s)', maker', stored', s)
               /\ OwnUpTo(VisibleTo(s)', maker', s, call[s].task, call[s].at)
               /\ maker'[b] = s
    <2> DEFINE t == call[s].task
               rest == Without(cache[s], t)
    <2>1. InCall(s, "create") /\ call[s].at \in Nat
      BY <1>0, <1>1, CallType DEF InsertAs
    <2>2. /\ VisibleTo(s)'[b].task = t /\ VisibleTo(s)'[b].at = call[s].at /\ maker'[b] = s
          /\ \A c \in BundleIds \ {b} :
               VisibleTo(s)'[c] = VisibleTo(s)[c] /\ maker'[c] = maker[c]
      BY <1>0, <1>1, OwnInsert, InsertAsType
    <2>3. OwnUpTo(VisibleTo(s), maker, s, t, call[s].at)
      BY <1>0, <2>1 DEF CreateInv
    <2>4. OwnUpTo(VisibleTo(s)', maker', s, t, call[s].at)
      BY <2>1, <2>2, <2>3 DEF OwnUpTo
    <2>5. /\ rest \in Seq(Entries) /\ Len(rest) <= Len(cache[s])
          /\ OnePerTask(rest) /\ NothingNew(rest, cache[s]) /\ ~IsCached(t, rest)
      BY <1>b, WithoutTask
    <2> HIDE DEF t, rest
    <2>6. ASSUME NEW i \in 1..Len(rest)
          PROVE  /\ OwnUpTo(VisibleTo(s)', maker', s, rest[i].task, rest[i].at)
                 /\ IsCommitted(stored', maker', s, rest[i])
      <3>1. PICK j \in 1..Len(cache[s]) : rest[i] = cache[s][j]
        BY <2>5 DEF NothingNew
      <3>2. rest[i].task # t
        BY <2>5 DEF IsCached
      <3>3. OwnUpTo(VisibleTo(s), maker, s, rest[i].task, rest[i].at)
        BY <1>a, <3>1 DEF CacheOK
      <3>4. OwnUpTo(VisibleTo(s)', maker', s, rest[i].task, rest[i].at)
        BY <2>2, <3>2, <3>3 DEF OwnUpTo
      <3> QED BY <1>c, <3>1, <3>4
    <2>7. s \notin Rebuilders => Len(rest) <= CacheMax
      BY <1>a, <1>b, <2>5 DEF CacheOK
    <2> QED BY <2>2, <2>4, <2>5, <2>6, <2>7 DEF CacheOK, rest, t
  <1>2. ASSUME NEW b \in BundleIds, CreateInsert(s, b)
        PROVE  CacheOK(cache'[s], VisibleTo(s)', maker', stored', s)
    <2>1. cache'[s] = Without(cache[s], call[s].task)
      BY <1>0, <1>2 DEF CreateInsert, TypeOK
    <2> QED BY <1>1, <1>2, <2>1 DEF CreateInsert
  <1>3. ASSUME NEW b \in BundleIds, NEW refs \in SUBSET Refs, BuildInsert(s, b, refs)
        PROVE  CacheOK(cache'[s], VisibleTo(s)', maker', stored', s)
    <2> DEFINE rest == Without(cache[s], call[s].task)
               e == EntryOf(b, NewRow(s, refs))
               new == Append(rest, e)
    <2>1. InsertAs(s, b, refs) /\ s \in Rebuilders
      BY <1>3 DEF BuildInsert
    <2>2. cache'[s] = new
      BY <1>0, <1>3 DEF BuildInsert, TypeOK
    <2>3. e \in Entries /\ e.task = call[s].task /\ e.at = call[s].at /\ e.id = b
      BY <1>0, <2>1, InsertAsType, EntryType
    <2>4. /\ CacheOK(rest, VisibleTo(s)', maker', stored', s)
          /\ OwnUpTo(VisibleTo(s)', maker', s, e.task, e.at)
          /\ IsCommitted(stored', maker', s, e)
      BY <1>1, <2>1, <2>3 DEF IsCommitted
    <2>5. rest \in Seq(Entries) /\ OnePerTask(rest) /\ ~IsCached(e.task, rest)
      BY <1>b, <2>3, WithoutTask
    <2> HIDE DEF rest, e
    <2>6. /\ OnePerTask(new)
          /\ \A i \in 1..Len(new) : new[i] = e \/ \E j \in 1..Len(rest) : new[i] = rest[j]
      BY <2>3, <2>5, AppendEntry
    <2> HIDE DEF new
    <2> QED BY <2>1, <2>2, <2>4, <2>6 DEF CacheOK
  <1>4. ASSUME LatestLoad(s)
        PROVE  CacheOK(cache'[s], VisibleTo(s)', maker', stored', s)
    <2> DEFINE b == call[s].id
               e == EntryOf(b, VisibleTo(s)[b])
               new == Remember(s, cache[s], e)
    <2>1. /\ b \in BundleIds /\ Sees(s, b) /\ VisibleTo(s)[b].task = call[s].task
          /\ OwnUpTo(VisibleTo(s), maker, s, call[s].task, VisibleTo(s)[b].at)
          /\ ~IsCached(call[s].task, cache[s])
      BY <1>0, <1>4, CallType DEF LatestLoad, LatestInv
    <2>2. /\ VisibleTo(s)[b] \in Bundles
          /\ maker[b] # s => Same(stored[b], VisibleTo(s)[b])
      BY <2>1, SeenIsMade DEF Sees
    <2>3. /\ e \in Entries /\ e.task = VisibleTo(s)[b].task
          /\ e.at = VisibleTo(s)[b].at /\ e.id = b
      BY <2>1, <2>2, EntryType
    <2>4. /\ VisibleTo(s)' = VisibleTo(s) /\ maker' = maker /\ stored' = stored
          /\ cache'[s] = new
      BY <1>0, <1>4 DEF LatestLoad, VisibleTo, dbVars, TypeOK
    <2> HIDE DEF e
    <2>5. IsCommitted(stored, maker, s, e)
      BY <2>1, <2>2, <2>3 DEF IsCommitted, Same, Sees, SameTable
    <2>6. OwnUpTo(VisibleTo(s), maker, s, e.task, e.at)
      BY <2>1, <2>3
    <2>7. ~IsCached(e.task, cache[s]) /\ (s \notin Rebuilders => Len(cache[s]) <= CacheMax)
      BY <1>a, <2>1, <2>3 DEF CacheOK
    <2>8. /\ s \notin Rebuilders => Len(new) <= CacheMax
          /\ OnePerTask(new)
          /\ \A i \in 1..Len(new) : new[i] = e \/ \E j \in 1..Len(cache[s]) : new[i] = cache[s][j]
      BY <1>b, <2>3, <2>7, Remembers
    <2> HIDE DEF new
    <2>9. CacheOK(new, VisibleTo(s), maker, stored, s)
      BY <1>a, <2>5, <2>6, <2>8 DEF CacheOK
    <2> QED BY <2>4, <2>9
  <1>5. CASE cache'[s] = << >>
    BY <1>b, <1>5 DEF CacheOK, OnePerTask
  <1>6. CASE /\ cache'[s] = cache[s]
             /\ OwnShrink(VisibleTo(s), maker, VisibleTo(s)', maker', s)
    <2>1. \A i \in 1..Len(cache[s]) :
            OwnUpTo(VisibleTo(s)', maker', s, cache[s][i].task, cache[s][i].at)
      BY <1>a, <1>6, OwnKept DEF CacheOK
    <2> QED BY <1>a, <1>c, <1>6, <2>1 DEF CacheOK
  <1>7. \/ \E b \in BundleIds : CreateInsert(s, b) \/ \E refs \in SUBSET Refs : BuildInsert(s, b, refs)
        \/ LatestLoad(s) \/ cache'[s] = << >> \/ cache'[s] = cache[s]
    BY <1>0
       DEF Next, CreateFails, LatestLoad, ClearCache, Commit, Rollback, Restart, CreateBegin,
           LatestFind, CreateInsert, BuildInsert, AddSource, Tick, TypeOK
  <1> QED BY <1>2, <1>3, <1>4, <1>5, <1>6, <1>7, ViewStep

-------------------------------------------------------------------------------
(* The theorems                                                             *)

LEMMA InvStutters == IInv /\ UNCHANGED vars => IInv'
  BY DEF vars, IInv, Inv1, Inv2, TypeOK, DirtyInv, TimeInv, Same, CreateInv, LatestInv,
         InCall, Idle, OwnUpTo, VisibleTo, Sees, SameTable, CacheIsBounded, SeenInv, DraftInv,
         IsCommitted, IsCached

LEMMA InvStep == IInv /\ [Next]_vars => IInv'
  <1>1. IInv /\ Next => Inv1'
    BY TypeStep, RowsStep DEF Inv1
  <1>2. IInv /\ Next => Inv2'
    BY CreateStep, LatestStep, CacheStep DEF Inv2
  <1> QED BY <1>1, <1>2, InvStutters DEF IInv

LEMMA Invariance == Spec => []IInv
  BY InvInitially, InvStep, PTL DEF Spec

\* Rows, caches and calls keep their types, for any services.
THEOREM TypeCorrect == Spec => []TypeOK
  <1>1. IInv => TypeOK
    BY DEF IInv, Inv1
  <1> QED BY <1>1, Invariance, PTL

\* A cache never holds more than its maximum, nor two bundles of a task.
THEOREM Bounded == Spec => []CacheIsBounded
  <1>1. IInv => CacheIsBounded
    BY DEF IInv, Inv2
  <1> QED BY <1>1, Invariance, PTL

\* No cached bundle is older than one that its service made, committed or not.
THEOREM OwnIsSeen == Spec => []OwnBundleIsSeen
  <1>1. IInv => OwnBundleIsSeen
    BY DEF IInv, Inv2, SeenInv, OwnUpTo, OwnBundleIsSeen
  <1> QED BY <1>1, Invariance, PTL

\* A bundle that was rolled back is in no cache but that of its own service.
THEOREM DraftsStayHome == Spec => []OnlyOwnDraftsAreCached
  <1>1. IInv => OnlyOwnDraftsAreCached
    BY DEF IInv, Inv2, DraftInv, IsCommitted, OnlyOwnDraftsAreCached, SameTable
  <1> QED BY <1>1, Invariance, PTL

\* No commit takes a committed bundle away, changes it or takes a source from it.
THEOREM Kept == Spec => StoredForGood
  <1>1. ASSUME IInv, [Next]_vars, NEW b \in BundleIds, stored[b] # NoBundle
        PROVE  /\ stored'[b] # NoBundle
               /\ stored'[b].at = stored[b].at /\ stored'[b].task = stored[b].task
               /\ stored[b].refs \subseteq stored'[b].refs
    <2>1. stored' \in {stored, dirty}
      BY <1>1
         DEF Next, vars, CreateFails, LatestLoad, ClearCache, Commit, Rollback, Restart,
             CreateBegin, LatestFind, CreateInsert, BuildInsert, InsertAs, AddSource, Tick, dbVars
    <2> QED BY <1>1, <2>1 DEF IInv, Inv1, DirtyInv, Same
  <1>2. IInv /\ [Next]_vars =>
          [\A b \in BundleIds :
             stored[b] # NoBundle =>
               /\ stored'[b] # NoBundle
               /\ stored'[b].at = stored[b].at /\ stored'[b].task = stored[b].task
               /\ stored[b].refs \subseteq stored'[b].refs]_vars
    BY <1>1
  <1> QED BY <1>2, Invariance, PTL DEF Spec, StoredForGood
-------------------------------------------------------------------------------
(* Sources that are added in time                                           *)

\* A program that adds all sources of a bundle in the transaction that creates it, and
\* before it asks for the bundle: the callers' discipline, no code enforces it.
SourcesFirst ==
  \A s \in Services, b \in BundleIds, r \in Refs :
    AddSource(s, b, r) =>
      stored[b] = NoBundle /\ \A i \in 1..Len(cache[s]) : cache[s][i].id # b

CopyInv ==
  /\ \A b \in BundleIds : stored[b] # NoBundle => dirty[b] = stored[b]
  /\ LatestListsItsSources

\* An id in a cache has been given out.
LEMMA CachedIsMade ==
  ASSUME IInv, NEW s \in Services, NEW i \in 1..Len(cache[s])
  PROVE  /\ cache[s][i].id \in BundleIds /\ maker[cache[s][i].id] # NoService
         /\ maker[cache[s][i].id] # s => stored[cache[s][i].id] # NoBundle
  <1>1. cache[s][i] \in Entries /\ NoService \notin Services
    BY BundleAssumption DEF IInv, Inv1, TypeOK
  <1>2. cache[s][i].id \in BundleIds
    BY <1>1 DEF Entries
  <1>3. IsCommitted(stored, maker, s, cache[s][i])
    BY DEF IInv, Inv2, DraftInv
  <1> QED BY <1>1, <1>2, <1>3 DEF IsCommitted, IInv, Inv1, DirtyInv, Same

\* What a service sees of a bundle it has cached keeps its sources.
LEMMA CachedRowStays ==
  ASSUME IInv, CopyInv, Next, SourcesFirst, NEW s \in Services, NEW i \in 1..Len(cache[s]),
         VisibleTo(s)'[cache[s][i].id] # NoBundle
  PROVE  /\ VisibleTo(s)[cache[s][i].id] # NoBundle
         /\ VisibleTo(s)'[cache[s][i].id] = VisibleTo(s)[cache[s][i].id]
  <1> DEFINE id == cache[s][i].id
  <1>0. Inv1 /\ DirtyInv /\ NoService \notin Services
    BY BundleAssumption DEF IInv, Inv1
  <1>a. /\ id \in BundleIds /\ maker[id] # NoService
        /\ maker[id] # s => stored[id] # NoBundle
    BY CachedIsMade
  <1>b. stored[id] # NoBundle => dirty[id] = stored[id]
    BY <1>a DEF CopyInv
  <1>1. CASE VisibleTo(s)' = VisibleTo(s)
    BY <1>1
  <1>2. ASSUME NEW q \in Services, Commit(q)
        PROVE  VisibleTo(s)'[id] = VisibleTo(s)[id]
    <2>1. /\ holder = q /\ VisibleTo(s)' = dirty
          /\ VisibleTo(s) = IF q = s THEN dirty ELSE stored
      BY <1>0, <1>2 DEF Commit, VisibleTo
    <2>2. q # s => stored[id] # NoBundle
      BY <1>0, <1>a, <2>1 DEF DirtyInv
    <2> QED BY <1>b, <2>1, <2>2
  <1>3. ASSUME NEW q \in Services, Rollback(q) \/ Restart(q)
        PROVE  VisibleTo(s)'[id] = VisibleTo(s)[id]
    <2>1. \/ VisibleTo(s)' = stored /\ VisibleTo(s) \in {stored, dirty}
          \/ VisibleTo(s)' = VisibleTo(s)
      BY <1>0, <1>3 DEF Rollback, Restart, VisibleTo
    <2> QED BY <1>b, <2>1
  <1>4. ASSUME NEW q \in Services, NEW b \in BundleIds, NEW refs \in SUBSET Refs,
               InsertAs(q, b, refs)
        PROVE  VisibleTo(s)'[id] = VisibleTo(s)[id]
    <2>1. b # id
      BY <1>4, <1>a DEF InsertAs
    <2>2. CASE q = s
      BY <1>4, <1>a, <2>1, <2>2, OwnInsert
    <2>3. CASE q # s
      BY <1>0, <1>4, <2>3, InsertAsType DEF VisibleTo
    <2> QED BY <2>2, <2>3
  <1>5. ASSUME NEW q \in Services, NEW b \in BundleIds, NEW r \in Refs, AddSource(q, b, r)
        PROVE  VisibleTo(s)'[id] = VisibleTo(s)[id]
    <2>1. CASE q = s
      <3>1. b # id
        BY <1>5, <2>1 DEF SourcesFirst
      <3>2. VisibleTo(s) = dirty /\ VisibleTo(s)' = dirty'
        BY <1>0, <1>5, <2>1, AddSourceType DEF VisibleTo, DirtyInv
      <3> QED BY <1>0, <1>5, <1>a, <3>1, <3>2, AddSourceType
    <2>2. CASE q # s
      BY <1>0, <1>5, <2>2, AddSourceType DEF VisibleTo
    <2> QED BY <2>1, <2>2
  <1>6. \/ VisibleTo(s)' = VisibleTo(s)
        \/ \E q \in Services :
             \/ Commit(q) \/ Rollback(q) \/ Restart(q)
             \/ \E b \in BundleIds :
                  \/ \E refs \in SUBSET Refs : InsertAs(q, b, refs)
                  \/ \E r \in Refs : AddSource(q, b, r)
    BY DEF Next, CreateFails, LatestLoad, ClearCache, CreateBegin, LatestFind, Tick, dbVars,
           VisibleTo, CreateInsert, BuildInsert
  <1> HIDE DEF id
  <1>7. VisibleTo(s)'[id] = VisibleTo(s)[id]
    BY <1>1, <1>2, <1>3, <1>4, <1>5, <1>6
  <1> QED BY <1>7 DEF id

LEMMA CommittedAreFinal ==
  ASSUME IInv, CopyInv, Next, SourcesFirst, NEW b \in BundleIds, stored'[b] # NoBundle
  PROVE  dirty'[b] = stored'[b]
  <1>0. Inv1 /\ DirtyInv /\ (stored[b] # NoBundle => dirty[b] = stored[b])
    BY DEF IInv, Inv1, CopyInv
  <1>1. CASE dirty' = stored' \/ (dirty' = dirty /\ stored' = stored)
    BY <1>0, <1>1
  <1>2. ASSUME NEW q \in Services, NEW c \in BundleIds, NEW refs \in SUBSET Refs,
               InsertAs(q, c, refs)
        PROVE  dirty'[b] = stored'[b]
    BY <1>0, <1>2, InsertAsType
  <1>3. ASSUME NEW q \in Services, NEW c \in BundleIds, NEW r \in Refs, AddSource(q, c, r)
        PROVE  dirty'[b] = stored'[b]
    BY <1>0, <1>3, AddSourceType DEF SourcesFirst
  <1> QED BY <1>1, <1>2, <1>3
          DEF Next, CreateFails, LatestLoad, ClearCache, Commit, Rollback, Restart, CreateBegin,
              LatestFind, Tick, dbVars, CreateInsert, BuildInsert

\* Where the entries of a cache come from: they were there, or are of a row as it is now.
LEMMA EntriesStep ==
  ASSUME IInv, Next, NEW s \in Services, NEW k \in 1..Len(cache'[s])
  PROVE  \/ \E i \in 1..Len(cache[s]) : cache'[s][k] = cache[s][i]
         \/ \E b \in BundleIds : cache'[s][k] = EntryOf(b, VisibleTo(s)'[b])
  <1>0. TypeOK /\ Inv1 /\ LatestInv
    BY DEF IInv, Inv1, Inv2
  <1>b. /\ cache[s] \in Seq(Entries) /\ OnePerTask(cache[s])
        /\ s \notin Rebuilders => Len(cache[s]) <= CacheMax
    BY <1>0 DEF TypeOK, IInv, Inv2, CacheIsBounded, OnePerTask
  <1>1. CASE \E b \in BundleIds : CreateInsert(s, b)
    <2>1. cache'[s] = Without(cache[s], call[s].task)
      BY <1>0, <1>1 DEF CreateInsert, TypeOK
    <2>2. NothingNew(cache'[s], cache[s])
      BY <1>b, <2>1, WithoutTask
    <2> QED BY <2>2 DEF NothingNew
  <1>2. CASE \E b \in BundleIds, refs \in SUBSET Refs : BuildInsert(s, b, refs)
    <2>1. PICK b \in BundleIds, refs \in SUBSET Refs : BuildInsert(s, b, refs)
      BY <1>2
    <2> DEFINE rest == Without(cache[s], call[s].task)
               e == EntryOf(b, NewRow(s, refs))
               new == Append(rest, e)
    <2>2. InsertAs(s, b, refs) /\ cache'[s] = new
      BY <1>0, <2>1 DEF BuildInsert, TypeOK
    <2>3. e \in Entries /\ e.task = call[s].task
      BY <1>0, <2>2, InsertAsType, EntryType
    <2>4. /\ rest \in Seq(Entries) /\ OnePerTask(rest) /\ ~IsCached(e.task, rest)
          /\ NothingNew(rest, cache[s])
      BY <1>b, <2>3, WithoutTask
    <2>5. e = EntryOf(b, VisibleTo(s)'[b])
      BY <2>2, OwnInsert
    <2> HIDE DEF rest, e
    <2>6. new[k] = e \/ \E j \in 1..Len(rest) : new[k] = rest[j]
      BY <2>2, <2>3, <2>4, AppendEntry
    <2> HIDE DEF new
    <2> QED BY <2>2, <2>4, <2>5, <2>6 DEF NothingNew
  <1>3. CASE LatestLoad(s)
    <2> DEFINE b == call[s].id
               e == EntryOf(b, VisibleTo(s)[b])
               new == Remember(s, cache[s], e)
    <2>1. /\ b \in BundleIds /\ Sees(s, b) /\ VisibleTo(s)[b].task = call[s].task
          /\ ~IsCached(call[s].task, cache[s])
      BY <1>0, <1>3, CallType DEF LatestLoad, LatestInv
    <2>2. VisibleTo(s)[b] \in Bundles
      BY <1>0, <2>1 DEF Sees, VisibleTo, TypeOK
    <2>3. e \in Entries /\ ~IsCached(e.task, cache[s])
      BY <2>1, <2>2, EntryType
    <2>4. VisibleTo(s)' = VisibleTo(s) /\ cache'[s] = new
      BY <1>0, <1>3 DEF LatestLoad, VisibleTo, dbVars, TypeOK
    <2>5. e = EntryOf(b, VisibleTo(s)'[b])
      BY <2>4
    <2> HIDE DEF e
    <2>6. new[k] = e \/ \E j \in 1..Len(cache[s]) : new[k] = cache[s][j]
      BY <1>b, <2>3, <2>4, Remembers
    <2> QED BY <2>1, <2>4, <2>5, <2>6
  <1>4. CASE cache'[s] = << >>
    BY <1>4
  <1>5. CASE cache'[s] = cache[s]
    BY <1>5
  <1>6. \/ \E b \in BundleIds : CreateInsert(s, b) \/ \E refs \in SUBSET Refs : BuildInsert(s, b, refs)
        \/ LatestLoad(s) \/ cache'[s] = << >> \/ cache'[s] = cache[s]
    BY <1>0
       DEF Next, CreateFails, LatestLoad, ClearCache, Commit, Rollback, Restart, CreateBegin,
           LatestFind, CreateInsert, BuildInsert, AddSource, Tick, TypeOK
  <1> QED BY <1>1, <1>2, <1>3, <1>4, <1>5, <1>6

LEMMA CopyStep == IInv /\ CopyInv /\ [Next]_vars /\ [SourcesFirst]_vars => CopyInv'
  <1>1. ASSUME IInv, CopyInv, Next, SourcesFirst
        PROVE  CopyInv'
    <2>1. \A b \in BundleIds : stored'[b] # NoBundle => dirty'[b] = stored'[b]
      BY <1>1, CommittedAreFinal
    <2>2. ASSUME NEW s \in Services, NEW k \in 1..Len(cache'[s]),
                 VisibleTo(s)'[cache'[s][k].id] # NoBundle
          PROVE  cache'[s][k].refs = VisibleTo(s)'[cache'[s][k].id].refs
      <3>1. CASE \E i \in 1..Len(cache[s]) : cache'[s][k] = cache[s][i]
        <4>1. PICK i \in 1..Len(cache[s]) : cache'[s][k] = cache[s][i]
          BY <3>1
        <4> QED BY <1>1, <2>2, <4>1, CachedRowStays DEF CopyInv, LatestListsItsSources
      <3>2. CASE \E b \in BundleIds : cache'[s][k] = EntryOf(b, VisibleTo(s)'[b])
        BY <3>2 DEF EntryOf
      <3> QED BY <1>1, <3>1, <3>2, EntriesStep
    <2> QED BY <2>1, <2>2 DEF CopyInv, LatestListsItsSources
  <1>2. CopyInv /\ UNCHANGED vars => CopyInv'
    BY DEF CopyInv, LatestListsItsSources, VisibleTo, vars
  <1> QED BY <1>1, <1>2

\* The latest bundle lists the sources it has, as long as the programs add sources in the
\* transaction that creates a bundle and before they ask for it: what bundle_sources shows
\* to be false takes a source that comes later.
THEOREM EarlySourcesAreListed == Spec /\ [][SourcesFirst]_vars => []LatestListsItsSources
  <1>1. Init => CopyInv
    BY DEF Init, CopyInv, LatestListsItsSources
  <1>2. CopyInv => LatestListsItsSources
    BY DEF CopyInv
  <1> QED BY <1>1, <1>2, CopyStep, Invariance, PTL DEF Spec
=============================================================================
