--------------------------- MODULE ResolutionProofs ---------------------------
(****************************************************************************)
(* What Resolution guarantees for any references, dashboards and resolvers. *)
(****************************************************************************)
EXTENDS Resolution, WellFoundedInduction, TLAPS

-------------------------------------------------------------------------------
(* 1. Induction on the natural numbers                                      *)

\* Numbers that are not all there have a least one that is missing.
LEMMA LeastNumber ==
  ASSUME NEW T \in SUBSET Nat, T # {}
  PROVE  \E n \in T : \A m \in T : n <= m
  <1> DEFINE R == OpToRel(<, Nat)
  <1>1. IsWellFoundedOn(R, Nat)
    BY NatLessThanWellFounded
  <1>2. \A x, y \in Nat : <<y, x>> \in R <=> y < x
    BY DEF OpToRel
  <1> HIDE DEF R
  <1>3. PICK n \in T : \A m \in T : ~(<<m, n>> \in R)
    BY <1>1, WFMin
  <1>4. \A m \in T : n \in Nat /\ m \in Nat /\ ~(m < n)
    BY <1>2, <1>3
  <1> QED BY <1>3, <1>4

LEMMA NatIsLeast ==
  ASSUME NEW T, 0 \in T, \A n \in Nat : n \in T => n + 1 \in T
  PROVE  Nat \subseteq T
  <1> SUFFICES ASSUME Nat \ T # {} PROVE FALSE
    OBVIOUS
  <1>1. PICK n \in Nat \ T : \A m \in Nat \ T : n <= m
    BY LeastNumber
  <1>2. n \in Nat \ {0} /\ n - 1 \in Nat /\ ~(n <= n - 1)
    BY <1>1
  <1>3. n - 1 \in T
    BY <1>1, <1>2
  <1> QED BY <1>2, <1>3

-------------------------------------------------------------------------------
(* 2. The sources of a bundle                                               *)

Source(kind, text) == [kind |-> kind, ref |-> Canonical(text)]

\* One turn of the loop over a list of the dashboard.
Turn(kind, texts, refs, n) ==
  IF n = 0 THEN << >>
  ELSE IF IsValid(texts[n]) THEN Append(refs[n - 1], Source(kind, texts[n]))
       ELSE refs[n - 1]

LEMMA LoopExists ==
  ASSUME NEW kind, NEW texts, NEW N \in Nat
  PROVE  \E refs : refs = [n \in 0..N |-> Turn(kind, texts, refs, n)]
  <1> DEFINE Loop(m) == \E refs : refs = [n \in 0..m |-> Turn(kind, texts, refs, n)]
             T == {m \in Nat : Loop(m)}
  <1>1. Loop(0)
    <2> DEFINE refs == [n \in 0..0 |-> << >>]
    <2>1. refs = [n \in 0..0 |-> Turn(kind, texts, refs, n)]
      BY DEF Turn
    <2> QED BY <2>1
  <1>2. ASSUME NEW m \in Nat, Loop(m) PROVE Loop(m + 1)
    <2>1. PICK refs : refs = [n \in 0..m |-> Turn(kind, texts, refs, n)]
      BY <1>2
    <2> DEFINE more == [n \in 0..(m + 1) |->
                          IF n \in 0..m THEN refs[n] ELSE Turn(kind, texts, refs, n)]
    <2>2. ASSUME NEW n \in 0..(m + 1)
          PROVE  more[n] = Turn(kind, texts, more, n)
      <3>1. CASE n = 0
        BY <2>1, <3>1 DEF Turn
      <3>2. CASE n # 0
        <4>1. n - 1 \in 0..m /\ n - 1 \in 0..(m + 1)
          BY <3>2
        <4>2. more[n - 1] = refs[n - 1]
          BY <4>1
        <4>3. Turn(kind, texts, more, n) = Turn(kind, texts, refs, n)
          BY <4>2, <3>2 DEF Turn
        <4>4. more[n] = Turn(kind, texts, refs, n)
          <5>1. CASE n \in 0..m
            <6>1. refs[n] = Turn(kind, texts, refs, n)
              BY <2>1, <5>1
            <6> QED BY <5>1, <6>1
          <5> QED BY <5>1
        <4> QED BY <4>3, <4>4
      <3> QED BY <3>1, <3>2
    <2>3. more = [n \in 0..(m + 1) |-> more[n]]
      OBVIOUS
    <2> HIDE DEF more
    <2>4. more = [n \in 0..(m + 1) |-> Turn(kind, texts, more, n)]
      BY <2>2, <2>3
    <2> QED BY <2>4
  <1> HIDE DEF Loop
  <1>3. 0 \in T /\ \A m \in Nat : m \in T => m + 1 \in T
    BY <1>1, <1>2
  <1>4. Nat \subseteq T
    <2> HIDE DEF T
    <2> QED BY <1>3, NatIsLeast
  <1>5. Loop(N)
    BY <1>4
  <1> QED BY <1>5 DEF Loop

\* OfKind is what the loop has collected at its end.
LEMMA OfKindIsTheLoop ==
  ASSUME NEW kind, NEW texts \in Seq(Texts)
  PROVE  \E refs : /\ refs = [n \in 0..Len(texts) |-> Turn(kind, texts, refs, n)]
                   /\ OfKind(kind, texts) = refs[Len(texts)]
  <1> DEFINE refs == CHOOSE f : f = [n \in 0..Len(texts) |-> Turn(kind, texts, f, n)]
  <1>1. Len(texts) \in Nat
    OBVIOUS
  <1>2. refs = [n \in 0..Len(texts) |-> Turn(kind, texts, refs, n)]
    <2>1. \E f : f = [n \in 0..Len(texts) |-> Turn(kind, texts, f, n)]
      BY <1>1, LoopExists
    <2> QED BY <2>1
  <1>3. OfKind(kind, texts) = refs[Len(texts)]
    BY DEF OfKind, Turn, Source
  <1> QED BY <1>2, <1>3

\* The places among the first n texts of those that are references.
Valid(texts, n) == {i \in 1..n : IsValid(texts[i])}

\* kept are the sources of the first n texts that are references, in their order.
Filtered(kind, texts, n, kept) ==
  /\ kept \in Seq([kind : {kind}, ref : Texts])
  /\ \E place \in [1..Len(kept) -> Valid(texts, n)] :
       /\ \A k \in 1..Len(kept) : kept[k] = Source(kind, texts[place[k]])
       /\ \A k, l \in 1..Len(kept) : k < l => place[k] < place[l]
       /\ \A i \in Valid(texts, n) : \E k \in 1..Len(kept) : place[k] = i

LEMMA CanonicalIsText ==
  ASSUME NEW text \in Texts, IsValid(text)
  PROVE  Canonical(text) \in Texts
  <1> DEFINE s == Segments(text)  ref == Parse(text)
  <1>1. ref # Invalid /\ Canonical(text) = Written(ref)
    BY DEF IsValid, Canonical
  <1>2. s # << >>
    BY <1>1 DEF Parse
  <1>3. s \in Seq(Pieces) /\ Len(s) = 4
    <2>1. DefaultProvider \in Pieces /\ text \in Seq(Pieces)
      BY PiecesAssumption DEF Texts
    <2> QED BY <1>2, <2>1 DEF Segments
  <1>4. ref = [domain |-> lower[s[1]], type |-> lower[s[2]], provider |-> lower[s[3]],
               id |-> s[4]]
    BY <1>1, <1>2 DEF Parse
  <1> HIDE DEF s
  <1>5. s[1] \in Pieces /\ s[2] \in Pieces /\ s[3] \in Pieces /\ s[4] \in Pieces
    BY <1>3
  <1>6. /\ ref.domain \in Pieces /\ ref.type \in Pieces
        /\ ref.provider \in Pieces /\ ref.id \in Pieces
    BY <1>4, <1>5, PiecesAssumption
  <1> HIDE DEF ref
  <1> QED BY <1>1, <1>6 DEF Written, Texts

\* One more text.
LEMMA FilterStep ==
  ASSUME NEW kind, NEW texts \in Seq(Texts), NEW n \in Nat, n + 1 \in 1..Len(texts),
         NEW kept, Filtered(kind, texts, n, kept)
  PROVE  Filtered(kind, texts, n + 1,
                  IF IsValid(texts[n + 1]) THEN Append(kept, Source(kind, texts[n + 1]))
                  ELSE kept)
  <1>1. PICK place \in [1..Len(kept) -> Valid(texts, n)] :
          /\ \A k \in 1..Len(kept) : kept[k] = Source(kind, texts[place[k]])
          /\ \A k, l \in 1..Len(kept) : k < l => place[k] < place[l]
          /\ \A i \in Valid(texts, n) : \E k \in 1..Len(kept) : place[k] = i
    BY DEF Filtered
  <1>2. kept \in Seq([kind : {kind}, ref : Texts]) /\ Len(kept) \in Nat
    BY DEF Filtered
  <1>3. CASE ~IsValid(texts[n + 1])
    <2>1. Valid(texts, n + 1) = Valid(texts, n)
      BY <1>3 DEF Valid
    <2> QED BY <1>1, <1>2, <1>3, <2>1 DEF Filtered
  <1>4. CASE IsValid(texts[n + 1])
    <2> DEFINE source == Source(kind, texts[n + 1])
               new == Append(kept, source)
               N == Len(kept) + 1
               there == [k \in 1..N |-> IF k = N THEN n + 1 ELSE place[k]]
    <2>1. /\ Valid(texts, n + 1) = Valid(texts, n) \cup {n + 1}
          /\ \A i \in Valid(texts, n) : i \in Nat /\ i < n + 1
      BY <1>4 DEF Valid
    <2>2. source \in [kind : {kind}, ref : Texts]
      BY <1>4, CanonicalIsText DEF Source
    <2>3. /\ new \in Seq([kind : {kind}, ref : Texts]) /\ Len(new) = N /\ N \in Nat
          /\ new[N] = source
          /\ \A k \in 1..Len(kept) : new[k] = kept[k] /\ k \in 1..N /\ k # N
          /\ \A k \in 1..N : k # N => k \in 1..Len(kept)
      BY <1>2, <2>2
    <2>4. /\ there \in [1..N -> Valid(texts, n + 1)]
          /\ \A k \in 1..N : there[k] = IF k = N THEN n + 1 ELSE place[k]
      BY <2>1, <2>3
    <2> HIDE DEF new, there, N
    <2>5. \A k \in 1..N : new[k] = Source(kind, texts[there[k]])
      BY <1>1, <2>3, <2>4
    <2>6. \A k, l \in 1..N : k < l => there[k] < there[l]
      <3> SUFFICES ASSUME NEW k \in 1..N, NEW l \in 1..N, k < l
                   PROVE  there[k] < there[l]
        OBVIOUS
      <3>1. k # N /\ k \in 1..Len(kept)
        BY <2>3
      <3>2. CASE l = N
        BY <2>1, <2>3, <2>4, <3>1, <3>2
      <3>3. CASE l # N
        BY <1>1, <2>3, <2>4, <3>1, <3>3
      <3> QED BY <3>2, <3>3
    <2>7. ASSUME NEW i \in Valid(texts, n + 1)
          PROVE  \E k \in 1..N : there[k] = i
      <3>1. CASE i = n + 1
        <4>1. N \in 1..N /\ there[N] = i
          BY <2>3, <2>4, <3>1 DEF N
        <4> QED BY <4>1
      <3>2. CASE i \in Valid(texts, n)
        BY <1>1, <2>3, <2>4, <3>2
      <3> QED BY <2>1, <3>1, <3>2
    <2>8. Filtered(kind, texts, n + 1, new)
      BY <2>3, <2>4, <2>5, <2>6, <2>7 DEF Filtered
    <2> QED BY <1>4, <2>8 DEF new
  <1> QED BY <1>3, <1>4

\* The dashboard's references of a kind are the canonical forms of its texts that are
\* references, all of them and in their order: nothing is invented, doubled or moved.
THEOREM OfKindIsFilter ==
  ASSUME NEW kind, NEW texts \in Seq(Texts)
  PROVE  Filtered(kind, texts, Len(texts), OfKind(kind, texts))
  <1>1. PICK refs : /\ refs = [n \in 0..Len(texts) |-> Turn(kind, texts, refs, n)]
                    /\ OfKind(kind, texts) = refs[Len(texts)]
    BY OfKindIsTheLoop
  <1>2. /\ Len(texts) \in Nat
        /\ \A n \in 0..Len(texts) : refs[n] = Turn(kind, texts, refs, n)
    BY <1>1
  <1> DEFINE T == {n \in Nat : n \in 0..Len(texts) => Filtered(kind, texts, n, refs[n])}
  <1>3. 0 \in T
    <2>1. refs[0] = << >> /\ Valid(texts, 0) = {}
      BY <1>2 DEF Turn, Valid
    <2>2. Filtered(kind, texts, 0, << >>)
      <3> DEFINE nowhere == [k \in 1..0 |-> 0]
      <3>1. Len(<< >>) = 0 /\ 1..0 = {} /\ << >> \in Seq([kind : {kind}, ref : Texts])
        OBVIOUS
      <3>2. nowhere \in [1..Len(<< >>) -> Valid(texts, 0)]
        BY <2>1, <3>1
      <3> HIDE DEF nowhere
      <3> QED BY <2>1, <3>1, <3>2 DEF Filtered
    <2> QED BY <2>1, <2>2
  <1>4. ASSUME NEW n \in Nat, n \in T PROVE n + 1 \in T
    <2> SUFFICES ASSUME n + 1 \in 0..Len(texts)
                 PROVE  Filtered(kind, texts, n + 1, refs[n + 1])
      OBVIOUS
    <2>1. n \in 0..Len(texts) /\ n + 1 \in 1..Len(texts) /\ (n + 1) - 1 = n /\ n + 1 # 0
      BY <1>2
    <2>2. Filtered(kind, texts, n, refs[n])
      BY <1>4, <2>1
    <2>3. refs[n + 1] = IF IsValid(texts[n + 1])
                        THEN Append(refs[n], Source(kind, texts[n + 1])) ELSE refs[n]
      BY <1>2, <2>1 DEF Turn
    <2> QED BY <2>1, <2>2, <2>3, FilterStep
  <1>5. Nat \subseteq T
    <2> HIDE DEF T
    <2> QED BY <1>3, <1>4, NatIsLeast
  <1>6. Filtered(kind, texts, Len(texts), refs[Len(texts)])
    BY <1>2, <1>5
  <1> QED BY <1>1, <1>6

Kinds == {"task", "decision", "open_question", "run", "artifact", "evidence"}
Sources == [kind : Kinds, ref : Texts]

LEMMA SeqOfMore ==
  ASSUME NEW S, NEW T, S \subseteq T
  PROVE  Seq(S) \subseteq Seq(T)
  OBVIOUS

LEMMA WantedAreSources ==
  ASSUME NEW d \in Rows
  PROVE  Wanted(d) \in Seq(Sources) /\ Wanted(d) # << >>
  <1>1. d.artifact \in Seq(Texts) /\ d.evidence \in Seq(Texts)
    BY ResolutionAssumption
  <1>2. \A kind \in {"artifact", "evidence"} : [kind : {kind}, ref : Texts] \subseteq Sources
    BY DEF Sources, Kinds
  <1>3. /\ OfKind("artifact", d.artifact) \in Seq(Sources)
        /\ OfKind("evidence", d.evidence) \in Seq(Sources)
    <2>1. /\ OfKind("artifact", d.artifact) \in Seq([kind : {"artifact"}, ref : Texts])
          /\ OfKind("evidence", d.evidence) \in Seq([kind : {"evidence"}, ref : Texts])
      BY <1>1, OfKindIsFilter DEF Filtered
    <2>2. /\ Seq([kind : {"artifact"}, ref : Texts]) \subseteq Seq(Sources)
          /\ Seq([kind : {"evidence"}, ref : Texts]) \subseteq Seq(Sources)
      BY <1>2, SeqOfMore, Zenon
    <2> QED BY <2>1, <2>2
  <1>4. d.own \in Seq(Sources) /\ d.own # << >>
    <2>1. [kind : {"task", "decision", "open_question", "run"}, ref : Texts] \subseteq Sources
      BY DEF Sources, Kinds
    <2>2. /\ d.own \in Seq([kind : {"task", "decision", "open_question", "run"}, ref : Texts])
          /\ d.own # << >>
      BY ResolutionAssumption
    <2> QED BY <2>1, <2>2, SeqOfMore
  <1> HIDE DEF Sources
  <1> QED BY <1>3, <1>4 DEF Wanted

-------------------------------------------------------------------------------
(* 3. The report and the bundle                                             *)

LEMMA ResultsAreOfTheirReference ==
  ASSUME NEW ref \in Texts, NEW result \in ResolveRef(ref)
  PROVE  result \in Results /\ result.ref = ref
  <1>1. ASSUME NEW raw \in BOOLEAN
        PROVE  Resolved(ref, raw) \in Results /\ Resolved(ref, raw).ref = ref
    BY DEF Resolved, Results, Statuses
  <1>2. ASSUME NEW status \in Statuses
        PROVE  NotResolved(ref, status) \in Results /\ NotResolved(ref, status).ref = ref
    BY DEF NotResolved, Results, Statuses
  <1>3. ASSUME NEW resolver, NEW answer \in ResultsOf(resolver, ref)
        PROVE  answer \in Results /\ answer.ref = ref
    BY <1>1, <1>2 DEF ResultsOf, Statuses
  <1>4. CASE \E i \in MayDecide(ref) : result \in ResultsOf(Registered[i], ref)
    BY <1>3, <1>4
  <1>5. CASE result = NotResolved(ref, "unsupported")
    BY <1>2, <1>5 DEF Statuses
  <1>6. \/ \E i \in MayDecide(ref) : result \in ResultsOf(Registered[i], ref)
        \/ result = NotResolved(ref, "unsupported")
    BY DEF ResolveRef
  <1> QED BY <1>4, <1>5, <1>6

LEMMA RawIsOneOfThree ==
  ASSUME NEW ref, NEW payload \in LoadRaw(ref)
  PROVE  payload \in {"none", "json", "odd"}
  BY DEF LoadRaw, Payloads

\* While build() runs, results are those of the first sources in their order, and
\* raw content is only loaded, if it is asked for, when the report is there; an exception
\* on the way to the report takes all results with it.
ReportInv ==
  /\ TypeOK
  /\ sources \in Seq(Sources)
  /\ \A i \in 1..Len(results) : results[i].ref = sources[i].ref
  /\ raws \subseteq Reported("resolved")
  /\ raws # {} => includeRaw
  /\ at \in {"idle", "resolve"} => looked = 0 /\ raws = {}
  /\ at = "load" => includeRaw /\ Len(results) = Len(sources)
  /\ at = "store" => escaped \/ Len(results) = Len(sources)
  /\ CompleteUnlessPartial
  /\ RawIsOfASource

LEMMA ReportInitially == Init => ReportInv
  <1> SUFFICES ASSUME Init PROVE ReportInv
    OBVIOUS
  <1>1. world \in [Refs -> Answers]
    BY DEF Init, Answers
  <1>2. /\ sources = << >> /\ results = << >> /\ looked = 0 /\ raws = {} /\ odd = {}
        /\ at = "idle" /\ includeRaw = FALSE /\ escaped = FALSE /\ bundle = NoBundle
    BY DEF Init
  <1>3. results \in Seq(Results) /\ sources \in Seq(Sources)
        /\ Len(results) = 0 /\ Len(sources) = 0
    BY <1>2
  <1>4. {includeRaw, escaped} \subseteq BOOLEAN
    BY <1>2, Zenon
  <1>5. TypeOK
    BY <1>1, <1>2, <1>3, <1>4 DEF TypeOK
  <1> QED BY <1>2, <1>3, <1>5 DEF ReportInv, CompleteUnlessPartial, RawIsOfASource

\* What Store writes.
LEMMA BundleIsGood ==
  ASSUME ReportInv, at = "store"
  PROVE  /\ raws \cup Bundle.summaries \cup Bundle.missing \cup Bundle.unsupported \subseteq Texts
         /\ ~Bundle.partial =>
              \A i \in DOMAIN Bundle.sources : Bundle.sources[i].ref \in Bundle.summaries
         /\ \A ref \in Bundle.missing \cup Bundle.unsupported : Bundle.partial
         /\ Bundle.raw \subseteq Bundle.summaries
         /\ \A ref \in Bundle.raw : \E i \in DOMAIN Bundle.sources : Bundle.sources[i].ref = ref
         /\ Bundle.rawIncluded <=> \E i \in DOMAIN Bundle.sources : Bundle.sources[i].selected
         /\ \A i \in DOMAIN Bundle.sources :
              Bundle.sources[i].selected => Bundle.sources[i].ref \in Bundle.raw
  <1>1. /\ results \in Seq(Results) /\ sources \in Seq(Sources)
        /\ Len(results) <= Len(sources) /\ Len(results) \in Nat /\ Len(sources) \in Nat
        /\ DOMAIN results = 1..Len(results) /\ DOMAIN sources = 1..Len(sources)
        /\ \A i \in 1..Len(results) :
             results[i].ref = sources[i].ref /\ results[i].ref \in Texts
        /\ \A i \in 1..Len(results) : results[i].status \in Statuses
    <2>1. /\ results \in Seq(Results) /\ sources \in Seq(Sources)
          /\ Len(results) <= Len(sources)
      BY DEF ReportInv, TypeOK
    <2>2. \A i \in 1..Len(results) : results[i] \in Results /\ results[i].ref = sources[i].ref
      BY <2>1 DEF ReportInv
    <2> QED BY <2>1, <2>2 DEF Results
  <1>2. /\ Bundle.raw = raws
        /\ Bundle.summaries = Reported("resolved")
        /\ Bundle.missing = Reported("unresolved")
        /\ Bundle.unsupported = Reported("unsupported")
        /\ Bundle.partial =
             (escaped \/ Reported("unresolved") \cup Reported("unsupported") # {})
        /\ Bundle.rawIncluded = (includeRaw /\ raws # {})
        /\ DOMAIN Bundle.sources = 1..Len(sources)
        /\ \A i \in 1..Len(sources) :
             /\ Bundle.sources[i].ref = sources[i].ref
             /\ Bundle.sources[i].selected = (sources[i].ref \in raws)
    BY <1>1 DEF Bundle
  <1>3. \A status : Reported(status) \subseteq Texts
    BY <1>1 DEF Reported
  <1>4. raws \subseteq Reported("resolved")
    BY DEF ReportInv
  <1>5. ASSUME ~Bundle.partial, NEW i \in 1..Len(sources)
        PROVE  sources[i].ref \in Reported("resolved")
    <2>1. ~escaped /\ Reported("unresolved") = {} /\ Reported("unsupported") = {}
      BY <1>2, <1>5
    <2>2. i \in 1..Len(results)
      BY <2>1 DEF ReportInv
    <2>3. results[i].status = "resolved"
      BY <1>1, <2>1, <2>2 DEF Reported, Statuses
    <2> QED BY <1>1, <2>2, <2>3 DEF Reported
  <1>6. ASSUME NEW ref \in raws PROVE \E i \in 1..Len(sources) : sources[i].ref = ref
    <2>1. ref \in Reported("resolved")
      BY <1>4
    <2>2. PICK i \in 1..Len(results) : results[i].ref = ref
      BY <1>1, <2>1 DEF Reported
    <2>3. i \in 1..Len(sources) /\ sources[i].ref = ref
      BY <1>1, <2>2
    <2> QED BY <2>3
  <1>7. raws # {} => includeRaw
    BY DEF ReportInv
  <1>8. /\ Bundle.raw \subseteq Bundle.summaries
        /\ \A ref \in Bundle.raw : \E i \in DOMAIN Bundle.sources : Bundle.sources[i].ref = ref
        /\ \A i \in DOMAIN Bundle.sources :
             Bundle.sources[i].selected => Bundle.sources[i].ref \in Bundle.raw
    BY <1>2, <1>4, <1>6
  <1>9. Bundle.rawIncluded <=> \E i \in DOMAIN Bundle.sources : Bundle.sources[i].selected
    <2>1. \A i \in DOMAIN Bundle.sources : Bundle.sources[i].selected <=> sources[i].ref \in raws
      BY <1>2
    <2>2. raws # {} <=> \E i \in DOMAIN Bundle.sources : sources[i].ref \in raws
      BY <1>2, <1>6
    <2>3. Bundle.rawIncluded <=> raws # {}
      BY <1>2, <1>7
    <2> QED BY <2>1, <2>2, <2>3
  <1>10. ASSUME ~Bundle.partial, NEW i \in DOMAIN Bundle.sources
         PROVE  Bundle.sources[i].ref \in Bundle.summaries
    BY <1>2, <1>5, <1>10
  <1>11. /\ raws \cup Bundle.summaries \cup Bundle.missing \cup Bundle.unsupported \subseteq Texts
         /\ \A ref \in Bundle.missing \cup Bundle.unsupported : Bundle.partial
    BY <1>2, <1>3, <1>4
  <1> QED BY <1>8, <1>9, <1>10, <1>11

\* Until build() stores, the stored bundle stays as it is.
LEMMA BundleStays ==
  ASSUME ReportInv, UNCHANGED bundle
  PROVE  CompleteUnlessPartial' /\ RawIsOfASource'
  BY DEF ReportInv, CompleteUnlessPartial, RawIsOfASource

LEMMA ReportStep == ReportInv /\ [Next]_vars => ReportInv'
  <1> SUFFICES ASSUME ReportInv, [Next]_vars PROVE ReportInv'
    OBVIOUS
  <1>0. /\ TypeOK /\ sources \in Seq(Sources) /\ results \in Seq(Results)
        /\ Len(results) \in Nat /\ Len(sources) \in Nat
    BY DEF ReportInv, TypeOK
  <1>1. ASSUME NEW d \in Rows, NEW raw \in BOOLEAN, Begin(d, raw)
        PROVE  ReportInv'
    <2>1. /\ at' = "resolve" /\ sources' = Wanted(d) /\ results' = << >> /\ looked' = 0
          /\ raws' = {} /\ odd' = {} /\ includeRaw' = raw /\ escaped' = FALSE /\ bundle' = NoBundle
          /\ world' = world
      BY <1>1 DEF Begin
    <2>2. sources' \in Seq(Sources) /\ Len(sources') \in Nat
      BY <2>1, WantedAreSources
    <2>3. results' \in Seq(Results) /\ Len(results') = 0 /\ looked' \in 0..Len(results')
      BY <2>1
    <2>4. {includeRaw', escaped'} \subseteq BOOLEAN
      BY <2>1, Zenon
    <2>5. TypeOK'
      BY <1>0, <2>1, <2>2, <2>3, <2>4 DEF TypeOK
    <2> QED
      BY <2>1, <2>2, <2>3, <2>5 DEF ReportInv, CompleteUnlessPartial, RawIsOfASource
  <1>2. CASE ResolveNext
    <2>1. /\ at = "resolve" /\ Len(results) < Len(sources)
          /\ UNCHANGED <<world, at, includeRaw, sources, looked, raws, odd, escaped, bundle>>
      BY <1>2 DEF ResolveNext
    <2> DEFINE ref == sources[Len(results) + 1].ref
    <2>2. PICK result \in ResolveRef(ref) : results' = Append(results, result)
      BY <1>2 DEF ResolveNext
    <2>3. ref \in Texts
      <3>1. sources[Len(results) + 1] \in Sources
        BY <1>0, <2>1
      <3> QED BY <3>1 DEF Sources
    <2>4. result \in Results /\ result.ref = ref
      BY <2>3, ResultsAreOfTheirReference
    <2>5. /\ results' \in Seq(Results) /\ Len(results') = Len(results) + 1
          /\ \A i \in 1..Len(results') : results'[i].ref = sources[i].ref
      BY <1>0, <2>2, <2>4 DEF ReportInv
    <2>6. TypeOK'
      BY <1>0, <2>1, <2>5 DEF TypeOK
    <2>7. raws' = {} /\ looked' = 0
      BY <2>1 DEF ReportInv
    <2> QED BY <2>1, <2>5, <2>6, <2>7, BundleStays DEF ReportInv
  <1>3. CASE ResolvedAll
    <2>1. /\ at = "resolve" /\ Len(results) = Len(sources)
          /\ at' = IF includeRaw THEN "load" ELSE "store"
          /\ UNCHANGED <<world, includeRaw, sources, results, looked, raws, odd, escaped, bundle>>
      BY <1>3 DEF ResolvedAll
    <2>2. TypeOK'
      BY <1>0, <2>1 DEF TypeOK
    <2>3. raws' \subseteq Reported("resolved")'
      BY <2>1 DEF ReportInv, Reported
    <2> QED BY <2>1, <2>2, <2>3, BundleStays DEF ReportInv
  <1>4. CASE LoadNext
    <2>1. /\ at = "load" /\ looked < Len(results) /\ looked' = looked + 1
          /\ UNCHANGED <<world, at, includeRaw, sources, results, escaped, bundle>>
      BY <1>4 DEF LoadNext
    <2>2. looked \in Nat /\ looked + 1 \in DOMAIN results
      BY <1>0, <2>1 DEF TypeOK
    <2>3. raws' \subseteq Reported("resolved") /\ odd' \subseteq raws'
      <3>1. CASE raws' = raws /\ odd' = odd
        BY <1>0, <3>1 DEF ReportInv, TypeOK
      <3>2. CASE /\ raws' = raws \cup {results[looked + 1].ref}
                 /\ odd' \subseteq odd \cup {results[looked + 1].ref}
                 /\ results[looked + 1].status = "resolved"
        BY <1>0, <2>2, <3>2 DEF ReportInv, Reported, TypeOK
      <3>3. ASSUME NEW payload \in LoadRaw(results[looked + 1].ref),
                   Select(results[looked + 1].ref, payload)
            PROVE  \/ raws' = raws /\ odd' = odd
                   \/ /\ raws' = raws \cup {results[looked + 1].ref}
                      /\ odd' \subseteq odd \cup {results[looked + 1].ref}
        BY <3>3, RawIsOneOfThree DEF Select
      <3> QED BY <1>4, <3>1, <3>2, <3>3 DEF LoadNext
    <2>4. Reported("resolved")' = Reported("resolved")
      BY <2>1 DEF Reported
    <2>5. Reported("resolved") \subseteq Texts /\ looked' \in 0..Len(results')
      <3>1. \A i \in DOMAIN results : results[i] \in Results
        BY <1>0
      <3>2. Reported("resolved") \subseteq Texts
        BY <3>1 DEF Reported, Results
      <3> QED BY <1>0, <2>1, <2>2, <3>2
    <2>6. TypeOK'
      BY <1>0, <2>1, <2>3, <2>5 DEF TypeOK, Bundle
    <2> QED BY <2>1, <2>3, <2>4, <2>6, BundleStays DEF ReportInv
  <1>5. CASE LoadedAll
    <2>1. /\ at = "load" /\ at' = "store"
          /\ UNCHANGED <<world, includeRaw, sources, results, looked, raws, odd, escaped, bundle>>
      BY <1>5 DEF LoadedAll
    <2>2. TypeOK'
      BY <1>0, <2>1 DEF TypeOK
    <2>3. raws' \subseteq Reported("resolved")'
      BY <2>1 DEF ReportInv, Reported
    <2> QED BY <2>1, <2>2, <2>3, BundleStays DEF ReportInv
  <1>6. CASE Escape
    <2>1. /\ at \in {"resolve", "load"} /\ at' = "store" /\ escaped' = TRUE
          /\ UNCHANGED <<world, includeRaw, sources, looked, raws, odd, bundle>>
          /\ \/ at = "resolve" /\ results' = << >>
             \/ at = "load" /\ results' = results
      BY <1>6 DEF Escape
    <2>2. {includeRaw', escaped'} \subseteq BOOLEAN
      <3>1. includeRaw \in BOOLEAN
        BY <1>0 DEF TypeOK
      <3> QED BY <2>1, <3>1, Zenon
    <2>3. CASE at = "resolve"
      <3>1. results' = << >> /\ raws' = {} /\ looked' = 0
        BY <2>1, <2>3 DEF ReportInv
      <3>2. results' \in Seq(Results) /\ Len(results') = 0 /\ looked' \in 0..Len(results')
        BY <3>1
      <3>3. TypeOK'
        BY <1>0, <2>1, <2>2, <3>1, <3>2 DEF TypeOK
      <3> QED BY <2>1, <3>1, <3>2, <3>3, BundleStays DEF ReportInv
    <2>4. CASE at = "load"
      <3>1. results' = results
        BY <2>1, <2>4
      <3>2. TypeOK'
        BY <1>0, <2>1, <2>2, <3>1 DEF TypeOK
      <3>3. raws' \subseteq Reported("resolved")'
        BY <2>1, <3>1 DEF ReportInv, Reported
      <3> QED BY <2>1, <2>4, <3>1, <3>2, <3>3, BundleStays DEF ReportInv
    <2> QED BY <2>1, <2>3, <2>4
  <1>7. CASE Store
    <2>1. /\ at = "store" /\ at' = "idle" /\ includeRaw' = FALSE /\ escaped' = FALSE
          /\ sources' = << >> /\ results' = << >> /\ looked' = 0 /\ raws' = {} /\ odd' = {}
          /\ world' = world
          /\ bundle' = IF Storable THEN Bundle ELSE NoBundle
      BY <1>7 DEF Store
    <2>2. {includeRaw', escaped'} \subseteq BOOLEAN
      BY <2>1, Zenon
    <2>3. /\ results' \in Seq(Results) /\ sources' \in Seq(Sources)
          /\ Len(results') = 0 /\ Len(sources') = 0
      BY <2>1
    <2>4. bundle' # NoBundle => bundle' = Bundle
      BY <2>1
    <2>5. /\ CompleteUnlessPartial' /\ RawIsOfASource'
          /\ bundle' # NoBundle => raws' \cup bundle'.summaries \cup bundle'.missing
                                     \cup bundle'.unsupported \subseteq Texts
      <3> DEFINE new == Bundle
      <3>1. bundle' # NoBundle => bundle' = new
        BY <2>4
      <3>2. /\ new.summaries \cup new.missing \cup new.unsupported \subseteq Texts
            /\ ~new.partial => \A i \in DOMAIN new.sources : new.sources[i].ref \in new.summaries
            /\ \A ref \in new.missing \cup new.unsupported : new.partial
            /\ new.raw \subseteq new.summaries
            /\ \A ref \in new.raw : \E i \in DOMAIN new.sources : new.sources[i].ref = ref
            /\ new.rawIncluded <=> \E i \in DOMAIN new.sources : new.sources[i].selected
            /\ \A i \in DOMAIN new.sources :
                 new.sources[i].selected => new.sources[i].ref \in new.raw
        BY <2>1, BundleIsGood
      <3> HIDE DEF new
      <3> QED BY <2>1, <3>1, <3>2 DEF CompleteUnlessPartial, RawIsOfASource
    <2>6. TypeOK'
      BY <1>0, <2>1, <2>2, <2>3, <2>5 DEF TypeOK
    <2> QED BY <2>1, <2>3, <2>5, <2>6 DEF ReportInv
  <1>8. ASSUME NEW ref \in Refs, WorldChanges(ref)
        PROVE  ReportInv'
    <2>1. world' \in [Refs -> Answers] /\ UNCHANGED <<reading, bundle>>
      BY <1>0, <1>8 DEF WorldChanges, TypeOK
    <2>2. UNCHANGED <<at, includeRaw, sources, results, looked, raws, odd, escaped, bundle>>
      BY <2>1 DEF reading
    <2>3. TypeOK' /\ raws' \subseteq Reported("resolved")'
      BY <1>0, <2>1, <2>2 DEF ReportInv, TypeOK, Reported
    <2> QED BY <2>2, <2>3, BundleStays DEF ReportInv
  <1>9. CASE UNCHANGED vars
    <2>1. UNCHANGED <<world, at, includeRaw, sources, results, looked, raws, odd, escaped, bundle>>
      BY <1>9 DEF vars, reading
    <2>2. TypeOK' /\ raws' \subseteq Reported("resolved")'
      BY <1>0, <2>1 DEF ReportInv, TypeOK, Reported
    <2> QED BY <2>1, <2>2, BundleStays DEF ReportInv
  <1> QED
    BY <1>1, <1>2, <1>3, <1>4, <1>5, <1>6, <1>7, <1>8, <1>9 DEF Next, BuildStep

\* The variables and the bundles keep their types, for any references, dashboards,
\* resolvers and fetchers.
THEOREM TypeCorrect == Spec => []TypeOK
  <1>1. ReportInv => TypeOK
    BY DEF ReportInv
  <1> QED BY <1>1, ReportInitially, ReportStep, PTL DEF Spec

\* A bundle that does not call itself partial is complete, whatever comes, goes, fails and
\* raises while it is built, and however many references it has.
THEOREM PartialIsSaid == Spec => []CompleteUnlessPartial
  <1>1. ReportInv => CompleteUnlessPartial
    BY DEF ReportInv
  <1> QED BY <1>1, ReportInitially, ReportStep, PTL DEF Spec

\* Raw content belongs to a source of its bundle that has a summary, whoever answered for it.
THEOREM RawLeadsBack == Spec => []RawIsOfASource
  <1>1. ReportInv => RawIsOfASource
    BY DEF ReportInv
  <1> QED BY <1>1, ReportInitially, ReportStep, PTL DEF Spec

-------------------------------------------------------------------------------
(* 4. build() comes to its end                                              *)

\* Of the resolvers that certainly claim a reference, the first one may decide.
LEMMA SomebodyDecides ==
  ASSUME NEW ref, ~NobodyMayClaim(ref)
  PROVE  MayDecide(ref) # {}
  <1> DEFINE Sure(i) == FALSE \notin Claims(Registered[i], ref)
             T == {i \in DOMAIN Registered : Sure(i)}
  <1>0. IsValid(ref) /\ DOMAIN Registered = 1..Len(Registered) /\ Len(Registered) \in Nat
    <2>1. IsValid(ref)
      BY DEF NobodyMayClaim
    <2>2. Registered \in Seq({"local", "memx", "tracker", "plugin"})
      BY ResolutionAssumption
    <2> QED BY <2>1, <2>2
  <1>1. T # {} /\ T \in SUBSET Nat
    <2>1. \E i \in DOMAIN Registered : Sure(i)
      BY DEF NobodyMayClaim
    <2> HIDE DEF Sure
    <2>2. T # {}
      BY <2>1
    <2>3. \A i \in T : i \in Nat
      BY <1>0
    <2> QED BY <2>2, <2>3
  <1>2. PICK i \in T : \A j \in T : i <= j
    <2> HIDE DEF T
    <2> QED BY <1>1, LeastNumber
  <1>3. i \in DOMAIN Registered /\ Sure(i)
    BY <1>2
  <1>4. TRUE \in Claims(Registered[i], ref)
    BY <1>3 DEF Claims
  <1>5. ASSUME NEW j \in 1..(i - 1) PROVE FALSE \in Claims(Registered[j], ref)
    <2>1. j \in DOMAIN Registered /\ i \in Nat /\ j \in Nat /\ ~(i <= j)
      BY <1>0, <1>3
    <2>2. j \notin T
      <3> HIDE DEF T
      <3> QED BY <1>2, <2>1
    <2> QED BY <2>1, <2>2
  <1> QED BY <1>0, <1>3, <1>4, <1>5 DEF MayDecide

\* Whatever the resolvers and the world are, resolve() has an answer for every reference and
\* load_raw() returns: that of a resolver which claims it before all that must, or
\* "unsupported".  So resolve_many never stops at a reference.
THEOREM EveryReferenceIsAnswered ==
  \A ref \in Texts : ResolveRef(ref) # {} /\ LoadRaw(ref) # {}
  <1> SUFFICES ASSUME NEW ref \in Texts PROVE ResolveRef(ref) # {} /\ LoadRaw(ref) # {}
    OBVIOUS
  <1>1. CASE NobodyMayClaim(ref)
    <2>1. NotResolved(ref, "unsupported") \in ResolveRef(ref)
      BY <1>1 DEF ResolveRef
    <2>2. "none" \in LoadRaw(ref)
      BY <1>1 DEF LoadRaw
    <2> QED BY <2>1, <2>2
  <1>2. CASE ~NobodyMayClaim(ref)
    <2>1. PICK i \in MayDecide(ref) : TRUE
      BY <1>2, SomebodyDecides
    <2>2. ResultsOf(Registered[i], ref) # {}
      BY DEF ResultsOf
    <2>3. ResultsOf(Registered[i], ref) \subseteq ResolveRef(ref)
      BY <2>1 DEF ResolveRef
    <2>4. ResolveRef(ref) # {}
      BY <2>2, <2>3
    <2>5. /\ Payloads(Registered[i], ref) # {}
          /\ Payloads(Registered[i], ref) \subseteq LoadRaw(ref)
      BY <2>1 DEF LoadRaw, Payloads
    <2> QED BY <2>4, <2>5
  <1> QED BY <1>1, <1>2

\* How many steps of build() are left at most.
StepsLeft ==
  CASE at = "resolve" -> 3 + Len(sources) + (Len(sources) - Len(results))
    [] at = "load" -> 2 + (Len(results) - looked)
    [] at = "store" -> 1
    [] OTHER -> 0

\* Every step of build() leaves fewer, and no step of anybody else makes them more: under
\* the fairness of FairSpec that is why BuildIsStored holds of lists of any length.
THEOREM BuildsAreFinite ==
  Spec => [][/\ StepsLeft \in Nat
             /\ BuildStep => StepsLeft' < StepsLeft
             /\ at # "idle" /\ ~BuildStep => StepsLeft' = StepsLeft]_vars
  <1> DEFINE Shorter == /\ StepsLeft \in Nat
                        /\ BuildStep => StepsLeft' < StepsLeft
                        /\ at # "idle" /\ ~BuildStep => StepsLeft' = StepsLeft
  <1>1. ReportInv /\ [Next]_vars => [Shorter]_vars
    <2> SUFFICES ASSUME ReportInv, Next PROVE Shorter
      OBVIOUS
    <2>0. /\ at \in {"idle", "resolve", "load", "store"}
          /\ Len(results) \in Nat /\ Len(sources) \in Nat /\ Len(results) <= Len(sources)
          /\ looked \in 0..Len(results)
          /\ at = "resolve" => looked = 0
          /\ results \in Seq(Results)
      BY DEF ReportInv, TypeOK
    <2>1. StepsLeft \in Nat
      BY <2>0 DEF StepsLeft
    <2>2. CASE ResolveNext
      <3>1. /\ at = "resolve" /\ at' = at /\ Len(results) < Len(sources) /\ sources' = sources
            /\ \E result : results' = Append(results, result)
        BY <2>2 DEF ResolveNext
      <3>2. Len(results') = Len(results) + 1
        BY <2>0, <3>1
      <3> QED BY <2>0, <2>1, <2>2, <3>1, <3>2 DEF StepsLeft, BuildStep
    <2>3. CASE ResolvedAll
      BY <2>0, <2>1, <2>3 DEF ResolvedAll, StepsLeft, BuildStep
    <2>4. CASE LoadNext
      <3>1. /\ at = "load" /\ at' = at /\ looked < Len(results) /\ looked' = looked + 1
            /\ results' = results
        BY <2>4 DEF LoadNext
      <3> QED BY <2>0, <2>1, <2>4, <3>1 DEF StepsLeft, BuildStep
    <2>5. CASE LoadedAll
      BY <2>0, <2>1, <2>5 DEF LoadedAll, StepsLeft, BuildStep
    <2>6. CASE Escape
      <3>1. at \in {"resolve", "load"} /\ at' = "store"
        BY <2>6 DEF Escape
      <3> QED BY <2>0, <2>1, <2>6, <3>1 DEF StepsLeft, BuildStep
    <2>7. CASE Store
      <3>1. at = "store" /\ at' = "idle"
        BY <2>7 DEF Store
      <3> QED BY <2>0, <2>1, <2>7, <3>1 DEF StepsLeft, BuildStep
    <2>8. ASSUME NEW ref \in Refs, WorldChanges(ref), ~BuildStep PROVE Shorter
      <3>1. UNCHANGED <<at, sources, results, looked>>
        BY <2>8 DEF WorldChanges, reading
      <3> QED BY <2>1, <2>8, <3>1 DEF StepsLeft
    <2>9. ASSUME NEW d \in Rows, NEW raw \in BOOLEAN, Begin(d, raw), ~BuildStep
          PROVE  Shorter
      BY <2>1, <2>9 DEF Begin
    <2> HIDE DEF Shorter
    <2> QED BY <2>2, <2>3, <2>4, <2>5, <2>6, <2>7, <2>8, <2>9 DEF Next, BuildStep
  <1> QED BY <1>1, ReportInitially, ReportStep, PTL DEF Spec

\* The premise of BuildIsStored, and what follows from it.
AllJson == \A ref \in Refs : world[ref] # "unstorable"

PlainInv ==
  /\ ReportInv
  /\ \A i \in DOMAIN sources : sources[i].ref \in Refs
  /\ Storable

LEMMA PlainInitially == Init => PlainInv
  BY ReportInitially DEF Init, PlainInv, Storable

LEMMA PlainStep == AllJson /\ PlainInv /\ [Next]_vars => PlainInv'
  <1> SUFFICES ASSUME AllJson, PlainInv, [Next]_vars PROVE PlainInv'
    OBVIOUS
  <1>0. /\ ReportInv /\ ReportInv' /\ Storable
        /\ \A i \in DOMAIN sources : sources[i].ref \in Refs
        /\ sources \in Seq(Sources) /\ results \in Seq(Results)
    BY ReportStep DEF PlainInv, ReportInv, TypeOK
  <1>1. ASSUME NEW d \in Rows, NEW raw \in BOOLEAN, Begin(d, raw)
        PROVE  PlainInv'
    <2>1. sources' = Wanted(d) /\ results' = << >> /\ odd' = {}
      BY <1>1 DEF Begin
    <2>2. \A i \in DOMAIN Wanted(d) : Wanted(d)[i].ref \in Refs
      BY DEF Refs
    <2> QED BY <1>0, <2>1, <2>2 DEF PlainInv, Storable
  <1>2. CASE ResolveNext
    <2> DEFINE ref == sources[Len(results) + 1].ref
    <2>1. /\ Len(results) < Len(sources) /\ sources' = sources /\ odd' = odd
          /\ \E answer \in ResolveRef(ref) : results' = Append(results, answer)
      BY <1>2 DEF ResolveNext
    <2>2. PICK result \in ResolveRef(ref) : results' = Append(results, result)
      BY <2>1
    <2>3. ref \in Refs
      BY <1>0, <2>1
    <2>4. result.status = "resolved" => result.plain
      <3>1. world[ref] # "unstorable"
        BY <2>3 DEF AllJson
      <3>2. ASSUME NEW raw PROVE Resolved(ref, raw).plain
        BY <3>1 DEF Resolved
      <3>3. ASSUME NEW status PROVE NotResolved(ref, status).plain
        BY DEF NotResolved
      <3>4. ASSUME NEW resolver, NEW answer \in ResultsOf(resolver, ref) PROVE answer.plain
        BY <3>2, <3>3 DEF ResultsOf
      <3>5. \/ \E i \in MayDecide(ref) : result \in ResultsOf(Registered[i], ref)
            \/ result = NotResolved(ref, "unsupported")
        BY <2>2 DEF ResolveRef
      <3> QED BY <3>3, <3>4, <3>5
    <2> HIDE DEF ref
    <2>5. \A i \in DOMAIN results' :
            \/ i \in DOMAIN results /\ results'[i] = results[i]
            \/ results'[i] = result
      BY <1>0, <2>2
    <2>6. Storable'
      BY <1>0, <2>1, <2>4, <2>5 DEF Storable
    <2> QED BY <1>0, <2>1, <2>6 DEF PlainInv
  <1>3. CASE UNCHANGED <<sources, results>> /\ odd' = odd
    BY <1>0, <1>3 DEF PlainInv, Storable
  <1>4. CASE LoadNext
    <2> DEFINE ref == results[looked + 1].ref
    <2>1. /\ looked < Len(results) /\ UNCHANGED <<sources, results>>
          /\ \/ odd' = odd
             \/ \E payload \in LoadRaw(ref) : Select(ref, payload)
      BY <1>4 DEF LoadNext
    <2>2. looked + 1 \in 1..Len(results) /\ Len(results) <= Len(sources)
      BY <1>0, <2>1 DEF ReportInv, TypeOK
    <2>3. looked + 1 \in DOMAIN sources /\ ref = sources[looked + 1].ref
      BY <1>0, <2>2 DEF ReportInv
    <2>4. world[ref] # "unstorable"
      BY <1>0, <2>3 DEF AllJson
    <2> HIDE DEF ref
    <2>5. ASSUME NEW payload \in LoadRaw(ref) PROVE payload \in {"none", "json"}
      BY <2>4, <2>5 DEF LoadRaw, Payloads
    <2>6. odd' = {}
      BY <1>0, <2>1, <2>5 DEF Storable, Select
    <2> QED BY <1>0, <2>1, <2>6 DEF PlainInv, Storable
  <1>5. CASE results' = << >> /\ sources' \in {sources, << >>} /\ odd' \in {odd, {}}
    BY <1>0, <1>5 DEF PlainInv, Storable
  <1> QED
    BY <1>1, <1>2, <1>3, <1>4, <1>5
       DEF Next, BuildStep, ResolvedAll, LoadedAll, Escape, Store, WorldChanges,
           vars, reading

\* As long as answers can be written as JSON, build() stores what it has, whatever could
\* not be found and whatever a plugin raised.
THEOREM JsonIsStored == Spec /\ []AllJson => [][Store => bundle' = Bundle]_vars
  <1>1. PlainInv /\ Store => bundle' = Bundle
    BY DEF PlainInv, Store
  <1>2. PlainInv /\ [Next]_vars => [Store => bundle' = Bundle]_vars
    BY <1>1
  <1> QED BY <1>2, PlainInitially, PlainStep, PTL DEF Spec
=============================================================================
