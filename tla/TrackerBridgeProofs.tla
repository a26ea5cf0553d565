------------------------- MODULE TrackerBridgeProofs -------------------------
(****************************************************************************)
(* Theorems about TypedRefs, TrackerBridge and TrackerViews for any texts,  *)
(* bridges, keys and bounds.                                                *)
(****************************************************************************)
EXTENDS TrackerViews, SequenceTheorems, FiniteSetTheorems, TLAPS

-------------------------------------------------------------------------------
(* References                                                               *)

LEMMA LowerOfPiece ==
  ASSUME NEW p \in Pieces
  PROVE  /\ lower[p] \in Pieces /\ lower[lower[p]] = lower[p]
         /\ lower[p] = EmptyPiece <=> p = EmptyPiece
BY PiecesAssumption

\* A text that is parsed has three or four pieces, none of them empty.
LEMMA ParsedText ==
  ASSUME NEW text \in Texts, Parse(text) # Invalid
  PROVE  LET s == Segments(text) IN
           /\ s \in Texts /\ Len(s) = 4 /\ \A i \in 1..4 : s[i] \in Pieces \ {EmptyPiece}
           /\ Parse(text) = [domain |-> lower[s[1]], type |-> lower[s[2]],
                             provider |-> lower[s[3]], id |-> s[4]]
<1> DEFINE s == Segments(text)
<1>1. s # << >> /\ ~ \E i \in 1..Len(s) : s[i] = EmptyPiece
  BY DEF Parse
<1>2. text \in Seq(Pieces)
  BY DEF Texts
<1>3. s \in Seq(Pieces) /\ Len(s) = 4
  <2>1. CASE Len(text) = 4
    BY <1>2, <2>1 DEF Segments
  <2>2. CASE Len(text) = 3
    BY <1>2, <2>2, PiecesAssumption DEF Segments, DefaultProvider
  <2>3. QED
    BY <1>1, <2>1, <2>2 DEF Segments
<1> HIDE DEF s
<1>4. \A i \in 1..4 : s[i] \in Pieces
  BY <1>3
<1>5. QED
  BY <1>1, <1>3, <1>4 DEF Parse, Texts, s

LEMMA FourPieces ==
  ASSUME NEW d \in Pieces, NEW t \in Pieces, NEW p \in Pieces, NEW i \in Pieces
  PROVE  /\ <<d, t, p, i>> \in Seq(Pieces) /\ Len(<<d, t, p, i>>) = 4
         /\ <<d, t, p, i>> \in Texts
         /\ <<d>> \o <<t>> \o <<p>> \o <<i>> = <<d, t, p, i>>
<1>1. <<d, t, p, i>> \in Seq(Pieces) /\ Len(<<d, t, p, i>>) = 4
  OBVIOUS
<1>2. <<d, t, p, i>> # << >>
  BY <1>1
<1>3. <<d>> \o <<t>> \o <<p>> \o <<i>> = <<d, t, p, i>>
  <2> DEFINE whole == <<d>> \o <<t>> \o <<p>> \o <<i>>
  <2>1. whole \in Seq(Pieces) /\ Len(whole) = 4
    OBVIOUS
  <2>2. whole[1] = d /\ whole[2] = t /\ whole[3] = p /\ whole[4] = i
    OBVIOUS
  <2> HIDE DEF whole
  <2>3. \A n \in 1..4 : whole[n] = <<d, t, p, i>>[n]
    BY <2>2
  <2>4. whole = <<d, t, p, i>>
    BY <1>1, <2>1, <2>3, SeqEqual
  <2>5. QED
    BY <2>4 DEF whole
<1>4. QED
  BY <1>1, <1>2, <1>3 DEF Texts

\* Four pieces that are not empty are parsed, and so are three.
LEMMA ParseOfFour ==
  ASSUME NEW d \in Pieces \ {EmptyPiece}, NEW t \in Pieces \ {EmptyPiece},
         NEW p \in Pieces \ {EmptyPiece}, NEW i \in Pieces \ {EmptyPiece}
  PROVE  Parse(<<d, t, p, i>>) =
           [domain |-> lower[d], type |-> lower[t], provider |-> lower[p], id |-> i]
<1> DEFINE s == <<d, t, p, i>>
<1>1. /\ s \in Seq(Pieces) /\ Len(s) = 4 /\ s # << >>
      /\ s[1] = d /\ s[2] = t /\ s[3] = p /\ s[4] = i
  BY FourPieces DEF Texts
<1> HIDE DEF s
<1>2. Segments(s) = s
  BY <1>1 DEF Segments
<1>3. ~ \E n \in 1..Len(s) : s[n] = EmptyPiece
  BY <1>1
<1>4. QED
  BY <1>1, <1>2, <1>3 DEF Parse, s

LEMMA ParseOfThree ==
  ASSUME NEW d, NEW t, NEW i
  PROVE  Parse(<<d, t, i>>) = Parse(<<d, t, DefaultProvider, i>>)
<1>1. Segments(<<d, t, i>>) = <<d, t, DefaultProvider, i>>
      /\ Segments(<<d, t, DefaultProvider, i>>) = <<d, t, DefaultProvider, i>>
  BY DEF Segments
<1>2. QED
  BY <1>1 DEF Parse

LEMMA FormatOfPieces ==
  ASSUME NEW d \in Pieces \ {EmptyPiece}, NEW t \in Pieces \ {EmptyPiece},
         NEW p \in Pieces \ {EmptyPiece}, NEW i \in Pieces \ {EmptyPiece}
  PROVE  Format(<<d>>, <<t>>, <<i>>, <<p>>) = <<lower[d], lower[t], lower[p], i>>
<1>1. ~IsEmpty(<<d>>) /\ ~IsEmpty(<<t>>) /\ ~IsEmpty(<<p>>) /\ ~IsEmpty(<<i>>)
  BY DEF IsEmpty
<1>2. Lower(<<d>>) = <<lower[d]>> /\ Lower(<<t>>) = <<lower[t]>> /\ Lower(<<p>>) = <<lower[p]>>
  BY DEF Lower
<1>3. Format(<<d>>, <<t>>, <<i>>, <<p>>) = <<lower[d]>> \o <<lower[t]>> \o <<lower[p]>> \o <<i>>
  BY <1>1, <1>2 DEF Format
<1>4. lower[d] \in Pieces /\ lower[t] \in Pieces /\ lower[p] \in Pieces
  BY LowerOfPiece
<1>5. QED
  BY <1>3, <1>4, FourPieces

LEMMA PartsAreNotInvalid ==
  ASSUME NEW d \in Pieces, NEW t \in Pieces, NEW p \in Pieces, NEW i \in Pieces
  PROVE  /\ [domain |-> d, type |-> t, provider |-> p, id |-> i] # Invalid
         /\ <<d, t, p, i>> # Invalid
         /\ <<d, t, p, i>> \in Texts
<1>1. [domain |-> d, type |-> t, provider |-> p, id |-> i] \in TypedRefs
  BY DEF TypedRefs
<1>2. <<d, t, p, i>> \in Texts
  BY FourPieces
<1>3. QED
  BY <1>1, <1>2, InvalidAssumption

\* The canonical form of four pieces of a known domain.
LEMMA CanonicalOfPieces ==
  ASSUME NEW d \in Pieces \ {EmptyPiece}, NEW t \in Pieces \ {EmptyPiece},
         NEW p \in Pieces \ {EmptyPiece}, NEW i \in Pieces \ {EmptyPiece},
         lower[d] \in KnownDomains
  PROVE  Canonical(<<d, t, p, i>>) = <<lower[d], lower[t], lower[p], i>>
<1> DEFINE ref == [domain |-> lower[d], type |-> lower[t], provider |-> lower[p], id |-> i]
<1>1. Parse(<<d, t, p, i>>) = ref
  BY ParseOfFour
<1>2. lower[d] \in Pieces /\ lower[t] \in Pieces /\ lower[p] \in Pieces
  BY LowerOfPiece
<1>3. ref # Invalid
  BY <1>2, PartsAreNotInvalid
<1>4. Canonical(<<d, t, p, i>>) = Written(ref)
  BY <1>1, <1>3 DEF Canonical
<1>5. QED
  BY <1>4 DEF Written

\* An accepted text has the canonical form of its segments, and the domain is known.
LEMMA CanonicalOfText ==
  ASSUME NEW text \in Texts, IsValid(text)
  PROVE  /\ Canonical(text) \in Texts
         /\ Canonical(Canonical(text)) = Canonical(text)
         /\ Parse(Canonical(text)) = Parse(text)
         /\ Canonical(text) = Written(Parse(text))
<1> DEFINE s == Segments(text)
<1>1. Parse(text) # Invalid /\ Parse(text).domain \in KnownDomains
      /\ Canonical(text) = Written(Parse(text))
  BY DEF IsValid, Canonical
<1>2. /\ \A i \in 1..4 : s[i] \in Pieces \ {EmptyPiece}
      /\ Parse(text) = [domain |-> lower[s[1]], type |-> lower[s[2]],
                        provider |-> lower[s[3]], id |-> s[4]]
  BY <1>1, ParsedText
<1> HIDE DEF s
<1>3. /\ s[1] \in Pieces \ {EmptyPiece} /\ s[2] \in Pieces \ {EmptyPiece}
      /\ s[3] \in Pieces \ {EmptyPiece} /\ s[4] \in Pieces \ {EmptyPiece}
  BY <1>2
<1>4. /\ lower[s[1]] \in Pieces \ {EmptyPiece} /\ lower[lower[s[1]]] = lower[s[1]]
      /\ lower[s[2]] \in Pieces \ {EmptyPiece} /\ lower[lower[s[2]]] = lower[s[2]]
      /\ lower[s[3]] \in Pieces \ {EmptyPiece} /\ lower[lower[s[3]]] = lower[s[3]]
  BY <1>3, LowerOfPiece
<1>5. Canonical(text) = <<lower[s[1]], lower[s[2]], lower[s[3]], s[4]>>
      /\ lower[s[1]] \in KnownDomains
  BY <1>1, <1>2 DEF Written
<1>6. Canonical(Canonical(text)) = Canonical(text)
  BY <1>3, <1>4, <1>5, CanonicalOfPieces
<1>7. Parse(Canonical(text)) = Parse(text)
  <2>1. Parse(<<lower[s[1]], lower[s[2]], lower[s[3]], s[4]>>) =
          [domain |-> lower[lower[s[1]]], type |-> lower[lower[s[2]]],
           provider |-> lower[lower[s[3]]], id |-> s[4]]
    BY <1>3, <1>4, ParseOfFour
  <2>2. QED
    BY <1>2, <1>4, <1>5, <2>1
<1>8. QED
  BY <1>1, <1>3, <1>4, <1>5, <1>6, <1>7, PartsAreNotInvalid

\* Every reference has one canonical form, for any pieces and any texts.
THEOREM CanonicalFormIsOne == OneCanonicalForm
<1>1. ASSUME NEW text \in Samples, IsValid(text)
      PROVE  Canonical(Canonical(text)) = Canonical(text)
  BY <1>1, SamplesAssumption, CanonicalOfText
<1>2. ASSUME NEW d \in Pieces \ {EmptyPiece}, NEW t \in Pieces \ {EmptyPiece},
             NEW p \in Pieces \ {EmptyPiece}, NEW i \in Pieces \ {EmptyPiece},
             lower[d] \in KnownDomains
      PROVE  LET written == Format(<<d>>, <<t>>, <<i>>, <<p>>) IN
               /\ Canonical(<<d, t, p, i>>) = written
               /\ lower[p] = DefaultProvider => Canonical(<<d, t, i>>) = written
  <2>1. Canonical(<<d, t, p, i>>) = Format(<<d>>, <<t>>, <<i>>, <<p>>)
    <3>1. Canonical(<<d, t, p, i>>) = <<lower[d], lower[t], lower[p], i>>
      BY <1>2, CanonicalOfPieces
    <3>2. Format(<<d>>, <<t>>, <<i>>, <<p>>) = <<lower[d], lower[t], lower[p], i>>
      BY FormatOfPieces
    <3>3. QED
      BY <3>1, <3>2
  <2>2. ASSUME lower[p] = DefaultProvider
        PROVE  Canonical(<<d, t, i>>) = Canonical(<<d, t, p, i>>)
    <3>1. DefaultProvider \in Pieces \ {EmptyPiece} /\ lower[DefaultProvider] = DefaultProvider
      BY PiecesAssumption DEF DefaultProvider, EmptyPiece
    <3>2. Parse(<<d, t, i>>) = Parse(<<d, t, p, i>>)
      <4>1. Parse(<<d, t, i>>) = Parse(<<d, t, DefaultProvider, i>>)
        BY ParseOfThree
      <4>2. Parse(<<d, t, DefaultProvider, i>>) =
              [domain |-> lower[d], type |-> lower[t], provider |-> DefaultProvider, id |-> i]
        BY <3>1, ParseOfFour
      <4>3. Parse(<<d, t, p, i>>) =
              [domain |-> lower[d], type |-> lower[t], provider |-> DefaultProvider, id |-> i]
        BY <2>2, ParseOfFour
      <4>4. QED
        BY <4>1, <4>2, <4>3
    <3>3. QED
      BY <3>2 DEF Canonical
  <2>3. QED
    BY <2>1, <2>2
<1>3. QED
  BY <1>1, <1>2 DEF OneCanonicalForm

LEMMA FourAreOne ==
  ASSUME NEW k \in Nat \ {0}, NEW l \in Nat \ {0}, NEW m \in Nat \ {0}, NEW n \in Nat \ {0},
         k + l + m + n \in {3, 4}
  PROVE  k = 1 /\ l = 1 /\ m = 1 /\ n = 1
OBVIOUS

\* What format_ref writes is never read as another reference, for any texts.
THEOREM FormattedIsNeverMisread == NeverMisread
<1> SUFFICES ASSUME NEW domain \in Samples, NEW type \in Samples,
                    NEW id \in Samples, NEW provider \in Samples,
                    Format(domain, type, id, provider) # Invalid,
                    Parse(Format(domain, type, id, provider)) # Invalid
             PROVE  LET written == Format(domain, type, id, provider) IN
                      /\ Written(Parse(written)) =
                           <<lower[domain[1]], lower[type[1]], lower[provider[1]], id[1]>>
                      /\ \A text \in {domain, type, id, provider} : Len(text) = 1
  BY DEF NeverMisread
<1> DEFINE written == Format(domain, type, id, provider)
           whole == Lower(domain) \o Lower(type) \o Lower(provider) \o id
<1>1. \A text \in {domain, type, id, provider} :
         text \in Seq(Pieces) /\ Len(text) >= 1 /\ text # <<EmptyPiece>>
  <2>1. \A text \in Texts : text \in Seq(Pieces) /\ Len(text) >= 1
    BY DEF Texts
  <2>2. \A text \in {domain, type, id, provider} : text # <<EmptyPiece>>
    BY DEF Format, IsEmpty
  <2>3. QED
    BY <2>1, <2>2, SamplesAssumption
<1>2. written = whole
  BY DEF Format
<1>3. ASSUME NEW text \in Seq(Pieces)
      PROVE  /\ Lower(text) \in Seq(Pieces) /\ Len(Lower(text)) = Len(text)
             /\ \A n \in 1..Len(text) : Lower(text)[n] = lower[text[n]]
  <2>1. \A n \in 1..Len(text) : lower[text[n]] \in Pieces
    BY <1>3, LowerOfPiece
  <2>2. QED
    BY <1>3, <2>1 DEF Lower
<1>4. whole \in Seq(Pieces)
      /\ Len(whole) = Len(domain) + Len(type) + Len(provider) + Len(id)
  <2>1. /\ Lower(domain) \in Seq(Pieces) /\ Len(Lower(domain)) = Len(domain)
        /\ Lower(type) \in Seq(Pieces) /\ Len(Lower(type)) = Len(type)
        /\ Lower(provider) \in Seq(Pieces) /\ Len(Lower(provider)) = Len(provider)
        /\ id \in Seq(Pieces)
    BY <1>1, <1>3
  <2> DEFINE first == Lower(domain) \o Lower(type)
  <2> DEFINE a == Lower(domain)  b == Lower(type)
  <2>2. first \in Seq(Pieces) /\ Len(first) = Len(domain) + Len(type)
    <3>1. a \in Seq(Pieces) /\ b \in Seq(Pieces) /\ Len(a) = Len(domain) /\ Len(b) = Len(type)
      BY <2>1
    <3> HIDE DEF a, b
    <3>2. a \o b \in Seq(Pieces) /\ Len(a \o b) = Len(a) + Len(b)
      BY <3>1
    <3>3. QED
      BY <3>1, <3>2 DEF a, b
  <2> HIDE DEF first
  <2>3. first \o Lower(provider) \in Seq(Pieces)
        /\ Len(first \o Lower(provider)) = Len(domain) + Len(type) + Len(provider)
    <3> DEFINE c == Lower(provider)
    <3>1. c \in Seq(Pieces) /\ Len(c) = Len(provider)
      BY <2>1
    <3> HIDE DEF c
    <3>2. first \o c \in Seq(Pieces) /\ Len(first \o c) = Len(first) + Len(c)
      BY <2>2, <3>1
    <3>3. QED
      BY <2>2, <3>1, <3>2 DEF c
  <2>4. QED
    <3>1. (first \o Lower(provider)) \o id \in Seq(Pieces)
          /\ Len((first \o Lower(provider)) \o id) = Len(first \o Lower(provider)) + Len(id)
      BY <2>1, <2>3, ConcatProperties
    <3>2. QED
      BY <2>3, <3>1 DEF first
<1>5. Len(whole) = 3 \/ Len(whole) = 4
  BY <1>2 DEF Parse, Segments
<1>6. \A text \in {domain, type, id, provider} : Len(text) = 1
  <2>1. /\ Len(domain) \in Nat \ {0} /\ Len(type) \in Nat \ {0}
        /\ Len(provider) \in Nat \ {0} /\ Len(id) \in Nat \ {0}
    <3>1. \A text \in {domain, type, id, provider} : Len(text) \in Nat /\ Len(text) >= 1
      BY <1>1, LenProperties
    <3>2. QED
      BY <3>1
  <2>2. Len(domain) = 1 /\ Len(type) = 1 /\ Len(provider) = 1 /\ Len(id) = 1
    <3>1. Len(domain) + Len(type) + Len(provider) + Len(id) \in {3, 4}
      BY <1>4, <1>5
    <3>2. QED
      BY <2>1, <3>1, FourAreOne
  <2>3. QED
    BY <2>2
<1>7. PICK d, t, p, i \in Pieces : domain = <<d>> /\ type = <<t>> /\ provider = <<p>> /\ id = <<i>>
  <2>1. \A text \in {domain, type, id, provider} : text[1] \in Pieces /\ text = <<text[1]>>
    BY <1>1, <1>6
  <2>2. QED
    BY <2>1
<1>8. d # EmptyPiece /\ t # EmptyPiece /\ p # EmptyPiece /\ i # EmptyPiece
  BY <1>1, <1>7
<1>9. /\ lower[d] \in Pieces \ {EmptyPiece} /\ lower[lower[d]] = lower[d]
      /\ lower[t] \in Pieces \ {EmptyPiece} /\ lower[lower[t]] = lower[t]
      /\ lower[p] \in Pieces \ {EmptyPiece} /\ lower[lower[p]] = lower[p]
  BY <1>8, LowerOfPiece
<1>10. written = <<lower[d], lower[t], lower[p], i>>
  BY <1>7, <1>8, FormatOfPieces
<1>11. Parse(written) = [domain |-> lower[d], type |-> lower[t], provider |-> lower[p], id |-> i]
  <2>1. Parse(<<lower[d], lower[t], lower[p], i>>) =
          [domain |-> lower[lower[d]], type |-> lower[lower[t]],
           provider |-> lower[lower[p]], id |-> i]
    BY <1>8, <1>9, ParseOfFour
  <2>2. QED
    BY <1>9, <1>10, <2>1
<1>12. Written(Parse(written)) = <<lower[domain[1]], lower[type[1]], lower[provider[1]], id[1]>>
  BY <1>7, <1>11 DEF Written
<1>13. QED
  BY <1>6, <1>12

USE BridgeAssumption, NoCallAssumption

-------------------------------------------------------------------------------
(* Types                                                                    *)

LEMMA IssuesAreKeys == Issues \subseteq Keys /\ \A k \in Keys : RemoteKey[k] \in Issues
BY DEF Issues

LEMMA IssueIsItsKey ==
  ASSUME NEW i \in Issues
  PROVE  RemoteKey[i] = i
BY DEF Issues

\* What a call in progress is.
LEMMA CallInProgress ==
  ASSUME TypeOK, NEW b \in Bridges, ~Idle(b)
  PROVE  call[b] \in Calls
BY DEF TypeOK, Idle

LEMMA RecordKeepsType ==
  ASSUME TypeOK, NEW k \in Keys, NEW a \in Actions, NEW ok \in BOOLEAN,
         RecordEvent(k, a, ok)
  PROVE  dirtyEvents' \in Seq(Events)
BY DEF TypeOK, RecordEvent, Events

LEMMA TypeStep == TypeOK /\ [Next]_vars => TypeOK'
<1> SUFFICES ASSUME TypeOK, [Next]_vars PROVE TypeOK'
  OBVIOUS
<1> USE IssuesAreKeys
<1>1. CASE UNCHANGED vars
  BY <1>1 DEF TypeOK, vars, tracker, stored, dirty
<1>2. ASSUME NEW i \in Issues, RemoteChange(i) PROVE TypeOK'
  BY <1>2 DEF TypeOK, RemoteChange, stored, dirty
<1>3. ASSUME NEW b \in Bridges, NEW k \in Keys, NEW a \in Actions, Begin(b, k, a)
      PROVE  TypeOK'
  <2>1. [action |-> a, key |-> k, version |-> 0, at |-> "asked"] \in Calls
    BY DEF Calls
  <2>2. QED
    BY <1>3, <2>1 DEF TypeOK, Begin, tracker, stored, dirty
<1>4. ASSUME NEW b \in Bridges, Fetched(b) PROVE TypeOK'
  <2>1. call[b] \in Calls
    BY <1>4, CallInProgress DEF Fetched, IsAt
  <2>2. [call[b] EXCEPT !.at = "done", !.version = remote[RemoteKey[call[b].key]]] \in Calls
    BY <2>1 DEF TypeOK, Calls
  <2>3. call' = [call EXCEPT ![b] =
                   [call[b] EXCEPT !.at = "done", !.version = remote[RemoteKey[call[b].key]]]]
    BY <1>4, <2>1 DEF Fetched, TypeOK
  <2>4. QED
    BY <1>4, <2>2, <2>3 DEF TypeOK, Fetched, tracker, stored, dirty
<1>5. ASSUME NEW b \in Bridges, NEW p \in {"failed", "done", "cached"},
             ~Idle(b), MoveTo(b, p)
      PROVE  call' \in [Bridges -> Calls \cup {NoCall}]
  <2>1. call[b] \in Calls
    BY <1>5, CallInProgress
  <2>2. [call[b] EXCEPT !.at = p] \in Calls
    BY <2>1 DEF Calls
  <2>3. call' = [call EXCEPT ![b] = [call[b] EXCEPT !.at = p]]
    BY <1>5, <2>1 DEF MoveTo, TypeOK
  <2>4. QED
    BY <2>2, <2>3 DEF TypeOK
<1>6. ASSUME NEW b \in Bridges, Performed(b) PROVE TypeOK'
  <2>1. call[b] \in Calls /\ call[b].action \in Outbound
    BY <1>6, CallInProgress DEF Performed, IsAt
  <2>2. done' \in [Issues -> [Outbound -> Nat]]
    BY <1>6, <2>1 DEF Performed, TypeOK, Calls
  <2>3. call' \in [Bridges -> Calls \cup {NoCall}]
    BY <1>6, <1>5 DEF Performed, IsAt
  <2>4. QED
    BY <1>6, <2>2, <2>3 DEF TypeOK, Performed, stored, dirty
<1>7. ASSUME NEW b \in Bridges, StatusIgnored(b) \/ Failed(b) PROVE TypeOK'
  <2>1. call' \in [Bridges -> Calls \cup {NoCall}]
    BY <1>7, <1>5 DEF StatusIgnored, Failed, IsAt
  <2>2. QED
    BY <1>7, <2>1 DEF TypeOK, StatusIgnored, Failed, tracker, stored, dirty
<1>8. ASSUME NEW b \in Bridges, CacheIssue(b) PROVE TypeOK'
  <2>1. call[b] \in Calls
    BY <1>8, CallInProgress DEF CacheIssue, IsAt
  <2>2. dirtyCache' \in [Issues -> Nat \cup {NoRow}]
    BY <1>8, <2>1 DEF CacheIssue, TypeOK, Calls
  <2>3. call' \in [Bridges -> Calls \cup {NoCall}]
    BY <1>8, <1>5 DEF CacheIssue, IsAt
  <2>4. QED
    BY <1>8, <2>2, <2>3 DEF TypeOK, CacheIssue, HasOrTakesLock, tracker, stored
<1>9. ASSUME NEW b \in Bridges, RecordFetch(b) PROVE TypeOK'
  <2>1. call[b] \in Calls
    BY <1>9, CallInProgress DEF RecordFetch, IsAt
  <2>2. RemoteKey[call[b].key] \in Keys
    BY <2>1 DEF Calls
  <2>3. dirtyEvents' \in Seq(Events)
    BY <1>9, <2>2, RecordKeepsType DEF RecordFetch, Actions
  <2>4. QED
    BY <1>9, <2>3 DEF TypeOK, RecordFetch, HasOrTakesLock, Return, tracker, stored
<1>10. ASSUME NEW b \in Bridges, RecordResult(b) PROVE TypeOK'
  <2>1. call[b] \in Calls
    BY <1>10, CallInProgress DEF RecordResult, IsAt
  <2>2. dirtyEvents' \in Seq(Events)
    BY <1>10, <2>1, RecordKeepsType DEF RecordResult, Calls
  <2>3. QED
    BY <1>10, <2>2 DEF TypeOK, RecordResult, HasOrTakesLock, Return, tracker, stored
<1>11. ASSUME NEW b \in Bridges, Commit(b) \/ Abandon(b) PROVE TypeOK'
  BY <1>11 DEF TypeOK, Commit, Abandon, Return, tracker, stored, dirty
<1>12. ASSUME NEW b \in Bridges, WriteElsewhere(b) PROVE TypeOK'
  BY <1>12 DEF TypeOK, WriteElsewhere, HasOrTakesLock, tracker, stored, dirty
<1>13. QED
  BY <1>1, <1>2, <1>3, <1>4, <1>6, <1>7, <1>8, <1>9, <1>10, <1>11, <1>12 DEF Next

\* The types hold for any bridges and keys.
THEOREM TypeCorrect == Spec => []TypeOK
<1>1. Init => TypeOK
  BY IssuesAreKeys DEF Init, TypeOK
<1>2. QED
  BY <1>1, TypeStep, PTL DEF Spec

-------------------------------------------------------------------------------
(* A cache row and its event                                                *)

Reports(e, i) == e.action = "fetch" /\ e.ok /\ e.key = i
Reported(log, i) == \E n \in 1..Len(log) : Reports(log[n], i)

\* The holder is between the two writes of a fetch of i.
HalfFetched(i) ==
  \E b \in Bridges : IsAt(b, "cached") /\ RemoteKey[call[b].key] = i

\* Between the two writes the row has no event of its own yet; that can only be
\* in the uncommitted tables, because the bridge has the lock and cannot commit
\* before its call is over.
ReportInv ==
  /\ TypeOK
  /\ \A i \in Issues : cache[i] # NoRow <=> Reported(events, i)
  /\ \A i \in Issues :
       dirtyCache[i] # NoRow <=> Reported(dirtyEvents, i) \/ HalfFetched(i)
  /\ \A b \in Bridges : IsAt(b, "cached") => holder = b
  /\ holder = NoBridge => dirtyCache = cache /\ dirtyEvents = events

LEMMA ReportedAppend ==
  ASSUME NEW log \in Seq(Events), NEW e \in Events, NEW i \in Issues
  PROVE  Reported(Append(log, e), i) <=> Reported(log, i) \/ Reports(e, i)
<1> DEFINE longer == Append(log, e)
<1>1. Len(longer) = Len(log) + 1 /\ longer[Len(log) + 1] = e
      /\ \A n \in 1..Len(log) : longer[n] = log[n]
  OBVIOUS
<1>2. 1..Len(longer) = 1..Len(log) \cup {Len(log) + 1}
  BY <1>1
<1> HIDE DEF longer
<1>3. QED
  BY <1>1, <1>2 DEF Reported, longer

LEMMA ReportStep == ReportInv /\ [Next]_vars => ReportInv'
<1> SUFFICES ASSUME ReportInv, [Next]_vars PROVE ReportInv'
  OBVIOUS
<1>1. TypeOK /\ TypeOK'
  BY TypeStep DEF ReportInv
<1> USE IssuesAreKeys
<1>2. ASSUME UNCHANGED <<stored, dirty, holder>>,
             \A b \in Bridges : IsAt(b, "cached")' => IsAt(b, "cached") /\ call'[b] = call[b],
             \A b \in Bridges : IsAt(b, "cached") => IsAt(b, "cached")' /\ call'[b] = call[b]
      PROVE  ReportInv'
  <2>1. \A i \in Issues : HalfFetched(i)' <=> HalfFetched(i)
    BY <1>2 DEF HalfFetched
  <2>2. QED
    BY <1>1, <1>2, <2>1 DEF ReportInv, Reported, stored, dirty
<1>3. CASE UNCHANGED vars
  BY <1>2, <1>3 DEF vars, IsAt, Idle
<1>4. ASSUME NEW i \in Issues, RemoteChange(i) PROVE ReportInv'
  BY <1>2, <1>4 DEF RemoteChange, IsAt, Idle
<1>5. ASSUME NEW b \in Bridges, NEW k \in Keys, NEW a \in Actions, Begin(b, k, a)
      PROVE  ReportInv'
  BY <1>1, <1>2, <1>5 DEF Begin, IsAt, Idle, TypeOK
<1>6. ASSUME NEW b \in Bridges,
             Fetched(b) \/ Performed(b) \/ StatusIgnored(b) \/ Failed(b)
      PROVE  ReportInv'
  <2>1. IsAt(b, "asked") /\ UNCHANGED <<stored, dirty, holder>>
    BY <1>6 DEF Fetched, Performed, StatusIgnored, Failed
  <2>2. call[b] \in Calls
    BY <1>1, <2>1, CallInProgress DEF IsAt
  <2>3. call'[b] # NoCall /\ call'[b].at \in {"failed", "done"}
        /\ \A c \in Bridges \ {b} : call'[c] = call[c]
    <3>1. ASSUME NEW p \in {"failed", "done"}, MoveTo(b, p)
          PROVE  call'[b] \in Calls /\ call'[b].at = p
      <4>1. [call[b] EXCEPT !.at = p] \in Calls /\ [call[b] EXCEPT !.at = p].at = p
        BY <2>2 DEF Calls
      <4>2. call'[b] = [call[b] EXCEPT !.at = p]
        BY <1>1, <3>1 DEF MoveTo, TypeOK
      <4>3. QED
        BY <4>1, <4>2
    <3>2. \A c \in Bridges \ {b} : call'[c] = call[c]
      BY <1>1, <1>6 DEF Fetched, Performed, StatusIgnored, Failed, MoveTo, TypeOK
    <3>3. CASE Fetched(b)
      <4> DEFINE answered == [call[b] EXCEPT !.at = "done",
                                             !.version = remote[RemoteKey[call[b].key]]]
      <4>1. answered \in Calls /\ answered.at = "done"
        BY <1>1, <2>2 DEF TypeOK, Calls
      <4>2. call'[b] = answered
        BY <1>1, <3>3 DEF Fetched, TypeOK
      <4>3. QED
        BY <3>2, <4>1, <4>2
    <3>4. CASE Performed(b) \/ StatusIgnored(b) \/ Failed(b)
      <4>1. PICK p \in {"failed", "done"} : MoveTo(b, p)
        BY <3>4 DEF Performed, StatusIgnored, Failed
      <4>2. QED
        BY <3>1, <3>2, <4>1
    <3>5. QED
      BY <1>6, <3>3, <3>4
  <2>4. QED
    BY <1>2, <2>1, <2>3 DEF IsAt, Idle
<1>7. ASSUME NEW b \in Bridges, CacheIssue(b) PROVE ReportInv'
  <2>1. call[b] \in Calls /\ RemoteKey[call[b].key] \in Issues
    BY <1>1, <1>7, CallInProgress DEF CacheIssue, IsAt, Calls
  <2>2. call'[b] = [call[b] EXCEPT !.at = "cached"] /\ call'[b] \in Calls
        /\ \A c \in Bridges \ {b} : call'[c] = call[c]
    BY <1>1, <1>7, <2>1 DEF CacheIssue, MoveTo, TypeOK, Calls
  <2>3. IsAt(b, "cached")' /\ call'[b].key = call[b].key /\ ~IsAt(b, "cached")
    BY <1>7, <2>1, <2>2 DEF IsAt, Idle, CacheIssue, Calls
  <2>4. \A c \in Bridges \ {b} : ~IsAt(c, "cached") /\ ~IsAt(c, "cached")'
    BY <1>7, <2>2 DEF ReportInv, IsAt, Idle, CacheIssue, HasOrTakesLock
  <2>5. \A i \in Issues : HalfFetched(i)' <=> i = RemoteKey[call[b].key]
    BY <2>3, <2>4 DEF HalfFetched
  <2>6. \A i \in Issues : ~HalfFetched(i)
    BY <2>3, <2>4 DEF HalfFetched
  <2>7. dirtyCache' = [dirtyCache EXCEPT ![RemoteKey[call[b].key]] = call[b].version]
        /\ call[b].version \in Nat /\ dirtyEvents' = dirtyEvents
        /\ UNCHANGED stored /\ holder' = b
    BY <1>7, <2>1 DEF CacheIssue, HasOrTakesLock, Calls
  <2>8. \A i \in Issues :
          (dirtyCache[i] # NoRow <=> Reported(dirtyEvents, i) \/ HalfFetched(i))'
    <3> TAKE i \in Issues
    <3>1. CASE i = RemoteKey[call[b].key]
      BY <1>1, <2>1, <2>5, <2>7, <3>1 DEF TypeOK
    <3>2. CASE i # RemoteKey[call[b].key]
      BY <1>1, <2>1, <2>5, <2>6, <2>7, <3>2 DEF TypeOK, ReportInv, Reported
    <3>3. QED
      BY <3>1, <3>2
  <2>9. QED
    BY <1>1, <2>3, <2>4, <2>7, <2>8 DEF ReportInv, Reported, stored
<1>8. ASSUME NEW b \in Bridges, NEW e \in Events, NEW half \in BOOLEAN,
             IsAt(b, "cached") <=> half,
             ~Idle(b), holder \in {b, NoBridge}, holder' = b, Return(b),
             UNCHANGED <<stored, dirtyCache>>,
             dirtyEvents' = Append(dirtyEvents, e),
             \A i \in Issues : Reports(e, i) <=> half /\ i = RemoteKey[call[b].key]
      PROVE  ReportInv'
  <2>1. \A c \in Bridges \ {b} : ~IsAt(c, "cached") /\ ~IsAt(c, "cached")'
    BY <1>1, <1>8 DEF ReportInv, IsAt, Idle, Return, TypeOK
  <2>2. ~IsAt(b, "cached")'
    BY <1>1, <1>8 DEF IsAt, Idle, Return, TypeOK
  <2>3. \A i \in Issues : ~HalfFetched(i)'
    BY <2>1, <2>2 DEF HalfFetched
  <2>4. \A i \in Issues : HalfFetched(i) <=> half /\ i = RemoteKey[call[b].key]
    BY <1>8, <2>1 DEF HalfFetched
  <2>5. \A i \in Issues : Reported(dirtyEvents', i) <=> Reported(dirtyEvents, i) \/ Reports(e, i)
    BY <1>1, <1>8, ReportedAppend DEF TypeOK
  <2>6. QED
    BY <1>1, <1>8, <2>1, <2>2, <2>3, <2>4, <2>5 DEF ReportInv, Reported, stored
<1>9. ASSUME NEW b \in Bridges, RecordFetch(b) PROVE ReportInv'
  <2>1. call[b] \in Calls /\ RemoteKey[call[b].key] \in Keys
    BY <1>1, <1>9, CallInProgress DEF RecordFetch, IsAt, Calls
  <2> DEFINE e == [key |-> RemoteKey[call[b].key], action |-> "fetch", ok |-> TRUE]
  <2>2. e \in Events
    BY <2>1 DEF Events, Actions
  <2>3. \A i \in Issues : Reports(e, i) <=> TRUE /\ i = RemoteKey[call[b].key]
    BY DEF Reports
  <2>4. IsAt(b, "cached") /\ ~Idle(b) /\ holder \in {b, NoBridge} /\ holder' = b
        /\ Return(b) /\ UNCHANGED <<stored, dirtyCache>> /\ dirtyEvents' = Append(dirtyEvents, e)
    BY <1>9 DEF RecordFetch, IsAt, HasOrTakesLock, RecordEvent
  <2> HIDE DEF e
  <2>5. QED
    BY <1>8, <2>2, <2>3, <2>4
<1>10. ASSUME NEW b \in Bridges, RecordResult(b) PROVE ReportInv'
  <2>1. call[b] \in Calls
    BY <1>1, <1>10, CallInProgress DEF RecordResult, IsAt
  <2> DEFINE e == [key |-> call[b].key, action |-> call[b].action, ok |-> call[b].at = "done"]
  <2>2. e \in Events
    BY <2>1 DEF Events, Calls
  <2>3. \A i \in Issues : ~Reports(e, i)
    BY <1>10 DEF Reports, RecordResult, IsAt, Outbound
  <2>4. ~IsAt(b, "cached") /\ ~Idle(b) /\ holder \in {b, NoBridge} /\ holder' = b
        /\ Return(b) /\ UNCHANGED <<stored, dirtyCache>> /\ dirtyEvents' = Append(dirtyEvents, e)
    BY <1>10 DEF RecordResult, IsAt, HasOrTakesLock, RecordEvent
  <2> HIDE DEF e
  <2>5. QED
    BY <1>8, <2>2, <2>3, <2>4
<1>11. ASSUME NEW b \in Bridges, Commit(b) PROVE ReportInv'
  <2>1. \A c \in Bridges : ~IsAt(c, "cached") /\ ~IsAt(c, "cached")'
    BY <1>11 DEF ReportInv, Commit, IsAt, Idle
  <2>2. \A i \in Issues : ~HalfFetched(i) /\ ~HalfFetched(i)'
    BY <2>1 DEF HalfFetched
  <2>3. QED
    BY <1>1, <1>11, <2>1, <2>2 DEF ReportInv, Reported, Commit, dirty
<1>12. ASSUME NEW b \in Bridges, Abandon(b) PROVE ReportInv'
  <2>1. call'[b] = NoCall /\ ~IsAt(b, "cached")'
        /\ \A c \in Bridges \ {b} : call'[c] = call[c]
    BY <1>1, <1>12 DEF Abandon, Return, TypeOK, IsAt, Idle
  <2>2. CASE holder = b
    <3>1. \A c \in Bridges : ~IsAt(c, "cached")'
      BY <2>1, <2>2 DEF ReportInv, IsAt, Idle
    <3>2. \A i \in Issues : ~HalfFetched(i)'
      BY <3>1 DEF HalfFetched
    <3>3. QED
      BY <1>1, <1>12, <2>2, <3>1, <3>2 DEF ReportInv, Reported, Abandon, stored
  <2>3. CASE holder # b
    <3>1. ~IsAt(b, "cached")
      BY <2>3 DEF ReportInv
    <3>2. QED
      BY <1>2, <1>12, <2>1, <2>3, <3>1 DEF Abandon, IsAt, Idle
  <2>4. QED
    BY <2>2, <2>3
<1>13. ASSUME NEW b \in Bridges, WriteElsewhere(b) PROVE ReportInv'
  <2>1. \A c \in Bridges : IsAt(c, "cached") => c = b
    BY <1>13 DEF ReportInv, WriteElsewhere, HasOrTakesLock
  <2>2. \A c \in Bridges : ~IsAt(c, "cached") /\ ~IsAt(c, "cached")'
    BY <1>13, <2>1 DEF WriteElsewhere, IsAt, Idle
  <2>3. \A i \in Issues : ~HalfFetched(i) /\ ~HalfFetched(i)'
    BY <2>2 DEF HalfFetched
  <2>4. QED
    BY <1>1, <1>13, <2>2, <2>3 DEF ReportInv, Reported, WriteElsewhere, HasOrTakesLock, stored, dirty
<1>14. QED
  BY <1>3, <1>4, <1>5, <1>6, <1>7, <1>9, <1>10, <1>11, <1>12, <1>13 DEF Next

\* A cache row and the success event of its fetch are committed together, for any
\* bridges and keys, wherever a call is cut off.
THEOREM CacheAndLogAgree == Spec => []CachedAsReported
<1>1. Init => ReportInv
  BY IssuesAreKeys DEF Init, ReportInv, TypeOK, Reported, HalfFetched, IsAt, Idle
<1>2. ReportInv => CachedAsReported
  BY IssueIsItsKey DEF ReportInv, CachedAsReported, Reported, Reports, EventsAbout
<1>3. QED
  BY <1>1, <1>2, ReportStep, PTL DEF Spec

-------------------------------------------------------------------------------
(* Comments                                                                 *)

\* Places of the log that claim a comment on i, and bridges that have posted one and
\* not recorded it.
Claims(log, i) ==
  {n \in 1..Len(log) : /\ RemoteKey[log[n].key] = i
                       /\ log[n].action = "post_comment" /\ log[n].ok}
Posting(i) ==
  {b \in Bridges : /\ IsAt(b, "done") /\ call[b].action = "post_comment"
                   /\ RemoteKey[call[b].key] = i}

\* What is claimed and what is about to be claimed was done; on its own the claim is
\* not inductive, because RecordResult adds one without asking the tracker again.
CommentInv ==
  \A i \in Issues : \A log \in {events, dirtyEvents} :
    Cardinality(Claims(log, i)) + Cardinality(Posting(i)) <= done[i]["post_comment"]

LEMMA OneMore ==
  ASSUME NEW S, NEW x, IsFiniteSet(S)
  PROVE  /\ IsFiniteSet(S \cup {x}) /\ Cardinality(S \cup {x}) \in Nat
         /\ Cardinality(S \cup {x}) <= Cardinality(S) + 1
<1>1. Cardinality(S) \in Nat
  BY FS_CardinalityType
<1>2. Cardinality(S \cup {x}) = IF x \in S THEN Cardinality(S) ELSE Cardinality(S) + 1
  BY FS_AddElement
<1>3. IsFiniteSet(S \cup {x})
  BY FS_AddElement
<1>4. QED
  BY <1>1, <1>2, <1>3

LEMMA CommentSets ==
  ASSUME NEW log \in Seq(Events), NEW i \in Issues
  PROVE  /\ IsFiniteSet(Claims(log, i)) /\ Cardinality(Claims(log, i)) \in Nat
         /\ IsFiniteSet(Posting(i)) /\ Cardinality(Posting(i)) \in Nat
         /\ IsFiniteSet(Posting(i)') /\ Cardinality(Posting(i)') \in Nat
<1>1. IsFiniteSet(1..Len(log)) /\ Claims(log, i) \in SUBSET (1..Len(log))
  BY FS_Interval DEF Claims
<1>2. Posting(i) \in SUBSET Bridges /\ Posting(i)' \in SUBSET Bridges
  BY DEF Posting
<1>3. QED
  BY <1>1, <1>2, FS_Subset, FS_CardinalityType

LEMMA ClaimsAppend ==
  ASSUME NEW log \in Seq(Events), NEW e \in Events, NEW i \in Issues
  PROVE  Claims(Append(log, e), i) =
           IF RemoteKey[e.key] = i /\ e.action = "post_comment" /\ e.ok
           THEN Claims(log, i) \cup {Len(log) + 1} ELSE Claims(log, i)
<1> DEFINE longer == Append(log, e)
<1>1. Len(longer) = Len(log) + 1 /\ longer[Len(log) + 1] = e
      /\ \A n \in 1..Len(log) : longer[n] = log[n]
  OBVIOUS
<1>2. 1..Len(longer) = 1..Len(log) \cup {Len(log) + 1} /\ Len(log) + 1 \notin 1..Len(log)
  BY <1>1
<1> HIDE DEF longer
<1>3. QED
  BY <1>1, <1>2 DEF Claims, longer

\* Steps that add no claim and no bridge that posted one.
LEMMA CommentKeep ==
  ASSUME TypeOK, TypeOK', CommentInv, done' = done,
         \A i \in Issues : Posting(i)' \subseteq Posting(i),
         \A i \in Issues : \A log \in {events', dirtyEvents'} :
           \E was \in {events, dirtyEvents} : Claims(log, i) = Claims(was, i)
  PROVE  CommentInv'
<1> SUFFICES ASSUME NEW i \in Issues, NEW log \in {events', dirtyEvents'}
             PROVE  Cardinality(Claims(log, i)) + Cardinality(Posting(i)') <= done[i]["post_comment"]
  BY DEF CommentInv
<1>1. PICK was \in {events, dirtyEvents} : Claims(log, i) = Claims(was, i)
  OBVIOUS
<1>2. was \in Seq(Events)
  BY DEF TypeOK
<1>3. Cardinality(Posting(i)') <= Cardinality(Posting(i))
  BY <1>2, CommentSets, FS_Subset
<1>4. Cardinality(Claims(was, i)) + Cardinality(Posting(i)) <= done[i]["post_comment"]
  BY DEF CommentInv
<1>5. done[i]["post_comment"] \in Nat
  BY DEF TypeOK, Outbound
<1>6. QED
  BY <1>1, <1>2, <1>3, <1>4, <1>5, CommentSets

LEMMA CommentStep == TypeOK /\ CommentInv /\ [Next]_vars => CommentInv'
<1> SUFFICES ASSUME TypeOK, CommentInv, [Next]_vars PROVE CommentInv'
  OBVIOUS
<1>1. TypeOK'
  BY TypeStep
<1> USE IssuesAreKeys
<1>2. ASSUME UNCHANGED <<done, stored, dirty>>, \A i \in Issues : Posting(i)' \subseteq Posting(i)
      PROVE  CommentInv'
  BY <1>1, <1>2, CommentKeep DEF stored, dirty
<1>3. ASSUME UNCHANGED call PROVE \A i \in Issues : Posting(i)' = Posting(i)
  BY <1>3 DEF Posting, IsAt, Idle
<1>4. ASSUME NEW b \in Bridges, NEW r \in Calls \cup {NoCall},
             call' = [call EXCEPT ![b] = r],
             r = NoCall \/ r.at # "done" \/ r.action # "post_comment"
      PROVE  \A i \in Issues : Posting(i)' = Posting(i) \ {b}
  BY <1>4 DEF Posting, IsAt, Idle, TypeOK
<1>5. CASE UNCHANGED vars
  BY <1>2, <1>3, <1>5 DEF vars, tracker
<1>6. ASSUME NEW i \in Issues, RemoteChange(i) PROVE CommentInv'
  BY <1>2, <1>3, <1>6 DEF RemoteChange
<1>7. ASSUME NEW b \in Bridges, NEW k \in Keys, NEW a \in Actions, Begin(b, k, a)
      PROVE  CommentInv'
  <2> DEFINE r == [action |-> a, key |-> k, version |-> 0, at |-> "asked"]
  <2>1. r \in Calls /\ r.at # "done"
    BY DEF Calls
  <2>2. \A i \in Issues : Posting(i)' = Posting(i) \ {b}
    BY <1>4, <1>7, <2>1 DEF Begin
  <2>3. QED
    BY <1>2, <1>7, <2>2 DEF Begin, tracker
<1>8. ASSUME NEW b \in Bridges, Fetched(b) PROVE CommentInv'
  <2> DEFINE r == [call[b] EXCEPT !.at = "done", !.version = remote[RemoteKey[call[b].key]]]
  <2>1. call[b] \in Calls /\ call[b].action = "fetch"
    BY <1>8, CallInProgress DEF Fetched, IsAt
  <2>2. r \in Calls /\ r.action = "fetch"
    BY <2>1 DEF TypeOK, Calls
  <2>3. call' = [call EXCEPT ![b] = r]
    BY <1>8 DEF Fetched, TypeOK
  <2>4. \A i \in Issues : Posting(i)' = Posting(i) \ {b}
    BY <1>4, <2>2, <2>3
  <2>5. QED
    BY <1>2, <1>8, <2>4 DEF Fetched, tracker
<1>9. ASSUME NEW b \in Bridges, NEW p \in {"failed", "done", "cached"}, ~Idle(b), MoveTo(b, p)
      PROVE  /\ p # "done" \/ call[b].action # "post_comment" =>
                  \A i \in Issues : Posting(i)' = Posting(i) \ {b}
             /\ \A i \in Issues : i # RemoteKey[call[b].key] => Posting(i)' \subseteq Posting(i)
             /\ \A i \in Issues : Posting(i)' \subseteq Posting(i) \cup {b}
  <2> DEFINE r == [call[b] EXCEPT !.at = p]
  <2>1. call[b] \in Calls
    BY <1>9, CallInProgress
  <2>2. r \in Calls /\ r.at = p /\ r.action = call[b].action /\ r.key = call[b].key
    BY <2>1 DEF Calls
  <2>3. call' = [call EXCEPT ![b] = r]
    BY <1>9 DEF MoveTo, TypeOK
  <2> HIDE DEF r
  <2>4. p # "done" \/ call[b].action # "post_comment" =>
          \A i \in Issues : Posting(i)' = Posting(i) \ {b}
    BY <1>4, <2>2, <2>3
  <2>5. call'[b] = r /\ \A c \in Bridges \ {b} : call'[c] = call[c]
    BY <2>3 DEF TypeOK
  <2>6. QED
    BY <2>2, <2>4, <2>5 DEF Posting, IsAt, Idle
<1>10. ASSUME NEW b \in Bridges, Performed(b) PROVE CommentInv'
  <2> DEFINE j == RemoteKey[call[b].key]
             a == call[b].action
  <2>1. call[b] \in Calls /\ a \in Outbound /\ j \in Issues /\ ~Idle(b)
    BY <1>10, CallInProgress DEF Performed, IsAt, Calls
  <2>2. UNCHANGED <<stored, dirty>> /\ done' = [done EXCEPT ![j][a] = @ + 1]
    BY <1>10 DEF Performed
  <2>3. PICK p \in {"done", "failed"} : MoveTo(b, p)
    BY <1>10 DEF Performed
  <2> SUFFICES ASSUME NEW i \in Issues, NEW log \in {events, dirtyEvents}
               PROVE  Cardinality(Claims(log, i)) + Cardinality(Posting(i)')
                        <= done'[i]["post_comment"]
    BY <2>2 DEF CommentInv, stored, dirty
  <2>4. /\ log \in Seq(Events) /\ done[i]["post_comment"] \in Nat
        /\ Cardinality(Claims(log, i)) + Cardinality(Posting(i)) <= done[i]["post_comment"]
    BY DEF CommentInv, TypeOK, Outbound
  <2>5. CASE i = j /\ a = "post_comment"
    <3>1. done'[i]["post_comment"] = done[i]["post_comment"] + 1
      BY <2>1, <2>2, <2>5 DEF TypeOK, Outbound
    <3>2. Posting(i)' \in SUBSET (Posting(i) \cup {b})
      BY <1>9, <2>1, <2>3
    <3>3. Cardinality(Posting(i)') <= Cardinality(Posting(i)) + 1
      <4>1. IsFiniteSet(Posting(i) \cup {b})
            /\ Cardinality(Posting(i) \cup {b}) <= Cardinality(Posting(i)) + 1
        <5>1. IsFiniteSet(Posting(i)) /\ Cardinality(Posting(i)) \in Nat
          BY <2>4, CommentSets
        <5>2. QED
          BY <5>1, OneMore
      <4>2. Cardinality(Posting(i)') <= Cardinality(Posting(i) \cup {b})
        BY <3>2, <4>1, FS_Subset
      <4>3. Cardinality(Posting(i) \cup {b}) \in Nat
        BY <4>1, FS_CardinalityType
      <4>4. QED
        BY <2>4, <4>1, <4>2, <4>3, CommentSets
    <3>4. QED
      BY <2>4, <3>1, <3>3, CommentSets
  <2>6. CASE i # j \/ a # "post_comment"
    <3>1. done'[i]["post_comment"] = done[i]["post_comment"]
      BY <2>1, <2>2, <2>6 DEF TypeOK, Outbound
    <3>2. Posting(i)' \in SUBSET Posting(i)
      BY <1>9, <2>1, <2>3, <2>6
    <3>3. Cardinality(Posting(i)') <= Cardinality(Posting(i))
      BY <2>4, <3>2, CommentSets, FS_Subset
    <3>4. QED
      BY <2>4, <3>1, <3>3, CommentSets
  <2>7. QED
    BY <2>5, <2>6
<1>11. ASSUME NEW b \in Bridges, StatusIgnored(b) \/ Failed(b) PROVE CommentInv'
  <2>1. /\ ~Idle(b) /\ UNCHANGED <<done, stored, dirty>>
        /\ MoveTo(b, "failed") \/ (MoveTo(b, "done") /\ call[b].action = "update_status")
    <3>1. CASE StatusIgnored(b)
      BY <3>1 DEF StatusIgnored, IsAt, tracker
    <3>2. CASE Failed(b)
      BY <3>2 DEF Failed, IsAt, tracker
    <3>3. QED
      BY <1>11, <3>1, <3>2
  <2>2. \A i \in Issues : Posting(i)' = Posting(i) \ {b}
    BY <1>9, <2>1
  <2>3. QED
    BY <1>2, <2>1, <2>2
<1>12. ASSUME NEW b \in Bridges, CacheIssue(b) PROVE CommentInv'
  <2>1. ~Idle(b) /\ MoveTo(b, "cached") /\ UNCHANGED <<done, events, dirtyEvents>>
    BY <1>12 DEF CacheIssue, IsAt, tracker, stored
  <2>2. \A i \in Issues : Posting(i)' = Posting(i) \ {b}
    BY <1>9, <2>1
  <2>3. QED
    BY <1>1, <2>1, <2>2, CommentKeep
<1>13. ASSUME NEW b \in Bridges, Return(b) PROVE \A i \in Issues : Posting(i)' = Posting(i) \ {b}
  BY <1>4, <1>13 DEF Return
<1>14. ASSUME NEW b \in Bridges, RecordFetch(b) PROVE CommentInv'
  <2>1. call[b] \in Calls
    BY <1>14, CallInProgress DEF RecordFetch, IsAt
  <2> DEFINE e == [key |-> RemoteKey[call[b].key], action |-> "fetch", ok |-> TRUE]
  <2>2. e \in Events
    BY <2>1 DEF Events, Actions, Calls
  <2>3. dirtyEvents' = Append(dirtyEvents, e) /\ e.action = "fetch"
        /\ done' = done /\ events' = events /\ Return(b)
    BY <1>14 DEF RecordFetch, RecordEvent, tracker, stored
  <2> HIDE DEF e
  <2>4. \A i \in Issues : Claims(dirtyEvents', i) = Claims(dirtyEvents, i)
    <3>1. dirtyEvents \in Seq(Events)
      BY DEF TypeOK
    <3>2. QED
      BY <2>2, <2>3, <3>1, ClaimsAppend
  <2>5. QED
    BY <1>1, <1>13, <2>3, <2>4, CommentKeep
<1>15. ASSUME NEW b \in Bridges, RecordResult(b) PROVE CommentInv'
  <2>1. call[b] \in Calls
    BY <1>15, CallInProgress DEF RecordResult, IsAt
  <2> DEFINE e == [key |-> call[b].key, action |-> call[b].action, ok |-> call[b].at = "done"]
             claim == call[b].action = "post_comment" /\ call[b].at = "done"
             j == RemoteKey[call[b].key]
  <2>2. e \in Events
    BY <2>1 DEF Events, Calls
  <2>3. dirtyEvents' = Append(dirtyEvents, e) /\ done' = done /\ events' = events /\ Return(b)
    BY <1>15 DEF RecordResult, RecordEvent, tracker, stored
  <2>4. \A i \in Issues : Claims(dirtyEvents', i) =
          IF j = i /\ claim THEN Claims(dirtyEvents, i) \cup {Len(dirtyEvents) + 1}
          ELSE Claims(dirtyEvents, i)
    <3>1. dirtyEvents \in Seq(Events)
      BY DEF TypeOK
    <3>2. e.key = call[b].key /\ e.action = call[b].action /\ (e.ok <=> call[b].at = "done")
      OBVIOUS
    <3> HIDE DEF e
    <3>3. QED
      BY <2>2, <2>3, <3>1, <3>2, ClaimsAppend
  <2>5. CASE ~claim
    BY <1>1, <1>13, <2>3, <2>4, <2>5, CommentKeep
  <2>6. CASE claim
    <3> SUFFICES ASSUME NEW i \in Issues, NEW log \in {events, dirtyEvents'}
                 PROVE  Cardinality(Claims(log, i)) + Cardinality(Posting(i)')
                          <= done[i]["post_comment"]
      BY <2>3 DEF CommentInv
    <3> DEFINE old == IF log = events THEN events ELSE dirtyEvents
    <3>1. /\ old \in Seq(Events) /\ done[i]["post_comment"] \in Nat
          /\ Cardinality(Claims(old, i)) + Cardinality(Posting(i)) <= done[i]["post_comment"]
      BY DEF CommentInv, TypeOK, Outbound
    <3>2. Posting(i)' = Posting(i) \ {b}
      BY <1>13, <2>3
    <3>3. Claims(log, i) \in {Claims(old, i), Claims(old, i) \cup {Len(dirtyEvents) + 1}}
          /\ (i # j => Claims(log, i) = Claims(old, i))
      BY <2>4, <2>6
    <3> HIDE DEF old
    <3>4. Cardinality(Claims(log, i)) <= Cardinality(Claims(old, i)) + 1
          /\ Cardinality(Claims(log, i)) \in Nat
      <4>1. IsFiniteSet(Claims(old, i)) /\ Cardinality(Claims(old, i)) \in Nat
        BY <3>1, CommentSets
      <4> DEFINE more == Claims(old, i) \cup {Len(dirtyEvents) + 1}
      <4>2. Cardinality(more) \in Nat /\ Cardinality(more) <= Cardinality(Claims(old, i)) + 1
        BY <4>1, OneMore
      <4> HIDE DEF more
      <4>3. Claims(log, i) = Claims(old, i) \/ Claims(log, i) = more
        BY <3>3 DEF more
      <4>4. QED
        BY <4>1, <4>2, <4>3
    <3>5. CASE i = j
      <4>1. b \in Posting(i)
        BY <1>15, <2>1, <2>6, <3>5 DEF Posting, IsAt, RecordResult
      <4>2. Cardinality(Posting(i)') = Cardinality(Posting(i)) - 1
        BY <3>1, <3>2, <4>1, CommentSets, FS_RemoveElement
      <4>3. QED
        BY <3>1, <3>4, <4>2, CommentSets
    <3>6. CASE i # j
      <4>1. Cardinality(Posting(i)') <= Cardinality(Posting(i))
        BY <3>1, <3>2, CommentSets, FS_Subset
      <4>2. QED
        BY <3>1, <3>3, <3>6, <4>1, CommentSets
    <3>7. QED
      BY <3>5, <3>6
  <2>7. QED
    BY <2>5, <2>6
<1>16. ASSUME NEW b \in Bridges, Commit(b) PROVE CommentInv'
  BY <1>1, <1>3, <1>16, CommentKeep DEF Commit, tracker, dirty
<1>17. ASSUME NEW b \in Bridges, Abandon(b) PROVE CommentInv'
  BY <1>1, <1>13, <1>17, CommentKeep DEF Abandon, tracker, stored, dirty
<1>18. ASSUME NEW b \in Bridges, WriteElsewhere(b) PROVE CommentInv'
  BY <1>2, <1>3, <1>18 DEF WriteElsewhere, tracker
<1>19. QED
  BY <1>5, <1>6, <1>7, <1>8, <1>10, <1>11, <1>12, <1>14, <1>15, <1>16, <1>17, <1>18 DEF Next

\* The log claims no comment that was not posted, for any bridges and keys.
THEOREM ClaimsAreTrue == Spec => []CommentsWerePosted
<1>1. Init => CommentInv
  <2> SUFFICES ASSUME Init, NEW i \in Issues PROVE
        Cardinality(Claims(<< >>, i)) + Cardinality(Posting(i)) <= done[i]["post_comment"]
    BY DEF CommentInv, Init
  <2>1. Claims(<< >>, i) = {} /\ Posting(i) = {}
    BY DEF Claims, Posting, Init, IsAt, Idle
  <2>2. done[i]["post_comment"] = 0
    BY DEF Init, Outbound
  <2>3. QED
    <3>1. Cardinality({}) = 0
      BY FS_EmptySet
    <3>2. Cardinality(Claims(<< >>, i)) = 0 /\ Cardinality(Posting(i)) = 0
      BY <2>1, <3>1
    <3>3. QED
      BY <2>2, <3>2
<1>2. TypeOK /\ CommentInv => CommentsWerePosted
  <2> SUFFICES ASSUME TypeOK, CommentInv, NEW i \in Issues
               PROVE  Cardinality(Claims(events, i)) <= done[i]["post_comment"]
    BY DEF CommentsWerePosted, Claims, EventsAbout
  <2>1. /\ events \in Seq(Events) /\ done[i]["post_comment"] \in Nat
        /\ Cardinality(Claims(events, i)) + Cardinality(Posting(i)) <= done[i]["post_comment"]
    BY DEF CommentInv, TypeOK, Outbound
  <2>2. QED
    BY <2>1, CommentSets
<1>3. QED
  BY <1>1, <1>2, CommentStep, TypeCorrect, PTL DEF Spec

-------------------------------------------------------------------------------
(* TrackerViews implements TrackerBridge                                    *)

\* Whatever is linked and read beside it, the bridge does what TrackerBridge says.
LEMMA ViewsStep == [ViewsNext]_allVars => [Next]_vars
<1> SUFFICES ASSUME [ViewsNext]_allVars PROVE [Next]_vars
  OBVIOUS
<1>1. CASE UNCHANGED allVars
  BY <1>1 DEF allVars
<1>2. ASSUME NEW i \in Issues, RemoteChange(i) PROVE Next
  BY <1>2 DEF Next
<1>3. ASSUME NEW b \in Bridges, BridgeCall(b) \/ ViewsCommit(b) \/ ViewsAbandon(b) PROVE Next
  BY <1>3 DEF BridgeCall, ViewsCommit, ViewsAbandon, Next
<1>4. ASSUME NEW b \in Bridges, NEW text, NEW task, NEW role, LinkIssue(b, text, task, role)
      PROVE  Next
  BY <1>4 DEF LinkIssue, Next
<1>5. ASSUME NEW b \in Bridges, NEW text,
             ReadRow(b, text) \/ ReadEvent(b) \/ ReadLinks(b) \/ Told(b)
      PROVE  UNCHANGED vars
  BY <1>5 DEF ReadRow, ReadEvent, ReadLinks, Told
<1>6. QED
  BY <1>1, <1>2, <1>3, <1>4, <1>5 DEF ViewsNext

\* The composition implements its component, for any constants.
THEOREM ViewsImplementBridge == ViewsSpec => Spec
<1>1. ViewsInit => Init
  BY DEF ViewsInit
<1>2. QED
  BY <1>1, ViewsStep, PTL DEF ViewsSpec, Spec

\* Which step a step of TrackerViews is, in the terms of what it does to the views.
ReadStep(b) == \/ \E text \in IssueTexts : ReadRow(b, text)
               \/ ReadEvent(b) \/ ReadLinks(b) \/ Told(b)

LEMMA ReadStepFrame ==
  ASSUME ViewsTypeOK, NEW b \in Bridges, ReadStep(b)
  PROVE  UNCHANGED <<vars, links, dirtyLinks>> /\ \A c \in Bridges \ {b} : reading'[c] = reading[c]
BY DEF ReadStep, ReadRow, ReadEvent, ReadLinks, Told, ViewsTypeOK

\* What a reference that is accepted is stored as.
LEMMA NormalIssue ==
  ASSUME NEW text \in IssueTexts
  PROVE  /\ IsValid(text) /\ NormalIssueRef(text) = Canonical(text)
         /\ NormalIssueRef(text) \in Texts /\ text \in Texts
<1>1. text \in Texts /\ IsValid(text) /\ NormalIssueRef(text) = Canonical(text)
  BY ViewsAssumption DEF IssueTexts, NormalIssueRef, IsValid
<1>2. QED
  BY <1>1, CanonicalOfText

LEMMA NormalTask ==
  ASSUME NEW text \in TaskTexts
  PROVE  /\ IsValid(text) /\ NormalTaskRef(text) = Canonical(text)
         /\ NormalTaskRef(text) \in Texts /\ text \in Texts
<1>1. text \in Texts /\ IsValid(text) /\ NormalTaskRef(text) = Canonical(text)
  BY ViewsAssumption DEF TaskTexts, NormalTaskRef, IsValid
<1>2. QED
  BY <1>1, CanonicalOfText

\* What a reading in progress is.
LEMMA ReadingInProgress ==
  ASSUME ViewsTypeOK, NEW b \in Bridges, reading[b] # NoReading
  PROVE  reading[b] \in Readings
BY DEF ViewsTypeOK

LEMMA ViewsTypeStep == ViewsTypeOK /\ [ViewsNext]_allVars => ViewsTypeOK'
<1> SUFFICES ASSUME ViewsTypeOK, [ViewsNext]_allVars PROVE ViewsTypeOK'
  OBVIOUS
<1>1. TypeOK /\ TypeOK'
  BY ViewsStep, TypeStep DEF ViewsTypeOK
<1>2. CASE UNCHANGED views
  BY <1>1, <1>2 DEF ViewsTypeOK, views
<1>3. ASSUME NEW b \in Bridges, ViewsCommit(b) PROVE ViewsTypeOK'
  BY <1>1, <1>3 DEF ViewsTypeOK, ViewsCommit
<1>4. ASSUME NEW b \in Bridges, ViewsAbandon(b) PROVE ViewsTypeOK'
  BY <1>1, <1>4 DEF ViewsTypeOK, ViewsAbandon
<1>5. ASSUME NEW b \in Bridges, NEW text \in IssueTexts, NEW task \in TaskTexts, NEW role \in Roles,
             LinkIssue(b, text, task, role)
      PROVE  ViewsTypeOK'
  <2>1. [issue |-> NormalIssueRef(text), task |-> NormalTaskRef(task), role |-> role] \in Links
    BY NormalIssue, NormalTask DEF Links
  <2>2. QED
    BY <1>1, <1>5, <2>1 DEF ViewsTypeOK, LinkIssue
<1>6. ASSUME NEW b \in Bridges, NEW r \in Readings \cup {NoReading},
             reading' = [reading EXCEPT ![b] = r], UNCHANGED <<links, dirtyLinks>>
      PROVE  ViewsTypeOK'
  BY <1>1, <1>6 DEF ViewsTypeOK
<1>7. ASSUME NEW b \in Bridges, NEW text \in IssueTexts, ReadRow(b, text) PROVE ViewsTypeOK'
  <2>1. PICK i \in Issues :
          /\ CacheSeenBy(b)[i] # NoRow
          /\ reading' = [reading EXCEPT ![b] =
               [ref |-> NormalIssueRef(text), row |-> CacheSeenBy(b)[i], last |-> Unknown,
                tasks |-> {}, at |-> "event"]]
    BY <1>7 DEF ReadRow
  <2>2. CacheSeenBy(b)[i] \in Nat
    BY <1>1, <2>1 DEF CacheSeenBy, TypeOK
  <2>3. [ref |-> NormalIssueRef(text), row |-> CacheSeenBy(b)[i], last |-> Unknown,
         tasks |-> {}, at |-> "event"] \in Readings
    BY <2>2, NormalIssue DEF Readings
  <2>4. QED
    BY <1>6, <1>7, <2>1, <2>3 DEF ReadRow
<1>8. ASSUME NEW b \in Bridges, ReadEvent(b) PROVE ViewsTypeOK'
  <2>1. PICK result \in BOOLEAN \cup {Unknown} :
          reading' = [reading EXCEPT ![b].at = "links", ![b].last = result]
    BY <1>8 DEF ReadEvent
  <2>2. reading[b] \in Readings
    BY <1>8, ReadingInProgress DEF ReadEvent
  <2> DEFINE r == [reading[b] EXCEPT !.at = "links", !.last = result]
  <2>3. r \in Readings
    BY <2>2 DEF Readings
  <2>4. reading' = [reading EXCEPT ![b] = r]
    BY <2>1 DEF ViewsTypeOK
  <2>5. QED
    BY <1>6, <1>8, <2>3, <2>4 DEF ReadEvent
<1>9. ASSUME NEW b \in Bridges, ReadLinks(b) PROVE ViewsTypeOK'
  <2> DEFINE told == {l.task : l \in {k \in IssueLinks(b, reading[b].ref) : k.role = "primary"}}
             r == [reading[b] EXCEPT !.at = "told", !.tasks = told]
  <2>1. reading[b] \in Readings
    BY <1>9, ReadingInProgress DEF ReadLinks
  <2>2. told \subseteq Texts
    BY DEF IssueLinks, LinksSeenBy, ViewsTypeOK, Links
  <2> HIDE DEF told
  <2>3. r \in Readings
    BY <2>1, <2>2 DEF Readings
  <2>4. reading' = [reading EXCEPT ![b] = r]
    BY <1>9 DEF ReadLinks, ViewsTypeOK, told
  <2>5. QED
    BY <1>6, <1>9, <2>3, <2>4 DEF ReadLinks
<1>10. ASSUME NEW b \in Bridges, Told(b) PROVE ViewsTypeOK'
  BY <1>6, <1>10 DEF Told
<1>11. ASSUME NEW b \in Bridges, BridgeCall(b) PROVE ViewsTypeOK'
  BY <1>2, <1>11 DEF BridgeCall
<1>12. QED
  BY <1>2, <1>3, <1>4, <1>5, <1>7, <1>8, <1>9, <1>10, <1>11 DEF ViewsNext, allVars, views

\* The types hold for any bridges, keys and texts.
THEOREM ViewsTypeCorrect == ViewsSpec => []ViewsTypeOK
<1>1. ViewsInit => ViewsTypeOK
  BY IssuesAreKeys DEF ViewsInit, Init, TypeOK, ViewsTypeOK
<1>2. QED
  BY <1>1, ViewsTypeStep, PTL DEF ViewsSpec

-------------------------------------------------------------------------------
(* Links                                                                    *)

\* Stored references are what accepted texts are stored as.
LinksInv ==
  \A l \in links \cup dirtyLinks :
    /\ \E text \in IssueTexts : l.issue = NormalIssueRef(text)
    /\ \E text \in TaskTexts : l.task = NormalTaskRef(text)

LEMMA LinksStep == LinksInv /\ [ViewsNext]_allVars => LinksInv'
<1> SUFFICES ASSUME LinksInv, [ViewsNext]_allVars PROVE LinksInv'
  OBVIOUS
<1>1. CASE UNCHANGED <<links, dirtyLinks>>
  BY <1>1 DEF LinksInv
<1>2. ASSUME NEW b \in Bridges, ViewsCommit(b) \/ ViewsAbandon(b) PROVE LinksInv'
  BY <1>2 DEF LinksInv, ViewsCommit, ViewsAbandon
<1>3. ASSUME NEW b \in Bridges, NEW text \in IssueTexts, NEW task \in TaskTexts, NEW role \in Roles,
             LinkIssue(b, text, task, role)
      PROVE  LinksInv'
  BY <1>3 DEF LinksInv, LinkIssue
<1>4. QED
  BY <1>1, <1>2, <1>3
     DEF ViewsNext, BridgeCall, ReadRow, ReadEvent, ReadLinks, Told, allVars, views

\* What is stored is canonical, and every form that is read has one canonical form.
THEOREM StoredIsCanonical == ViewsSpec => []ReadBothWriteOne
<1>1. ViewsInit => LinksInv
  BY DEF ViewsInit, LinksInv
<1>2. LinksInv => ReadBothWriteOne
  <2> SUFFICES ASSUME LinksInv, NEW l \in links
               PROVE  Canonical(l.issue) = l.issue /\ Canonical(l.task) = l.task
    BY CanonicalFormIsOne DEF ReadBothWriteOne
  <2>1. PICK issue \in IssueTexts : l.issue = NormalIssueRef(issue)
    BY DEF LinksInv
  <2>2. PICK task \in TaskTexts : l.task = NormalTaskRef(task)
    BY DEF LinksInv
  <2>3. Canonical(l.issue) = l.issue
    BY <2>1, NormalIssue, CanonicalOfText
  <2>4. Canonical(l.task) = l.task
    BY <2>2, NormalTask, CanonicalOfText
  <2>5. QED
    BY <2>3, <2>4
<1>3. QED
  BY <1>1, <1>2, LinksStep, PTL DEF ViewsSpec

\* The reference of a key without a colon is normal and names the key.
LEMMA RefOfPiece ==
  ASSUME NEW k \in Pieces \ {EmptyPiece}, <<k>> \in Keys
  PROVE  /\ NormalIssueRef(RefOf[<<k>>]) = RefOf[<<k>>] /\ RefOf[<<k>>] # Invalid
         /\ Parse(RefOf[<<k>>]).id = k
<1> DEFINE p == lower[Provider]
<1>1. /\ Provider \in Pieces \ {EmptyPiece}
      /\ "tracker" \in Pieces \ {EmptyPiece} /\ lower["tracker"] = "tracker"
      /\ "issue" \in Pieces \ {EmptyPiece} /\ lower["issue"] = "issue"
      /\ "tracker" \in KnownDomains
  BY ViewsAssumption, PiecesAssumption DEF KnownDomains, EmptyPiece
<1>2. p \in Pieces \ {EmptyPiece} /\ lower[p] = p
  BY <1>1, LowerOfPiece
<1>3. RefOf[<<k>>] = <<"tracker", "issue", p, k>>
  <2>1. Format(<<"tracker">>, <<"issue">>, <<k>>, <<Provider>>) = <<"tracker", "issue", p, k>>
    BY <1>1, FormatOfPieces
  <2>2. QED
    BY <2>1 DEF RefOf
<1> HIDE DEF p
<1>4. Canonical(<<"tracker", "issue", p, k>>) = <<"tracker", "issue", p, k>>
  BY <1>1, <1>2, CanonicalOfPieces
<1>5. Parse(<<"tracker", "issue", p, k>>) =
        [domain |-> "tracker", type |-> "issue", provider |-> p, id |-> k]
  BY <1>1, <1>2, ParseOfFour
<1>6. /\ NormalIssueRef(<<"tracker", "issue", p, k>>) = <<"tracker", "issue", p, k>>
      /\ <<"tracker", "issue", p, k>> # Invalid
  BY <1>1, <1>2, <1>4, PartsAreNotInvalid DEF NormalIssueRef
<1>7. QED
  BY <1>3, <1>5, <1>6

LEMMA LongRef ==
  ASSUME NEW p \in Pieces, NEW key \in Seq(Pieces), key # << >>, Len(key) # 1
  PROVE  Segments(<<"tracker">> \o <<"issue">> \o <<p>> \o key) = << >>
<1> DEFINE front == <<"tracker">> \o <<"issue">> \o <<p>>
           n == Len(key)
<1>1. front \in Seq(Pieces) /\ Len(front) = 3
  BY PiecesAssumption DEF KnownDomains
<1>2. n \in Nat /\ n # 0 /\ n # 1
  BY EmptySeq, LenProperties
<1> HIDE DEF front
<1>3. Len(front \o key) = Len(front) + Len(key)
  BY <1>1, ConcatProperties
<1>4. Len(front \o key) = 3 + n
  BY <1>1, <1>3
<1> HIDE DEF n
<1>5. 3 + n # 3 /\ 3 + n # 4
  BY <1>2
<1>6. QED
  BY <1>4, <1>5 DEF Segments, front

\* The reference of a key is normal and names the key, or is refused if the key has a colon.
LEMMA RefOfKey ==
  ASSUME NEW key \in Keys
  PROVE  /\ NormalIssueRef(RefOf[key]) # Invalid <=> Len(key) = 1
         /\ Len(key) = 1 =>
              NormalIssueRef(RefOf[key]) = RefOf[key] /\ Parse(RefOf[key]).id = key[1]
<1>1. key \in Seq(Pieces) /\ key # << >> /\ key # <<EmptyPiece>>
  BY ViewsAssumption DEF Texts
<1>2. CASE Len(key) = 1
  <2>1. key = <<key[1]>> /\ key[1] \in Pieces
    BY <1>1, <1>2
  <2>2. key[1] # EmptyPiece
    BY <1>1, <2>1
  <2>3. QED
    BY <1>2, <2>1, <2>2, RefOfPiece
<1>3. CASE Len(key) # 1
  <2>1. /\ Provider \in Pieces /\ Provider # EmptyPiece
        /\ lower["tracker"] = "tracker" /\ lower["issue"] = "issue"
        /\ "tracker" # EmptyPiece /\ "issue" # EmptyPiece
    BY ViewsAssumption, PiecesAssumption DEF KnownDomains, EmptyPiece
  <2>2. ~ \E text \in {<<"tracker">>, <<"issue">>, <<Provider>>, key} : IsEmpty(text)
    BY <1>1, <2>1 DEF IsEmpty
  <2>3. /\ Lower(<<"tracker">>) = <<"tracker">> /\ Lower(<<"issue">>) = <<"issue">>
        /\ Lower(<<Provider>>) = <<lower[Provider]>>
    BY <2>1 DEF Lower
  <2>4. RefOf[key] = <<"tracker">> \o <<"issue">> \o <<lower[Provider]>> \o key
    <3>1. Format(<<"tracker">>, <<"issue">>, key, <<Provider>>) =
            <<"tracker">> \o <<"issue">> \o <<lower[Provider]>> \o key
      BY <2>2, <2>3 DEF Format
    <3>2. QED
      BY <3>1 DEF RefOf
  <2>5. Segments(RefOf[key]) = << >>
    BY <1>1, <1>3, <2>1, <2>4, LowerOfPiece, LongRef
  <2>6. NormalIssueRef(RefOf[key]) = Invalid
    BY <2>5 DEF Parse, Canonical, NormalIssueRef
  <2>7. QED
    BY <1>3, <2>6
<1>4. QED
  BY <1>2, <1>3

\* A reference that was formatted is never read as another one, and the event of a key is
\* found again if and only if the key has no colon, for any texts, keys and provider.
THEOREM EventsLeadBack == ViewsSpec => []RefsLeadBack
<1>1. TypeOK => RefsLeadBack
  <2> SUFFICES ASSUME TypeOK, NEW n \in DOMAIN events
               PROVE  LET key == events[n].key
                          ref == RefOf[key]
                      IN  /\ NormalIssueRef(ref) # Invalid <=> Len(key) = 1
                          /\ Len(key) = 1 =>
                               NormalIssueRef(ref) = ref /\ Parse(ref).id = key[1]
    BY FormattedIsNeverMisread DEF RefsLeadBack
  <2>1. events[n] \in Events
    BY DEF TypeOK
  <2>2. events[n].key \in Keys
    BY <2>1 DEF Events
  <2>3. QED
    BY <2>2, RefOfKey
<1>2. QED
  BY <1>1, TypeCorrect, ViewsImplementBridge, PTL

-------------------------------------------------------------------------------
(* Readings                                                                 *)

\* What the step of another program leaves to the reader b.
LEMMA OthersStep ==
  ASSUME ViewsTypeOK, NEW b \in Bridges, NEW c \in Bridges \ {b},
         \/ BridgeCall(c) \/ ViewsCommit(c) \/ ViewsAbandon(c) \/ ReadStep(c)
         \/ \E text \in IssueTexts, task \in TaskTexts, role \in Roles :
              LinkIssue(c, text, task, role)
  PROVE  /\ reading'[b] = reading[b] /\ call'[b] = call[b]
         /\ holder' = b <=> holder = b
         /\ holder = b => UNCHANGED <<dirty, dirtyLinks>>
         /\ holder # b => events' = events \/ events' = dirtyEvents
         /\ ViewsCommit(c) \/ events' = events
<1> b # NoBridge
  OBVIOUS
<1>1. CASE BridgeCall(c)
  <2>1. ASSUME UNCHANGED <<stored, dirty, holder>>, call'[b] = call[b]
        PROVE  /\ call'[b] = call[b] /\ events' = events /\ (holder' = b <=> holder = b)
               /\ holder = b => UNCHANGED dirty
    BY <2>1 DEF stored
  <2>2. ASSUME HasOrTakesLock(c), UNCHANGED stored, call'[b] = call[b]
        PROVE  /\ call'[b] = call[b] /\ events' = events /\ (holder' = b <=> holder = b)
               /\ holder = b => UNCHANGED dirty
    BY <2>2 DEF HasOrTakesLock, stored
  <2>3. call'[b] = call[b]
    BY <1>1 DEF BridgeCall, Begin, Fetched, Performed, StatusIgnored, Failed, CacheIssue,
         RecordFetch, RecordResult, WriteElsewhere, MoveTo, Return, ViewsTypeOK, TypeOK
  <2>4. \/ UNCHANGED <<stored, dirty, holder>>
        \/ HasOrTakesLock(c) /\ UNCHANGED stored
    BY <1>1 DEF BridgeCall, Begin, Fetched, Performed, StatusIgnored, Failed, CacheIssue,
         RecordFetch, RecordResult, WriteElsewhere
  <2>5. UNCHANGED views
    BY <1>1 DEF BridgeCall
  <2>6. /\ events' = events /\ (holder' = b <=> holder = b)
        /\ holder = b => UNCHANGED dirty
    BY <2>1, <2>2, <2>3, <2>4
  <2>7. reading' = reading /\ dirtyLinks' = dirtyLinks
    BY <2>5 DEF views
  <2>8. QED
    BY <2>3, <2>6, <2>7 DEF dirty
<1>2. CASE ViewsCommit(c)
  BY <1>2 DEF ViewsCommit, Commit, dirty
<1>3. CASE ViewsAbandon(c)
  BY <1>3 DEF ViewsAbandon, Abandon, Return, dirty, stored, ViewsTypeOK, TypeOK
<1>4. CASE ReadStep(c)
  BY <1>4, ReadStepFrame DEF vars, stored, dirty
<1>5. ASSUME NEW text \in IssueTexts, NEW task \in TaskTexts, NEW role \in Roles,
             LinkIssue(c, text, task, role)
      PROVE  /\ reading'[b] = reading[b] /\ call'[b] = call[b]
             /\ holder' = b <=> holder = b
             /\ holder # b
             /\ events' = events
  BY <1>5 DEF LinkIssue, WriteElsewhere, HasOrTakesLock, stored
<1>6. QED
  BY <1>1, <1>2, <1>3, <1>4, <1>5

\* A step of b itself: in a call it is not reading, and a reading begins and goes on
\* outside of calls.
LEMMA OwnStep ==
  ASSUME ViewsTypeOK, NEW b \in Bridges,
         \/ BridgeCall(b) \/ ViewsCommit(b) \/ ViewsAbandon(b)
         \/ \E text \in IssueTexts, task \in TaskTexts, role \in Roles :
              LinkIssue(b, text, task, role)
  PROVE  reading'[b] = NoReading
BY DEF BridgeCall, ViewsCommit, ViewsAbandon, LinkIssue, views, ViewsTypeOK

\* The uncommitted log extends the committed one.
LogInv == \A n \in 1..Len(events) : n \in 1..Len(dirtyEvents) /\ dirtyEvents[n] = events[n]

LEMMA LogStep == TypeOK /\ LogInv /\ [Next]_vars => LogInv'
<1> SUFFICES ASSUME TypeOK, LogInv, [Next]_vars PROVE LogInv'
  OBVIOUS
<1> USE IssuesAreKeys
<1>1. CASE UNCHANGED <<stored, dirty>>
  BY <1>1 DEF LogInv, stored, dirty
<1>2. ASSUME NEW e \in Events, dirtyEvents' = Append(dirtyEvents, e), events' = events
      PROVE  LogInv'
  <2>1. /\ Len(dirtyEvents') = Len(dirtyEvents) + 1
        /\ \A n \in 1..Len(dirtyEvents) : dirtyEvents'[n] = dirtyEvents[n]
    BY <1>2 DEF TypeOK
  <2>2. Len(dirtyEvents) \in Nat
    BY DEF TypeOK
  <2>3. QED
    BY <1>2, <2>1, <2>2 DEF LogInv
<1>3. ASSUME NEW b \in Bridges, RecordFetch(b) \/ RecordResult(b) PROVE LogInv'
  <2>1. call[b] \in Calls
    BY <1>3, CallInProgress DEF RecordFetch, RecordResult, IsAt
  <2>2. [key |-> RemoteKey[call[b].key], action |-> "fetch", ok |-> TRUE] \in Events
    BY <2>1 DEF Events, Actions, Calls
  <2>3. [key |-> call[b].key, action |-> call[b].action, ok |-> call[b].at = "done"] \in Events
    BY <2>1 DEF Events, Calls
  <2>4. QED
    BY <1>2, <1>3, <2>2, <2>3 DEF RecordFetch, RecordResult, RecordEvent, stored
<1>4. ASSUME NEW b \in Bridges, CacheIssue(b) PROVE LogInv'
  BY <1>4 DEF LogInv, CacheIssue, stored
<1>5. ASSUME NEW b \in Bridges, Commit(b) \/ Abandon(b) PROVE LogInv'
  BY <1>5 DEF LogInv, Commit, Abandon, stored, dirty
<1>6. QED
  BY <1>1, <1>3, <1>4, <1>5
     DEF Next, RemoteChange, Begin, Fetched, Performed, StatusIgnored, Failed, WriteElsewhere, vars

\* A reading has an event of its issue before it, and only grows away from "unknown".
ReadingInv ==
  /\ ViewsTypeOK /\ ReportInv /\ LogInv
  /\ \A b \in Bridges : reading[b] # NoReading =>
       /\ Idle(b)
       /\ EventsOf(b, reading[b].ref) # {}
       /\ reading[b].at # "event" => reading[b].last # Unknown

LEMMA ReadingStep == ReadingInv /\ [ViewsNext]_allVars => ReadingInv'
<1> SUFFICES ASSUME ReadingInv, [ViewsNext]_allVars PROVE ReadingInv'
  OBVIOUS
<1> USE IssuesAreKeys
<1>1. ViewsTypeOK /\ ReportInv /\ LogInv /\ TypeOK /\ ViewsTypeOK' /\ ReportInv' /\ LogInv'
  BY ViewsTypeStep, ReportStep, LogStep, ViewsStep DEF ReadingInv, ReportInv
<1> SUFFICES ASSUME NEW b \in Bridges, reading'[b] # NoReading
             PROVE  /\ Idle(b)'
                    /\ EventsOf(b, reading[b].ref)' # {}
                    /\ reading'[b].at # "event" => reading'[b].last # Unknown
  BY <1>1 DEF ReadingInv
<1>2. CASE UNCHANGED <<stored, dirty, holder, call, reading>>
  BY <1>2 DEF ReadingInv, Idle, EventsOf, EventsSeenBy, stored, dirty
<1>3. ASSUME NEW c \in Bridges \ {b},
             \/ BridgeCall(c) \/ ViewsCommit(c) \/ ViewsAbandon(c) \/ ReadStep(c)
             \/ \E text \in IssueTexts, task \in TaskTexts, role \in Roles :
                  LinkIssue(c, text, task, role)
      PROVE  /\ Idle(b)'
             /\ EventsOf(b, reading[b].ref)' # {}
             /\ reading'[b].at # "event" => reading'[b].last # Unknown
  <2>1. /\ reading'[b] = reading[b] /\ call'[b] = call[b]
        /\ holder' = b <=> holder = b
        /\ holder = b => UNCHANGED <<dirty, dirtyLinks>>
        /\ holder # b => events' = events \/ events' = dirtyEvents
    BY <1>1, <1>3, OthersStep
  <2>2. PICK n \in EventsOf(b, reading[b].ref) : TRUE
    BY <2>1 DEF ReadingInv
  <2>3. n \in EventsOf(b, reading[b].ref)'
    <3>1. CASE holder = b
      BY <2>1, <2>2, <3>1 DEF EventsOf, EventsSeenBy, dirty
    <3>2. CASE holder # b /\ events' = events
      BY <2>1, <2>2, <3>2 DEF EventsOf, EventsSeenBy
    <3>3. CASE holder # b /\ events' = dirtyEvents
      <4>1. n \in 1..Len(events) /\ RefOf[events[n].key] = reading[b].ref
        BY <1>1, <2>2, <3>3 DEF EventsOf, EventsSeenBy, TypeOK
      <4>2. n \in DOMAIN dirtyEvents /\ dirtyEvents[n] = events[n]
        BY <1>1, <4>1 DEF LogInv, TypeOK
      <4>3. QED
        BY <2>1, <3>3, <4>1, <4>2 DEF EventsOf, EventsSeenBy
    <3>4. QED
      BY <2>1, <3>1, <3>2, <3>3
  <2>4. QED
    BY <2>1, <2>3 DEF ReadingInv, Idle
<1>4. ASSUME NEW text \in IssueTexts, ReadRow(b, text)
      PROVE  /\ Idle(b)'
             /\ EventsOf(b, reading[b].ref)' # {}
             /\ reading'[b].at # "event" => reading'[b].last # Unknown
  <2>1. PICK i \in Issues :
          /\ RefOf[i] = NormalIssueRef(text) /\ CacheSeenBy(b)[i] # NoRow
          /\ reading' = [reading EXCEPT ![b] =
               [ref |-> NormalIssueRef(text), row |-> CacheSeenBy(b)[i], last |-> Unknown,
                tasks |-> {}, at |-> "event"]]
    BY <1>4 DEF ReadRow
  <2>2. reading'[b].ref = RefOf[i] /\ reading'[b].at = "event"
    BY <1>1, <2>1 DEF ViewsTypeOK
  <2>3. Idle(b) /\ UNCHANGED vars
    BY <1>4 DEF ReadRow
  <2>4. Reported(EventsSeenBy(b), i)
    <3>1. CASE holder = b
      <4>1. \A c \in Bridges : ~IsAt(c, "cached")
        BY <1>1, <2>3, <3>1 DEF ReportInv, IsAt
      <4>2. QED
        BY <1>1, <2>1, <3>1, <4>1 DEF ReportInv, HalfFetched, CacheSeenBy, EventsSeenBy
    <3>2. CASE holder # b
      BY <1>1, <2>1, <3>2 DEF ReportInv, CacheSeenBy, EventsSeenBy
    <3>3. QED
      BY <3>1, <3>2
  <2>5. PICK n \in 1..Len(EventsSeenBy(b)) : EventsSeenBy(b)[n].key = i
    BY <2>4 DEF Reported, Reports
  <2>6. n \in DOMAIN EventsSeenBy(b)
    BY <1>1, <2>5 DEF EventsSeenBy, TypeOK
  <2>7. EventsSeenBy(b)' = EventsSeenBy(b) /\ Idle(b)'
    BY <2>3 DEF EventsSeenBy, Idle, vars, stored, dirty
  <2>8. n \in EventsOf(b, reading[b].ref)'
    BY <2>2, <2>5, <2>6, <2>7 DEF EventsOf
  <2>9. QED
    BY <2>2, <2>7, <2>8
<1>5. ASSUME ReadEvent(b)
      PROVE  /\ Idle(b)'
             /\ EventsOf(b, reading[b].ref)' # {}
             /\ reading'[b].at # "event" => reading'[b].last # Unknown
  <2>1. PICK result \in BOOLEAN \cup {Unknown} :
          /\ LastResult(b, reading[b].ref, result)
          /\ reading' = [reading EXCEPT ![b].at = "links", ![b].last = result]
    BY <1>5 DEF ReadEvent
  <2>2. reading[b] \in Readings /\ reading[b] # NoReading
    BY <1>1, <1>5, ReadingInProgress DEF ReadEvent
  <2>3. reading'[b].ref = reading[b].ref /\ reading'[b].last = result
    BY <1>1, <2>1, <2>2 DEF ViewsTypeOK, Readings
  <2>4. PICK n \in EventsOf(b, reading[b].ref) : result = EventsSeenBy(b)[n].ok
    BY <2>1, <2>2 DEF LastResult, ReadingInv
  <2>5. EventsSeenBy(b)[n] \in Events
    BY <1>1, <2>4 DEF EventsOf, EventsSeenBy, TypeOK
  <2>6. result # Unknown
    BY <2>4, <2>5, ViewsAssumption DEF Events
  <2>7. EventsSeenBy(b)' = EventsSeenBy(b) /\ Idle(b)'
    BY <1>5, <2>2 DEF ReadEvent, ReadingInv, EventsSeenBy, Idle, vars, stored, dirty
  <2>8. QED
    BY <2>2, <2>3, <2>4, <2>6, <2>7 DEF EventsOf
<1>6. ASSUME ReadLinks(b) \/ Told(b)
      PROVE  /\ Idle(b)'
             /\ EventsOf(b, reading[b].ref)' # {}
             /\ reading'[b].at # "event" => reading'[b].last # Unknown
  <2>1. CASE Told(b)
    BY <1>1, <2>1 DEF Told, ViewsTypeOK
  <2>2. CASE ReadLinks(b)
    <3>1. reading[b] \in Readings /\ reading[b] # NoReading /\ reading[b].at # "event"
      BY <1>1, <2>2, ReadingInProgress DEF ReadLinks
    <3>2. reading'[b].ref = reading[b].ref /\ reading'[b].last = reading[b].last
      BY <1>1, <2>2, <3>1 DEF ReadLinks, ViewsTypeOK, Readings
    <3>3. EventsSeenBy(b)' = EventsSeenBy(b) /\ Idle(b)'
      BY <2>2, <3>1 DEF ReadLinks, ReadingInv, EventsSeenBy, Idle, vars, stored, dirty
    <3>4. QED
      BY <3>1, <3>2, <3>3 DEF EventsOf, ReadingInv
  <2>3. QED
    BY <1>6, <2>1, <2>2
<1>7. CASE UNCHANGED allVars
  BY <1>2, <1>7 DEF allVars, vars, views
<1>8. ASSUME NEW i \in Issues, RemoteChange(i) /\ UNCHANGED views
      PROVE  UNCHANGED <<stored, dirty, holder, call, reading>>
  BY <1>8 DEF RemoteChange, views
<1>9. ASSUME \/ BridgeCall(b) \/ ViewsCommit(b) \/ ViewsAbandon(b)
             \/ \E text \in IssueTexts, task \in TaskTexts, role \in Roles :
                  LinkIssue(b, text, task, role)
      PROVE  FALSE
  BY <1>1, <1>9, OwnStep
<1>10. QED
  BY <1>2, <1>3, <1>4, <1>5, <1>6, <1>7, <1>8, <1>9 DEF ViewsNext, ReadStep

\* A snapshot knows how the last synchronisation ended, for any bridges and keys.
THEOREM SnapshotsKnow == ViewsSpec => []SnapshotKnowsItsSync
<1>1. ViewsInit => ReadingInv
  <2> SUFFICES ASSUME ViewsInit PROVE ReadingInv
    OBVIOUS
  <2>1. ViewsTypeOK /\ LogInv
    BY IssuesAreKeys DEF ViewsInit, Init, TypeOK, ViewsTypeOK, LogInv
  <2>2. ReportInv
    BY <2>1, IssuesAreKeys DEF ViewsInit, Init, ViewsTypeOK, ReportInv, Reported, HalfFetched, IsAt, Idle
  <2>3. QED
    BY <2>1, <2>2 DEF ViewsInit, ReadingInv
<1>2. ReadingInv => SnapshotKnowsItsSync
  BY DEF ReadingInv, SnapshotKnowsItsSync
<1>3. QED
  BY <1>1, <1>2, ReadingStep, PTL DEF ViewsSpec

RefsAreNormal ==
  \A b \in Bridges : reading[b] # NoReading => NormalIssueRef(reading[b].ref) = reading[b].ref

LEMMA RefsStep == ViewsTypeOK /\ RefsAreNormal /\ [ViewsNext]_allVars => RefsAreNormal'
<1> SUFFICES ASSUME ViewsTypeOK, RefsAreNormal, [ViewsNext]_allVars,
                    NEW b \in Bridges, reading'[b] # NoReading
             PROVE  NormalIssueRef(reading'[b].ref) = reading'[b].ref
  BY DEF RefsAreNormal
<1>1. CASE reading'[b] = reading[b]
  BY <1>1 DEF RefsAreNormal
<1>2. ASSUME NEW text \in IssueTexts, ReadRow(b, text)
      PROVE  NormalIssueRef(reading'[b].ref) = reading'[b].ref
  <2>1. reading'[b].ref = NormalIssueRef(text)
    BY <1>2 DEF ReadRow, ViewsTypeOK
  <2>2. Canonical(NormalIssueRef(text)) = NormalIssueRef(text)
    BY NormalIssue, CanonicalOfText
  <2>3. NormalIssueRef(NormalIssueRef(text)) = NormalIssueRef(text)
    BY <2>2, NormalIssue DEF NormalIssueRef, IssueTexts
  <2>4. QED
    BY <2>1, <2>3
<1>3. ASSUME ReadEvent(b) \/ ReadLinks(b)
      PROVE  reading[b] # NoReading /\ reading'[b].ref = reading[b].ref
  <2>1. reading[b] \in Readings /\ reading[b] # NoReading
    BY <1>3, ReadingInProgress DEF ReadEvent, ReadLinks
  <2>2. QED
    BY <1>3, <2>1 DEF ReadEvent, ReadLinks, ViewsTypeOK, Readings
<1>4. CASE Told(b)
  BY <1>4 DEF Told, ViewsTypeOK
<1>5. ASSUME NEW c \in Bridges \ {b},
             \/ BridgeCall(c) \/ ViewsCommit(c) \/ ViewsAbandon(c) \/ ReadStep(c)
             \/ \E text \in IssueTexts, task \in TaskTexts, role \in Roles :
                  LinkIssue(c, text, task, role)
      PROVE  reading'[b] = reading[b]
  BY <1>5, OthersStep
<1>6. ASSUME \/ BridgeCall(b) \/ ViewsCommit(b) \/ ViewsAbandon(b)
             \/ \E text \in IssueTexts, task \in TaskTexts, role \in Roles :
                  LinkIssue(b, text, task, role)
      PROVE  FALSE
  BY <1>6, OwnStep
<1>7. CASE UNCHANGED views
  BY <1>1, <1>7 DEF views
<1>8. QED
  BY <1>1, <1>2, <1>3, <1>4, <1>5, <1>6, <1>7
     DEF ViewsNext, ReadStep, allVars, views, RefsAreNormal

\* What a program reads under the lock is so, for any bridges, keys and texts.
THEOREM LockedViews == ViewsSpec => []LockedViewIsCurrent
<1>1. ViewsInit => ViewsTypeOK /\ RefsAreNormal /\ LockedViewIsCurrent
  BY IssuesAreKeys
     DEF ViewsInit, Init, TypeOK, ViewsTypeOK, RefsAreNormal, LockedViewIsCurrent
<1>2. ViewsTypeOK /\ RefsAreNormal /\ LockedViewIsCurrent /\ [ViewsNext]_allVars => LockedViewIsCurrent'
  <2> SUFFICES ASSUME ViewsTypeOK, RefsAreNormal, LockedViewIsCurrent, [ViewsNext]_allVars,
                      NEW b \in Bridges, holder' = b, reading'[b] # NoReading
               PROVE  /\ \E i \in Issues : RefOf[i] = reading'[b].ref /\ reading'[b].row = dirtyCache'[i]
                      /\ reading'[b].at # "event" => LastResult(b, reading[b].ref, reading[b].last)'
                      /\ reading'[b].at = "told" =>
                           reading'[b].tasks =
                             {l.task : l \in {k \in dirtyLinks' :
                                               k.issue = reading'[b].ref /\ k.role = "primary"}}
    BY DEF LockedViewIsCurrent
  <2> DEFINE Goal == /\ \E i \in Issues : RefOf[i] = reading'[b].ref /\ reading'[b].row = dirtyCache'[i]
                     /\ reading'[b].at # "event" => LastResult(b, reading[b].ref, reading[b].last)'
                     /\ reading'[b].at = "told" =>
                           reading'[b].tasks =
                             {l.task : l \in {k \in dirtyLinks' :
                                               k.issue = reading'[b].ref /\ k.role = "primary"}}
  <2>1. CASE UNCHANGED <<dirty, dirtyLinks, holder>> /\ reading'[b] = reading[b]
    <3>1. /\ holder = b /\ reading[b] # NoReading /\ dirtyCache' = dirtyCache
          /\ dirtyLinks' = dirtyLinks /\ EventsSeenBy(b)' = EventsSeenBy(b)
      BY <2>1 DEF dirty, EventsSeenBy
    <3>2. QED
      BY <2>1, <3>1 DEF LockedViewIsCurrent, LastResult, EventsOf
  <2>2. ASSUME NEW c \in Bridges \ {b},
               \/ BridgeCall(c) \/ ViewsCommit(c) \/ ViewsAbandon(c) \/ ReadStep(c)
               \/ \E text \in IssueTexts, task \in TaskTexts, role \in Roles :
                    LinkIssue(c, text, task, role)
        PROVE  Goal
    BY <2>1, <2>2, OthersStep
  <2>3. ASSUME NEW text \in IssueTexts, ReadRow(b, text) PROVE Goal
    <3>1. PICK i \in Issues :
            /\ RefOf[i] = NormalIssueRef(text)
            /\ reading' = [reading EXCEPT ![b] =
                 [ref |-> NormalIssueRef(text), row |-> CacheSeenBy(b)[i], last |-> Unknown,
                  tasks |-> {}, at |-> "event"]]
      BY <2>3 DEF ReadRow
    <3>2. holder = b /\ dirtyCache' = dirtyCache
      BY <2>3 DEF ReadRow, vars, dirty
    <3>3. reading'[b].ref = RefOf[i] /\ reading'[b].at = "event" /\ reading'[b].row = dirtyCache'[i]
      BY <3>1, <3>2 DEF ViewsTypeOK, CacheSeenBy
    <3>4. QED
      BY <3>3
  <2>4. ASSUME ReadEvent(b) PROVE Goal
    <3>1. PICK result \in BOOLEAN \cup {Unknown} :
            /\ LastResult(b, reading[b].ref, result)
            /\ reading' = [reading EXCEPT ![b].at = "links", ![b].last = result]
      BY <2>4 DEF ReadEvent
    <3>2. reading[b] \in Readings /\ reading[b] # NoReading
      BY <2>4, ReadingInProgress DEF ReadEvent
    <3>3. /\ reading'[b].ref = reading[b].ref /\ reading'[b].last = result
          /\ reading'[b].row = reading[b].row /\ reading'[b].at = "links"
      BY <3>1, <3>2 DEF ViewsTypeOK, Readings
    <3>4. holder = b /\ dirtyCache' = dirtyCache /\ EventsSeenBy(b)' = EventsSeenBy(b)
      BY <2>4 DEF ReadEvent, EventsSeenBy, vars, stored, dirty
    <3>5. LastResult(b, reading[b].ref, reading[b].last)'
      BY <3>1, <3>3, <3>4 DEF LastResult, EventsOf
    <3>6. QED
      BY <3>2, <3>3, <3>4, <3>5 DEF LockedViewIsCurrent
  <2>5. ASSUME ReadLinks(b) PROVE Goal
    <3> DEFINE told == {l.task : l \in {k \in IssueLinks(b, reading[b].ref) : k.role = "primary"}}
    <3>1. reading[b] \in Readings /\ reading[b] # NoReading /\ reading[b].at = "links"
      BY <2>5, ReadingInProgress DEF ReadLinks
    <3>2. /\ reading'[b].ref = reading[b].ref /\ reading'[b].last = reading[b].last
          /\ reading'[b].row = reading[b].row /\ reading'[b].tasks = told
      BY <2>5, <3>1 DEF ReadLinks, ViewsTypeOK, Readings
    <3>3. /\ holder = b /\ dirtyCache' = dirtyCache /\ dirtyLinks' = dirtyLinks
          /\ EventsSeenBy(b)' = EventsSeenBy(b)
      BY <2>5 DEF ReadLinks, EventsSeenBy, vars, stored, dirty
    <3>4. LastResult(b, reading[b].ref, reading[b].last)'
      BY <3>1, <3>2, <3>3 DEF LockedViewIsCurrent, LastResult, EventsOf
    <3>5. NormalIssueRef(reading[b].ref) = reading[b].ref
      BY <3>1 DEF RefsAreNormal
    <3>6. told = {l.task : l \in {k \in dirtyLinks' :
                                    k.issue = reading'[b].ref /\ k.role = "primary"}}
      BY <3>2, <3>3, <3>5 DEF IssueLinks, LinksSeenBy
    <3>7. QED
      BY <3>1, <3>2, <3>3, <3>4, <3>6 DEF LockedViewIsCurrent
  <2>6. CASE Told(b)
    BY <2>6 DEF Told, ViewsTypeOK
  <2>7. CASE UNCHANGED allVars
    BY <2>1, <2>7 DEF allVars, vars, views
  <2>8. ASSUME NEW i \in Issues, RemoteChange(i) /\ UNCHANGED views
        PROVE  UNCHANGED <<dirty, dirtyLinks, holder>> /\ reading'[b] = reading[b]
    BY <2>8 DEF RemoteChange, views
  <2>9. ASSUME \/ BridgeCall(b) \/ ViewsCommit(b) \/ ViewsAbandon(b)
               \/ \E text \in IssueTexts, task \in TaskTexts, role \in Roles :
                    LinkIssue(b, text, task, role)
        PROVE  FALSE
    BY <2>9, OwnStep
  <2>10. QED
    BY <2>1, <2>2, <2>3, <2>4, <2>5, <2>6, <2>7, <2>8, <2>9 DEF ViewsNext, ReadStep
<1>3. QED
  BY <1>1, <1>2, ViewsTypeStep, RefsStep, PTL DEF ViewsSpec
-------------------------------------------------------------------------------
(* What is committed only goes forward                                      *)

\* A committed event stays where it is: the log of what the bridges did is only added to,
\* whichever of them commits and whatever was rolled back in between.
THEOREM EventsAreKept ==
  Spec => [][\A n \in 1..Len(events) :
               n \in 1..Len(events') /\ events'[n] = events[n]]_vars
<1>1. Init => LogInv
  BY DEF Init, LogInv
<1>2. ASSUME LogInv, Next
      PROVE  \A n \in 1..Len(events) : n \in 1..Len(events') /\ events'[n] = events[n]
  <2>1. events' \in {events, dirtyEvents}
    BY <1>2 DEF Next, RemoteChange, Begin, Fetched, Performed, StatusIgnored, Failed, CacheIssue,
       RecordFetch, RecordResult, WriteElsewhere, Commit, Abandon, stored
  <2>2. QED
    BY <1>2, <2>1 DEF LogInv
<1>3. LogInv /\ [Next]_vars =>
        [\A n \in 1..Len(events) : n \in 1..Len(events') /\ events'[n] = events[n]]_vars
  BY <1>2
<1>4. QED
  BY <1>1, <1>3, LogStep, TypeCorrect, PTL DEF Spec

\* What is cached came from the tracker; an answer that a bridge holds came from it too,
\* and if the bridge has the lock it had it then, so the row it sees is not newer.
FreshInv ==
  /\ TypeOK
  /\ \A i \in Issues : cache[i] # NoRow => cache[i] <= remote[i]
  /\ \A i \in Issues : dirtyCache[i] # NoRow => dirtyCache[i] <= remote[i]
  /\ \A b \in Bridges : \A i \in Issues :
       IsAt(b, "done") /\ call[b].action = "fetch" /\ RemoteKey[call[b].key] = i =>
         /\ call[b].version <= remote[i]
         /\ holder = b /\ dirtyCache[i] # NoRow => dirtyCache[i] <= call[b].version

LEMMA FreshStep == FreshInv /\ [Next]_vars => FreshInv'
<1> SUFFICES ASSUME FreshInv, [Next]_vars PROVE FreshInv'
  OBVIOUS
<1>1. TypeOK /\ TypeOK'
  BY TypeStep DEF FreshInv
<1>2. /\ \A i \in Issues : remote[i] \in Nat /\ cache[i] \in Nat \cup {NoRow}
                           /\ dirtyCache[i] \in Nat \cup {NoRow}
      /\ \A b \in Bridges : ~Idle(b) => call[b].version \in Nat /\ RemoteKey[call[b].key] \in Issues
      /\ NoRow \notin Nat /\ NoBridge \notin Bridges
  BY <1>1, CallInProgress, IssuesAreKeys DEF TypeOK, Calls
\* No new answer, and nobody takes the lock who holds one.
<1>a. ASSUME UNCHANGED <<remote, cache, dirtyCache>>,
             \A b \in Bridges : IsAt(b, "done")' /\ call'[b].action = "fetch" =>
               IsAt(b, "done") /\ call'[b] = call[b] /\ (holder' = b => holder = b)
      PROVE  FreshInv'
  BY <1>a, <1>1 DEF FreshInv
<1>3. ASSUME NEW j \in Issues, RemoteChange(j) PROVE FreshInv'
  <2>1. /\ remote' = [remote EXCEPT ![j] = @ + 1]
        /\ UNCHANGED <<cache, dirtyCache, holder, call>>
    BY <1>3 DEF RemoteChange, stored, dirty
  <2>2. \A i \in Issues : remote'[i] \in Nat /\ remote[i] <= remote'[i]
    BY <1>1, <1>2, <2>1 DEF TypeOK
  <2>3. \A b \in Bridges : IsAt(b, "done")' <=> IsAt(b, "done")
    BY <2>1 DEF IsAt, Idle
  <2>4. QED
    BY <1>1, <1>2, <2>1, <2>2, <2>3 DEF FreshInv, IsAt
<1>4. ASSUME NEW b \in Bridges, Fetched(b) PROVE FreshInv'
  <2> DEFINE i == RemoteKey[call[b].key]
  <2>1. i \in Issues /\ call[b] \in Calls
    BY <1>1, <1>2, <1>4, CallInProgress DEF Fetched, IsAt
  <2>2. /\ call' = [call EXCEPT ![b].at = "done", ![b].version = remote[i]]
        /\ UNCHANGED <<remote, cache, dirtyCache, holder>>
    BY <1>4 DEF Fetched, tracker, stored, dirty
  <2>3. call'[b].key = call[b].key /\ call'[b].version = remote[i]
    BY <1>1, <2>1, <2>2 DEF TypeOK, Calls
  <2>4. \A c \in Bridges \ {b} : call'[c] = call[c] /\ (IsAt(c, "done")' <=> IsAt(c, "done"))
    BY <1>1, <2>2 DEF TypeOK, IsAt, Idle
  <2> HIDE DEF i
  <2>5. ASSUME NEW c \in Bridges, NEW j \in Issues, IsAt(c, "done")',
               call'[c].action = "fetch", RemoteKey[call'[c].key] = j
        PROVE  /\ call'[c].version <= remote'[j]
               /\ holder' = c /\ dirtyCache'[j] # NoRow => dirtyCache'[j] <= call'[c].version
    <3>1. CASE c = b
      <4>1. j = i
        BY <2>3, <2>5, <3>1 DEF i
      <4>2. QED
        BY <1>2, <2>2, <2>3, <3>1, <4>1 DEF FreshInv
    <3>2. CASE c # b
      BY <2>2, <2>4, <2>5, <3>2 DEF FreshInv
    <3>3. QED
      BY <3>1, <3>2
  <2>6. QED
    BY <1>1, <2>2, <2>5 DEF FreshInv
<1>5. ASSUME NEW b \in Bridges, NEW k \in Keys, NEW action \in Actions, Begin(b, k, action)
      PROVE  FreshInv'
  <2>1. /\ call' = [call EXCEPT ![b] = [action |-> action, key |-> k, version |-> 0, at |-> "asked"]]
        /\ UNCHANGED <<remote, cache, dirtyCache, holder>>
    BY <1>5 DEF Begin, tracker, stored, dirty
  <2>2. \A c \in Bridges : IsAt(c, "done")' => IsAt(c, "done") /\ call'[c] = call[c]
    BY <1>1, <2>1 DEF TypeOK, IsAt, Idle
  <2>3. QED
    BY <1>a, <2>1, <2>2
<1>6. ASSUME NEW b \in Bridges, Performed(b) \/ StatusIgnored(b) \/ Failed(b) PROVE FreshInv'
  <2>1. /\ \/ call' = [call EXCEPT ![b].at = "failed"]
           \/ call' = [call EXCEPT ![b].at = "done"] /\ call[b].action \in Outbound
        /\ call[b] \in Calls
        /\ UNCHANGED <<remote, cache, dirtyCache, holder>>
    BY <1>1, <1>6, CallInProgress
       DEF Performed, StatusIgnored, Failed, MoveTo, IsAt, tracker, stored, dirty, Outbound
  <2>2. \A c \in Bridges \ {b} : call'[c] = call[c]
    BY <1>1, <2>1 DEF TypeOK
  <2>3. ~(IsAt(b, "done")' /\ call'[b].action = "fetch")
    <3>1. CASE call' = [call EXCEPT ![b].at = "failed"]
      <4>1. call'[b].at # "done"
        BY <1>1, <2>1, <3>1 DEF TypeOK, Calls
      <4>2. QED
        BY <4>1 DEF IsAt
    <3>2. CASE call' = [call EXCEPT ![b].at = "done"] /\ call[b].action \in Outbound
      <4>1. call'[b].action \in Outbound
        BY <1>1, <2>1, <3>2 DEF TypeOK, Calls
      <4>2. QED
        BY <4>1 DEF Outbound
    <3>3. QED
      BY <2>1, <3>1, <3>2
  <2>4. \A c \in Bridges : IsAt(c, "done")' /\ call'[c].action = "fetch" =>
          IsAt(c, "done") /\ call'[c] = call[c] /\ (holder' = c => holder = c)
    BY <2>1, <2>2, <2>3 DEF IsAt, Idle
  <2>5. QED
    BY <1>a, <2>1, <2>4
<1>7. ASSUME NEW b \in Bridges, CacheIssue(b) PROVE FreshInv'
  <2> DEFINE i == RemoteKey[call[b].key]
  <2>1. /\ i \in Issues /\ call[b].version \in Nat /\ call[b] \in Calls
        /\ IsAt(b, "done") /\ call[b].action = "fetch"
    BY <1>1, <1>2, <1>7, CallInProgress DEF CacheIssue, IsAt
  <2>2. /\ dirtyCache' = [dirtyCache EXCEPT ![i] = call[b].version] /\ holder' = b
        /\ UNCHANGED <<remote, cache>> /\ call' = [call EXCEPT ![b].at = "cached"]
    BY <1>7 DEF CacheIssue, MoveTo, HasOrTakesLock, tracker, stored
  <2>3. call[b].version <= remote[i]
    BY <2>1 DEF FreshInv
  <2> HIDE DEF i
  <2>4. \A j \in Issues :
          /\ dirtyCache'[j] = IF j = i THEN call[b].version ELSE dirtyCache[j]
          /\ remote'[j] = remote[j] /\ cache'[j] = cache[j]
    BY <1>1, <2>2 DEF TypeOK
  <2>5. \A j \in Issues : dirtyCache'[j] # NoRow => dirtyCache'[j] <= remote'[j]
    BY <2>3, <2>4 DEF FreshInv
  <2>6. call'[b].at = "cached" /\ \A c \in Bridges \ {b} : call'[c] = call[c]
    BY <1>1, <2>1, <2>2 DEF TypeOK, Calls
  <2>7. \A c \in Bridges : IsAt(c, "done")' =>
          c # b /\ IsAt(c, "done") /\ call'[c] = call[c]
    BY <2>6 DEF IsAt, Idle
  <2>8. QED
    BY <1>1, <2>2, <2>4, <2>5, <2>7 DEF FreshInv
<1>8. ASSUME NEW b \in Bridges, RecordFetch(b) \/ RecordResult(b) PROVE FreshInv'
  <2>1. Return(b) /\ UNCHANGED <<remote, cache, dirtyCache>> /\ holder' = b
    BY <1>8 DEF RecordFetch, RecordResult, HasOrTakesLock, tracker, stored
  <2>2. \A c \in Bridges : IsAt(c, "done")' => c # b /\ IsAt(c, "done") /\ call'[c] = call[c]
    BY <1>1, <2>1 DEF TypeOK, IsAt, Idle, Return
  <2>3. QED
    BY <1>a, <2>1, <2>2
<1>9. ASSUME NEW b \in Bridges, WriteElsewhere(b) \/ Commit(b) PROVE FreshInv'
  <2>1. /\ UNCHANGED <<remote, dirtyCache, call>> /\ cache' \in {cache, dirtyCache}
        /\ Idle(b) /\ holder' \in {b, NoBridge}
    BY <1>9 DEF WriteElsewhere, HasOrTakesLock, Commit, tracker, stored, dirty
  <2>2. \A c \in Bridges : IsAt(c, "done")' => c # b /\ IsAt(c, "done")
    BY <2>1 DEF IsAt, Idle
  <2>3. QED
    BY <1>1, <1>2, <2>1, <2>2 DEF FreshInv
<1>10. ASSUME NEW b \in Bridges, Abandon(b) PROVE FreshInv'
  <2>1. Return(b) /\ UNCHANGED <<remote, cache>>
    BY <1>10 DEF Abandon, tracker, stored
  <2>2. \A c \in Bridges : IsAt(c, "done")' => c # b /\ IsAt(c, "done") /\ call'[c] = call[c]
    BY <1>1, <2>1 DEF TypeOK, IsAt, Idle, Return
  <2>3. CASE holder # b
    <3>1. UNCHANGED <<dirtyCache, holder>>
      BY <1>10, <2>3 DEF Abandon, dirty
    <3>2. QED
      BY <1>a, <2>1, <2>2, <3>1
  <2>4. CASE holder = b
    <3>1. dirtyCache' = cache /\ holder' = NoBridge
      BY <1>10, <2>4 DEF Abandon
    <3>2. QED
      BY <1>1, <1>2, <2>1, <2>2, <3>1 DEF FreshInv
  <2>5. QED
    BY <2>3, <2>4
<1>11. CASE UNCHANGED vars
  <2>1. UNCHANGED <<remote, cache, dirtyCache, holder, call>>
    BY <1>11 DEF vars, tracker, stored, dirty
  <2>2. \A c \in Bridges : IsAt(c, "done")' => IsAt(c, "done")
    BY <2>1 DEF IsAt, Idle
  <2>3. QED
    BY <1>a, <2>1, <2>2
<1>12. QED
  BY <1>3, <1>4, <1>5, <1>6, <1>7, <1>8, <1>9, <1>10, <1>11 DEF Next

\* A bridge that has the lock replaces the row of an issue only by an answer that is not
\* older, whatever other programs do without it, for any bridges, keys and bounds.
THEOREM AnswersUnderLock == Spec => LockedFetchGoesForward
<1>1. Init => FreshInv
  BY IssuesAreKeys DEF Init, FreshInv, TypeOK, IsAt, Idle
<1>2. ASSUME FreshInv, Next, NEW b \in Bridges, NEW i \in Issues,
             holder = b, holder' = b, dirtyCache[i] # NoRow
      PROVE  dirtyCache'[i] # NoRow /\ dirtyCache[i] <= dirtyCache'[i]
  <2>1. /\ dirtyCache[i] \in Nat /\ NoRow \notin Nat /\ NoBridge \notin Bridges
        /\ dirtyCache \in [Issues -> Nat \cup {NoRow}]
    BY <1>2, BridgeAssumption DEF FreshInv, TypeOK
  <2>2. CASE dirtyCache' = dirtyCache
    BY <1>2, <2>1, <2>2
  <2>3. ASSUME NEW c \in Bridges, CacheIssue(c)
        PROVE  dirtyCache'[i] # NoRow /\ dirtyCache[i] <= dirtyCache'[i]
    <3>1. /\ c = b /\ IsAt(b, "done") /\ call[b].action = "fetch"
          /\ dirtyCache' = [dirtyCache EXCEPT ![RemoteKey[call[b].key]] = call[b].version]
      BY <1>2, <2>1, <2>3 DEF CacheIssue, HasOrTakesLock
    <3>2. call[b].version \in Nat
      BY <1>2, <3>1, CallInProgress DEF FreshInv, IsAt, Calls
    <3>3. CASE i = RemoteKey[call[b].key]
      <4>1. dirtyCache'[i] = call[b].version
        BY <2>1, <3>1, <3>3
      <4>2. dirtyCache[i] <= call[b].version
        BY <1>2, <3>1, <3>3 DEF FreshInv
      <4>3. QED
        BY <2>1, <3>2, <4>1, <4>2
    <3>4. CASE i # RemoteKey[call[b].key]
      BY <1>2, <2>1, <3>1, <3>4
    <3>5. QED
      BY <3>3, <3>4
  <2>4. ASSUME NEW c \in Bridges, Abandon(c) PROVE dirtyCache' = dirtyCache
    BY <1>2, <2>1, <2>4 DEF Abandon, dirty
  <2>5. QED
    BY <1>2, <2>2, <2>3, <2>4
       DEF Next, RemoteChange, Begin, Fetched, Performed, StatusIgnored, Failed, RecordFetch,
           RecordResult, WriteElsewhere, Commit, dirty
<1>3. FreshInv /\ [Next]_vars =>
        [\A b \in Bridges, i \in Issues :
           holder = b /\ holder' = b /\ dirtyCache[i] # NoRow
             => dirtyCache'[i] # NoRow /\ dirtyCache[i] <= dirtyCache'[i]]_vars
  BY <1>2
<1>4. QED
  BY <1>1, <1>3, FreshStep, PTL DEF Spec, LockedFetchGoesForward

\* The callers' discipline: the tracker answers a fetch while the bridge has the lock, as in
\* cmd_tracker_fetch, where init_db takes it first.  A program without it asks as well.
FetchesUnderLock == \A b \in Bridges : Fetched(b) => holder = b

\* A version that was fetched is not older than the row it will replace: the bridge kept
\* the lock, so the row is the one that was there when the tracker answered.
ForwardInv ==
  /\ TypeOK
  /\ \A i \in Issues : cache[i] # NoRow => dirtyCache[i] # NoRow /\ cache[i] <= dirtyCache[i]
  /\ \A i \in Issues : dirtyCache[i] # NoRow => dirtyCache[i] <= remote[i]
  /\ \A b \in Bridges : \A i \in Issues :
       IsAt(b, "done") /\ call[b].action = "fetch" /\ RemoteKey[call[b].key] = i =>
         /\ holder = b /\ call[b].version <= remote[i]
         /\ dirtyCache[i] # NoRow => dirtyCache[i] <= call[b].version

LEMMA ForwardStep == ForwardInv /\ [Next /\ FetchesUnderLock]_vars => ForwardInv'
<1> SUFFICES ASSUME ForwardInv, [Next /\ FetchesUnderLock]_vars PROVE ForwardInv'
  OBVIOUS
<1>1. TypeOK /\ TypeOK'
  BY TypeStep DEF ForwardInv
<1>2. /\ \A i \in Issues : remote[i] \in Nat /\ cache[i] \in Nat \cup {NoRow}
                           /\ dirtyCache[i] \in Nat \cup {NoRow}
      /\ \A b \in Bridges : ~Idle(b) => call[b].version \in Nat /\ RemoteKey[call[b].key] \in Issues
      /\ NoRow \notin Nat /\ NoBridge \notin Bridges
  BY <1>1, CallInProgress, IssuesAreKeys DEF TypeOK, Calls
<1>a. ASSUME UNCHANGED <<tracker, stored, dirtyCache>>,
             \A b \in Bridges : holder = b => holder' = b,
             \A b \in Bridges : IsAt(b, "done")' =>
               call'[b] = call[b] \/ call'[b].action \in Outbound
      PROVE  ForwardInv'
  <2>1. \A b \in Bridges : IsAt(b, "done")' /\ call'[b].action = "fetch" =>
          IsAt(b, "done") /\ call'[b] = call[b]
    BY <1>a DEF IsAt, Idle, Outbound
  <2>2. QED
    BY <1>a, <1>1, <2>1 DEF ForwardInv, tracker, stored
<1>3. ASSUME NEW j \in Issues, RemoteChange(j) PROVE ForwardInv'
  <2>1. /\ remote' = [remote EXCEPT ![j] = @ + 1]
        /\ UNCHANGED <<cache, dirtyCache, holder, call>>
    BY <1>3 DEF RemoteChange, stored, dirty
  <2>2. \A i \in Issues : remote'[i] \in Nat /\ remote[i] <= remote'[i]
    BY <1>1, <1>2, <2>1 DEF TypeOK
  <2>3. \A b \in Bridges : IsAt(b, "done")' <=> IsAt(b, "done")
    BY <2>1 DEF IsAt, Idle
  <2>4. QED
    BY <1>1, <1>2, <2>1, <2>2, <2>3 DEF ForwardInv, IsAt
<1>4. ASSUME NEW b \in Bridges, Fetched(b), holder = b PROVE ForwardInv'
  <2> DEFINE i == RemoteKey[call[b].key]
  <2>1. i \in Issues /\ call[b] \in Calls
    BY <1>1, <1>2, <1>4, CallInProgress DEF Fetched, IsAt
  <2>2. /\ call' = [call EXCEPT ![b].at = "done", ![b].version = remote[i]]
        /\ UNCHANGED <<remote, cache, dirtyCache, holder>>
    BY <1>4 DEF Fetched, tracker, stored, dirty
  <2>3. call'[b].key = call[b].key /\ call'[b].version = remote[i]
    BY <1>1, <2>1, <2>2 DEF TypeOK, Calls
  <2>4. \A c \in Bridges \ {b} : call'[c] = call[c] /\ (IsAt(c, "done")' <=> IsAt(c, "done"))
    BY <1>1, <2>2 DEF TypeOK, IsAt, Idle
  <2> HIDE DEF i
  <2>5. ASSUME NEW c \in Bridges, NEW j \in Issues, IsAt(c, "done")',
               call'[c].action = "fetch", RemoteKey[call'[c].key] = j
        PROVE  /\ holder' = c /\ call'[c].version <= remote'[j]
               /\ dirtyCache'[j] # NoRow => dirtyCache'[j] <= call'[c].version
    <3>1. CASE c = b
      <4>1. j = i
        BY <2>3, <2>5, <3>1 DEF i
      <4>2. QED
        BY <1>2, <1>4, <2>2, <2>3, <3>1, <4>1 DEF ForwardInv
    <3>2. CASE c # b
      BY <2>2, <2>4, <2>5, <3>2 DEF ForwardInv
    <3>3. QED
      BY <3>1, <3>2
  <2>6. QED
    BY <1>1, <2>2, <2>5 DEF ForwardInv
<1>5. ASSUME NEW b \in Bridges, NEW k \in Keys, NEW action \in Actions, Begin(b, k, action)
      PROVE  ForwardInv'
  <2>1. /\ call' = [call EXCEPT ![b] = [action |-> action, key |-> k, version |-> 0, at |-> "asked"]]
        /\ UNCHANGED <<tracker, stored, dirtyCache, holder>>
    BY <1>5 DEF Begin, dirty
  <2>2. \A c \in Bridges : IsAt(c, "done")' => call'[c] = call[c]
    BY <1>1, <2>1 DEF TypeOK, IsAt
  <2>3. QED
    BY <1>a, <2>1, <2>2
<1>6. ASSUME NEW b \in Bridges, Performed(b) PROVE ForwardInv'
  <2>1. /\ \E at \in {"done", "failed"} : call' = [call EXCEPT ![b].at = at]
        /\ call[b] \in Calls /\ call[b].action \in Outbound
        /\ UNCHANGED <<remote, cache, dirtyCache, holder>>
    BY <1>1, <1>6, CallInProgress DEF Performed, MoveTo, IsAt, stored, dirty
  <2>2. call'[b].action \in Outbound /\ \A c \in Bridges \ {b} : call'[c] = call[c]
    BY <1>1, <2>1 DEF TypeOK, Calls
  <2>3. \A c \in Bridges : IsAt(c, "done")' /\ call'[c].action = "fetch" =>
          IsAt(c, "done") /\ call'[c] = call[c]
    BY <2>2 DEF IsAt, Idle, Outbound
  <2>4. QED
    BY <1>1, <2>1, <2>3 DEF ForwardInv
<1>7. ASSUME NEW b \in Bridges, StatusIgnored(b) \/ Failed(b) PROVE ForwardInv'
  <2>1. /\ \/ call' = [call EXCEPT ![b].at = "failed"]
           \/ call' = [call EXCEPT ![b].at = "done"] /\ call[b].action \in Outbound
        /\ call[b] \in Calls
        /\ UNCHANGED <<tracker, stored, dirtyCache, holder>>
    BY <1>1, <1>7, CallInProgress DEF StatusIgnored, Failed, MoveTo, IsAt, dirty, Outbound
  <2>2. \A c \in Bridges : IsAt(c, "done")' =>
          call'[c] = call[c] \/ call'[c].action \in Outbound
    <3>1. \A c \in Bridges \ {b} : call'[c] = call[c]
      BY <1>1, <2>1 DEF TypeOK
    <3>2. CASE call' = [call EXCEPT ![b].at = "failed"]
      <4>1. call'[b].at # "done"
        BY <1>1, <2>1, <3>2 DEF TypeOK, Calls
      <4>2. QED
        BY <3>1, <4>1 DEF IsAt
    <3>3. CASE call' = [call EXCEPT ![b].at = "done"] /\ call[b].action \in Outbound
      <4>1. call'[b].action \in Outbound
        BY <1>1, <2>1, <3>3 DEF TypeOK, Calls
      <4>2. QED
        BY <3>1, <4>1
    <3>4. QED
      BY <2>1, <3>2, <3>3
  <2>3. QED
    BY <1>a, <2>1, <2>2
<1>8. ASSUME NEW b \in Bridges, CacheIssue(b) PROVE ForwardInv'
  <2> DEFINE i == RemoteKey[call[b].key]
  <2>1. /\ i \in Issues /\ call[b].version \in Nat
        /\ IsAt(b, "done") /\ call[b].action = "fetch"
    BY <1>2, <1>8 DEF CacheIssue, IsAt
  <2>2. /\ dirtyCache' = [dirtyCache EXCEPT ![i] = call[b].version]
        /\ UNCHANGED <<remote, cache>> /\ call' = [call EXCEPT ![b].at = "cached"]
    BY <1>8 DEF CacheIssue, MoveTo, tracker, stored
  <2>3. /\ holder = b /\ call[b].version <= remote[i]
        /\ dirtyCache[i] # NoRow => dirtyCache[i] <= call[b].version
    BY <2>1 DEF ForwardInv
  <2> HIDE DEF i
  <2>4. \A j \in Issues :
          /\ dirtyCache'[j] = IF j = i THEN call[b].version ELSE dirtyCache[j]
          /\ remote'[j] = remote[j] /\ cache'[j] = cache[j]
    BY <1>1, <2>2 DEF TypeOK
  <2>5. \A j \in Issues : cache'[j] # NoRow =>
          dirtyCache'[j] # NoRow /\ cache'[j] <= dirtyCache'[j]
    BY <1>2, <2>1, <2>3, <2>4 DEF ForwardInv
  <2>6. \A j \in Issues : dirtyCache'[j] # NoRow => dirtyCache'[j] <= remote'[j]
    BY <2>3, <2>4 DEF ForwardInv
  <2>7. \A c \in Bridges : ~(IsAt(c, "done")' /\ call'[c].action = "fetch")
    <3>1. call[b] \in Calls
      BY <1>1, <2>1, CallInProgress DEF IsAt
    <3>2. call'[b].at = "cached" /\ \A c \in Bridges \ {b} : call'[c] = call[c]
      BY <1>1, <2>2, <3>1 DEF TypeOK, Calls
    <3>3. \A c \in Bridges \ {b} : ~(IsAt(c, "done") /\ call[c].action = "fetch")
      BY <1>2, <2>3 DEF ForwardInv, IsAt
    <3>4. QED
      BY <3>2, <3>3 DEF IsAt, Idle
  <2>8. QED
    BY <1>1, <2>5, <2>6, <2>7 DEF ForwardInv
<1>9. ASSUME NEW b \in Bridges, RecordFetch(b) \/ RecordResult(b) PROVE ForwardInv'
  <2>1. /\ Return(b) /\ UNCHANGED <<tracker, stored, dirtyCache>>
        /\ holder \in {b, NoBridge} /\ holder' = b
    BY <1>9 DEF RecordFetch, RecordResult, HasOrTakesLock
  <2>2. \A c \in Bridges : IsAt(c, "done")' => call'[c] = call[c]
    BY <1>1, <2>1 DEF TypeOK, IsAt, Idle, Return
  <2>3. QED
    BY <1>2, <1>a, <2>1, <2>2
<1>10. ASSUME NEW b \in Bridges, WriteElsewhere(b) PROVE ForwardInv'
  BY <1>2, <1>a, <1>10 DEF WriteElsewhere, HasOrTakesLock, dirty
<1>11. ASSUME NEW b \in Bridges, Commit(b) PROVE ForwardInv'
  <2>1. /\ holder = b /\ Idle(b) /\ cache' = dirtyCache
        /\ UNCHANGED <<remote, dirtyCache, call>>
    BY <1>11 DEF Commit, tracker, dirty
  <2>2. \A c \in Bridges : ~(IsAt(c, "done") /\ call[c].action = "fetch")
    BY <1>2, <2>1 DEF ForwardInv, IsAt
  <2>3. \A c \in Bridges : ~(IsAt(c, "done")' /\ call'[c].action = "fetch")
    BY <2>1, <2>2 DEF IsAt, Idle
  <2>4. QED
    BY <1>1, <1>2, <2>1, <2>3 DEF ForwardInv
<1>12. ASSUME NEW b \in Bridges, Abandon(b) PROVE ForwardInv'
  <2>1. Return(b) /\ UNCHANGED <<tracker, stored>>
    BY <1>12 DEF Abandon
  <2>2. \A c \in Bridges : IsAt(c, "done")' => c # b /\ call'[c] = call[c] /\ IsAt(c, "done")
    BY <1>1, <2>1 DEF TypeOK, IsAt, Idle, Return
  <2>3. CASE holder # b
    BY <1>a, <1>12, <2>1, <2>2, <2>3 DEF Abandon, dirty
  <2>4. CASE holder = b
    <3>1. dirtyCache' = cache /\ remote' = remote /\ cache' = cache
      BY <1>12, <2>1, <2>4 DEF Abandon, tracker, stored
    <3>2. \A c \in Bridges : ~(IsAt(c, "done")' /\ call'[c].action = "fetch")
      BY <1>2, <2>2, <2>4 DEF ForwardInv, IsAt
    <3>3. QED
      BY <1>1, <1>2, <3>1, <3>2 DEF ForwardInv
  <2>5. QED
    BY <2>3, <2>4
<1>13. CASE UNCHANGED vars
  BY <1>a, <1>13 DEF vars, dirty
<1>14. QED
  BY <1>3, <1>4, <1>5, <1>6, <1>7, <1>8, <1>9, <1>10, <1>11, <1>12, <1>13
     DEF Next, FetchesUnderLock

\* The cached version of an issue never goes back, and a cached issue is never forgotten, as
\* long as the bridges have the lock when the tracker answers: then the older of two answers
\* cannot be written last, in any order of the calls and however their transactions end.
THEOREM LockedFetchesGoForward ==
  Spec /\ [][FetchesUnderLock]_vars =>
    [][\A i \in Issues :
         cache[i] # NoRow => cache'[i] # NoRow /\ cache[i] <= cache'[i]]_vars
<1>1. Init => ForwardInv
  BY IssuesAreKeys DEF Init, ForwardInv, TypeOK, IsAt, Idle
<1>2. ASSUME ForwardInv, Next, NEW i \in Issues, cache[i] # NoRow
      PROVE  cache'[i] # NoRow /\ cache[i] <= cache'[i]
  <2>1. cache' \in {cache, dirtyCache}
    BY <1>2 DEF Next, RemoteChange, Begin, Fetched, Performed, StatusIgnored, Failed, CacheIssue,
       RecordFetch, RecordResult, WriteElsewhere, Commit, Abandon, stored
  <2>2. cache[i] \in Nat
    BY <1>2 DEF ForwardInv, TypeOK
  <2>3. QED
    BY <1>2, <2>1, <2>2 DEF ForwardInv
<1>3. ForwardInv /\ [Next]_vars =>
        [\A i \in Issues :
           cache[i] # NoRow => cache'[i] # NoRow /\ cache[i] <= cache'[i]]_vars
  BY <1>2
<1>4. [Next]_vars /\ [FetchesUnderLock]_vars => [Next /\ FetchesUnderLock]_vars
  OBVIOUS
<1>5. QED
  BY <1>1, <1>3, <1>4, ForwardStep, PTL DEF Spec
=============================================================================
