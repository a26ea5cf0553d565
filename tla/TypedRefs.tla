------------------------------ MODULE TypedRefs ------------------------------
(****************************************************************************)
(* References between entities: format_ref, parse_ref, canonicalize_ref.    *)
(*                                                                          *)
(* A text is the sequence of pieces that split(":") makes of it, and a      *)
(* piece has no colon: joining texts with ":" is concatenation, so a text   *)
(* that contains a colon is one of several pieces.  Characters are left     *)
(* out but for what lower() makes of a piece.                               *)
(****************************************************************************)
EXTENDS Naturals, Sequences

CONSTANTS
  Pieces,  \* texts without a colon
  lower,   \* str.lower() on them
  Samples, \* the texts that the properties speak of
  Invalid  \* ValueError

EmptyPiece == ""
DefaultProvider == "local"
KnownDomains == {"agent-taskstate", "memx", "tracker"}

ASSUME PiecesAssumption ==
  /\ {EmptyPiece, DefaultProvider, "issue", "task"} \cup KnownDomains \subseteq Pieces
  /\ lower \in [Pieces -> Pieces]
  /\ \A p \in Pieces :
       lower[lower[p]] = lower[p] /\ (lower[p] = EmptyPiece <=> p = EmptyPiece)
  /\ \A p \in {DefaultProvider, "issue", "task"} \cup KnownDomains : lower[p] = p

\* "".split(":") has one piece.
Texts == Seq(Pieces) \ {<< >>}

TypedRefs == [domain : Pieces, type : Pieces, provider : Pieces, id : Pieces]

ASSUME SamplesAssumption == Samples \subseteq Texts

ASSUME InvalidAssumption == Invalid \notin Texts /\ Invalid \notin TypedRefs

-------------------------------------------------------------------------------
Lower(text) == [i \in DOMAIN text |-> lower[text[i]]]

IsEmpty(text) == text = <<EmptyPiece>>

\* format_ref, of texts: an id may contain a colon, and a provider too.
Format(domain, type, id, provider) ==
  IF \E text \in {domain, type, provider, id} : IsEmpty(text) THEN Invalid
  ELSE Lower(domain) \o Lower(type) \o Lower(provider) \o id

\* Mutant: maxsplit, as if only an id could contain a colon.
SegmentsSplitOnce(text) ==
  IF Len(text) >= 4 THEN SubSeq(text, 1, 4)
  ELSE IF Len(text) = 3 THEN <<text[1], text[2], DefaultProvider, text[3]>>
  ELSE << >>

\* The four segments, with the provider that the legacy form leaves out.
Segments(text) ==
  IF Len(text) = 4 THEN text
  ELSE IF Len(text) = 3 THEN <<text[1], text[2], DefaultProvider, text[3]>>
  ELSE << >>

\* Mutant: segments are kept as they are written.
ParseAsWritten(text) ==
  LET s == Segments(text) IN
    IF s = << >> \/ \E i \in 1..Len(s) : s[i] = EmptyPiece THEN Invalid
    ELSE [domain |-> s[1], type |-> s[2], provider |-> s[3], id |-> s[4]]

\* parse_ref
Parse(text) ==
  LET s == Segments(text) IN
    IF s = << >> \/ \E i \in 1..Len(s) : s[i] = EmptyPiece THEN Invalid
    ELSE [domain |-> lower[s[1]], type |-> lower[s[2]], provider |-> lower[s[3]],
          id |-> s[4]]

\* str() of a TypedRef.
Written(ref) == <<ref.domain, ref.type, ref.provider, ref.id>>

\* canonicalize_ref; the domain has been put into lower case.
Canonical(text) ==
  LET ref == Parse(text) IN
    IF ref = Invalid THEN Invalid
    ELSE IF ref.domain \notin KnownDomains THEN Invalid
    ELSE Written(ref)

IsValid(text) == Canonical(text) # Invalid

\* canonicalize_ref, and the check of the parts that the caller wants: _normalize_issue_ref
\* and _normalize_task_ref of the tracker bridge.
NormalIssueRef(text) ==
  LET ref == Canonical(text) IN
    IF ref # Invalid /\ ref[1] = "tracker" /\ ref[2] = "issue" THEN ref ELSE Invalid

NormalTaskRef(text) ==
  LET ref == Canonical(text) IN
    IF ref # Invalid /\ SubSeq(ref, 1, 3) = <<"agent-taskstate", "task", DefaultProvider>>
    THEN ref ELSE Invalid

-------------------------------------------------------------------------------
(* Properties                                                               *)

\* Read-both, write-one (docs/kv-priority-roadmap/01-typed-ref-unification.md): a
\* reference in the old form or in the new, in whatever case, has the canonical form
\* that format_ref writes for its parts, and that form is its own canonical form.
OneCanonicalForm ==
  /\ \A text \in Samples : IsValid(text) => Canonical(Canonical(text)) = Canonical(text)
  /\ \A domain, type, provider, id \in Pieces \ {EmptyPiece} :
       lower[domain] \in KnownDomains =>
         LET written == Format(<<domain>>, <<type>>, <<id>>, <<provider>>) IN
           /\ Canonical(<<domain, type, provider, id>>) = written
           /\ lower[provider] = DefaultProvider => Canonical(<<domain, type, id>>) = written

\* What format_ref writes is read back as what it was given, or not at all when
\* something in it had a colon: it is never read as another reference.
NeverMisread ==
  \A domain, type, id, provider \in Samples :
    LET written == Format(domain, type, id, provider) IN
      written # Invalid /\ Parse(written) # Invalid =>
        /\ Written(Parse(written)) =
             <<lower[domain[1]], lower[type[1]], lower[provider[1]], id[1]>>
        /\ \A text \in {domain, type, id, provider} : Len(text) = 1
=============================================================================
