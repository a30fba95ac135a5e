------------------------ MODULE RedactionPipelineProofs ------------------------
(***************************************************************************)
(* What happens to credential material, for any reports, texts, detectors, *)
(* late scans and number of crashes.  First what scan() keeps: the overlap *)
(* rule settles every hit, and what a scrub leaves has none.  Then the     *)
(* types, and from them the invariants: what a checked report may still    *)
(* hold, what a deliverable may, and that no hit in the audit's own        *)
(* artifacts and no fired gate goes unreported.                            *)
(***************************************************************************)
EXTENDS RedactionPipeline, Extremes

Early == {"scanning", "redacting", "redacted"}
Middle == {"checked", "assembling"}
Assembled == {"gating", "gated", "copied", "reported", "baselined", "weighed", "pruning", "done"}

(* A match is settled when it is gone, or cut by one that is; scrubbed by  *)
(* the line, it may also span lines.                                       *)
Touched(t, m) == Span(m) \cap t.gone # {}
Consumed(t, m) ==
    \/ Span(m) \subseteq t.gone
    \/ \E n \in t.matches \ {m} : /\ Before(n, m) /\ Overlap(n, m)
                                  /\ Span(n) \subseteq t.gone
Settled(k, t) == \A m \in t.matches :
    Touched(t, m) => (k = "text" /\ ~OneLine(m)) \/ Consumed(t, m)

(* What is half-way through a redaction, and what a passed check knows.    *)
TempIsStrip ==
    \A f \in DOMAIN temp : f \notin unreadable /\ temp[f] = Strip(f, scans[f])
ScansSettled == \A f \in File : \A s \in Spot : Settled(kind[f], scans[f][s])
VettedIsStripped ==
    step \notin Early => \A f \in vetted : Strip(f, scans[f]) = scans[f]
ScanInv == TempIsStrip /\ ScansSettled /\ VettedIsStripped

(* What was stripped has been read, and is in the rows of the redactor     *)
(* that read it last.                                                      *)
OwnReports == {f \in Own : kind[f] = "sarif"}
Stripped(f) == Position \subseteq scans[f]["content"].gone
OwnListed ==
    /\ step = "redacting" => todo \subseteq landed
    /\ \A f \in OwnReports : Stripped(f) =>
          /\ f \in landed /\ f \notin unreadable
          /\ step = "redacting" => f \in todo \cup leaks
          /\ step \notin {"scanning", "redacting"} => f \in summary

(* What the gate has passed is clean, and so is what is copied from it.    *)
CleanInv ==
    /\ step = "gating" => \A d \in DOMAIN copies \ (todo \cup unscanned) : ~HasHits(copies[d])
    /\ step = "gated" => \A d \in DOMAIN copies \ unscanned : ~HasHits(copies[d])
    /\ step \in {"weighed", "pruning"} => "baseline" \in unscanned \/ ~HasHits(full)
    /\ DeliveredIsClean

(* A firing is in the rows of the running gate, then in the marker or, in  *)
(* Phase 8, owed at once, then in the finding.                             *)
FiringKept ==
    /\ fired => selfFinding \/ lost \/ marker \/ Untold
    /\ step \in {"reported", "baselined", "weighed", "pruning", "done"} => ~marker
-----------------------------------------------------------------------------
LEMMA SpanFacts ==
    ASSUME NEW m \in Match
    PROVE  Span(m) \subseteq Position /\ m.start \in Span(m)
BY TextAssumption DEF Match, Position, Span

LEMMA BeforeIsStrict ==
    ASSUME NEW m \in Match PROVE ~Before(m, m)
BY TextAssumption DEF Match, Position, Before

(* The rule of scan() settles every set of hits: what it keeps up to a     *)
(* position, and the longest of those that begin behind it and are free.   *)
Keeps(kept, H) == \A m \in H :
    m \in kept <=> ~\E n \in kept : Before(n, m) /\ Overlap(n, m)

LEMMA ScanSettles ==
    ASSUME NEW H \in SUBSET Match
    PROVE  \E kept \in SUBSET H : Keeps(kept, H)
<1> DEFINE Upto(c) == {m \in H : m.start <= c}
           Fails == {c \in Nat : ~\E K \in SUBSET Upto(c) : Keeps(K, Upto(c))}
<1>1. \A m \in H : /\ m.start \in Nat /\ 1 <= m.start /\ m.start <= Len
                   /\ m.end \in 0 .. (Len + 1)
  BY TextAssumption DEF Match, Position
<1>2. ASSUME NEW c \in Fails, \A d \in Fails : c <= d PROVE FALSE
  <2>1. c # 0
    <3>1. Upto(0) = {}
      BY <1>1
    <3>2. Keeps({}, Upto(0)) /\ {} \in SUBSET Upto(0)
      BY <3>1 DEF Keeps
    <3>3. \E K \in SUBSET Upto(0) : Keeps(K, Upto(0))
      <4> HIDE DEF Upto
      <4> QED
        BY <3>2
    <3>4. 0 \notin Fails
      <4> HIDE DEF Upto
      <4> QED
        BY <3>3
    <3> QED
      BY <3>4
  <2>2. c \in Nat /\ c - 1 \in Nat /\ c - 1 \notin Fails
    <3>1. c \in Nat
      OBVIOUS
    <3> HIDE DEF Fails
    <3> QED
      BY <1>2, <2>1, <3>1
  <2>3. PICK K \in SUBSET Upto(c - 1) : Keeps(K, Upto(c - 1))
    BY <2>2
  <2>4. \A m \in Upto(c) : m \in Upto(c - 1) \/ m.start = c
    BY <1>1, <2>2
  <2>5. \A m \in Upto(c - 1) : m \in Upto(c) /\ m.start < c
    BY <1>1, <2>2
  <2> DEFINE Free == {m \in H : m.start = c /\ ~\E n \in K : Overlap(n, m)}
  <2>6. \A m \in Upto(c) : m.start = c /\ m \notin Free =>
           \E n \in K : Before(n, m) /\ Overlap(n, m)
    BY <2>3, <2>5 DEF Before
  <2>7. CASE Free = {}
    <3>1. Keeps(K, Upto(c))
      <4> SUFFICES ASSUME NEW m \in Upto(c)
                   PROVE  m \in K <=> ~\E n \in K : Before(n, m) /\ Overlap(n, m)
        BY DEF Keeps
      <4>1. CASE m \in Upto(c - 1)
        BY <2>3, <4>1 DEF Keeps
      <4>2. CASE m \notin Upto(c - 1)
        <5> HIDE DEF Free, Upto
        <5> QED
          BY <2>3, <2>4, <2>6, <2>7, <4>2
      <4> QED
        BY <4>1, <4>2
    <3>2. K \in SUBSET Upto(c)
      BY <2>3, <2>5
    <3> QED
      BY <1>2, <3>1, <3>2
  <2>8. CASE Free # {}
    <3>1. PICK l \in Free : \A m \in Free : m.end <= l.end
      <4> DEFINE Ends == {m.end : m \in Free}
      <4>1. Ends \in SUBSET (0 .. (Len + 1)) /\ Ends # {}
        BY <1>1, <2>8
      <4>2. Len + 1 \in Nat
        BY TextAssumption
      <4>3. PICK e \in Ends : \A x \in Ends : x <= e
        <5> HIDE DEF Ends
        <5> QED
          BY <4>1, <4>2, GreatestElement
      <4> QED
        BY <4>3
    <3>2. \A m \in Free : m # l => Before(l, m) /\ Overlap(l, m)
      <4> SUFFICES ASSUME NEW m \in Free, m # l
                   PROVE  Before(l, m) /\ Overlap(l, m)
        OBVIOUS
      <4>1. m.start = c /\ l.start = c /\ m \in Match /\ l \in Match
        OBVIOUS
      <4>2. m.end # l.end
        BY <4>1 DEF Match
      <4>3. Before(l, m)
        BY <1>1, <3>1, <4>1, <4>2 DEF Before
      <4>4. c \in Span(l) /\ c \in Span(m)
        BY <4>1, SpanFacts
      <4> QED
        BY <4>3, <4>4 DEF Overlap
    <3>3. l \in Upto(c) /\ l \notin Upto(c - 1) /\ l.start = c /\ l \in Match
      BY <1>1, <2>2
    <3>4. ~\E n \in K : Overlap(n, l)
      OBVIOUS
    <3>5. \A m \in Upto(c - 1) : ~Before(l, m)
      BY <1>1, <2>5, <3>3 DEF Before
    <3>6. Keeps(K \cup {l}, Upto(c))
      <4> SUFFICES ASSUME NEW m \in Upto(c)
                   PROVE  m \in K \cup {l} <=>
                             ~\E n \in K \cup {l} : Before(n, m) /\ Overlap(n, m)
        BY DEF Keeps
      <4>1. CASE m \in Upto(c - 1)
        <5>1. m # l
          BY <3>3, <4>1
        <5>2. ~Before(l, m)
          BY <3>5, <4>1
        <5>3. m \in K <=> ~\E n \in K : Before(n, m) /\ Overlap(n, m)
          BY <2>3, <4>1 DEF Keeps
        <5> HIDE DEF Free, Upto
        <5> QED
          BY <5>1, <5>2, <5>3
      <4>2. CASE m = l
        <5>1. ~Before(l, l)
          BY <3>3, BeforeIsStrict
        <5> HIDE DEF Free, Upto
        <5> QED
          BY <3>4, <4>2, <5>1
      <4>3. CASE m \notin Upto(c - 1) /\ m # l
        <5>1. m \notin K /\ m.start = c
          BY <2>3, <2>4, <4>3
        <5>2. CASE m \in Free
          BY <3>2, <4>3, <5>1, <5>2
        <5>3. CASE m \notin Free
          <6>1. \E n \in K : Before(n, m) /\ Overlap(n, m)
            BY <2>6, <5>1, <5>3
          <6> HIDE DEF Free, Upto
          <6> QED
            BY <4>3, <5>1, <6>1
        <5> QED
          BY <5>2, <5>3
      <4> QED
        BY <4>1, <4>2, <4>3
    <3>7. K \cup {l} \in SUBSET Upto(c)
      BY <2>3, <2>5, <3>3
    <3> QED
      BY <1>2, <3>6, <3>7
  <2> QED
    BY <2>7, <2>8
<1>3. Fails = {}
  <2>1. Fails \in SUBSET Nat
    OBVIOUS
  <2> HIDE DEF Fails
  <2> QED
    BY <1>2, <2>1, LeastElement
<1>4. Len \in Nat /\ Upto(Len) = H
  BY <1>1, TextAssumption
<1> QED
  BY <1>3, <1>4

(* Of every set of hits scan() keeps some, and each one it drops is cut by *)
(* an earlier one it keeps.                                                *)
LEMMA ScanFacts ==
    ASSUME NEW H \in SUBSET Match
    PROVE  /\ Scan(H) \subseteq H
           /\ \A m \in H : \/ m \in Scan(H)
                           \/ \E n \in Scan(H) : Before(n, m) /\ Overlap(n, m)
<1>1. \E kept \in SUBSET H : \A m \in H :
         m \in kept <=> ~\E n \in kept : Before(n, m) /\ Overlap(n, m)
  BY ScanSettles DEF Keeps
<1>2. /\ Scan(H) \in SUBSET H
      /\ \A m \in H :
            m \in Scan(H) <=> ~\E n \in Scan(H) : Before(n, m) /\ Overlap(n, m)
  BY <1>1 DEF Scan
<1> QED
  BY <1>2
-----------------------------------------------------------------------------
LEMMA RedactedFacts ==
    ASSUME NEW t \in Text, NEW H \in SUBSET Hits(t)
    PROVE  /\ Redacted(t, H) \in Text
           /\ Redacted(t, H).matches = t.matches
           /\ t.gone \subseteq Redacted(t, H).gone
           /\ \A m \in Scan(H) : Span(m) \subseteq Redacted(t, H).gone
           /\ \A p \in Redacted(t, H).gone \ t.gone :
                 \E m \in Scan(H) : p \in Span(m)
<1> DEFINE cut == UNION {Span(m) : m \in Scan(H)}
<1>1. H \in SUBSET Match
  BY DEF Hits, Text
<1>2. cut \in SUBSET Position
  BY <1>1, ScanFacts, SpanFacts
<1>3. Redacted(t, H) = [t EXCEPT !.gone = @ \cup cut]
  BY DEF Redacted
<1>4. /\ \A m \in Scan(H) : Span(m) \subseteq cut
      /\ \A p \in cut : \E m \in Scan(H) : p \in Span(m)
  OBVIOUS
<1> HIDE DEF cut
<1>5. /\ Redacted(t, H) \in Text
      /\ Redacted(t, H).matches = t.matches
      /\ Redacted(t, H).gone = t.gone \cup cut
  BY <1>2, <1>3 DEF Text
<1> QED
  BY <1>4, <1>5

LEMMA HitsFacts ==
    ASSUME NEW t \in Text
    PROVE  /\ Hits(t) \subseteq Match /\ Hits(t) \subseteq t.matches
           /\ \A m \in t.matches : m \in Hits(t) <=> ~Touched(t, m)
BY DEF Hits, Touched, Text

(* Nothing a detector knows survives a scrub of the whole text.            *)
LEMMA ScrubCleans ==
    ASSUME NEW t \in Text
    PROVE  Scrub(t) \in Text /\ Hits(Scrub(t)) = {}
<1> DEFINE H == Hits(t)
           u == Redacted(t, H)
<1>1. /\ u \in Text /\ u.matches = t.matches /\ t.gone \subseteq u.gone
      /\ \A m \in Scan(H) : Span(m) \subseteq u.gone
  BY RedactedFacts
<1>2. ASSUME NEW m \in t.matches PROVE Touched(u, m)
  <2>1. m \in Match /\ Span(m) # {}
    BY SpanFacts DEF Text
  <2>2. CASE m \notin H
    BY <1>1, <2>2, HitsFacts DEF Touched
  <2>3. CASE m \in Scan(H)
    BY <1>1, <2>1, <2>3 DEF Touched
  <2>4. CASE m \in H /\ m \notin Scan(H)
    <3>1. PICK n \in Scan(H) : Overlap(n, m)
      BY <2>4, HitsFacts, ScanFacts
    <3> QED
      BY <1>1, <3>1 DEF Touched, Overlap
  <2> QED
    BY <2>2, <2>3, <2>4
<1>3. Hits(u) = {}
  <2> HIDE DEF u
  <2> QED
    BY <1>1, <1>2, HitsFacts
<1> QED
  BY <1>1, <1>3 DEF Scrub

(* A redaction leaves every match that it cuts settled.                    *)
LEMMA RedactedSettled ==
    ASSUME NEW t \in Text, NEW k, NEW H \in SUBSET Hits(t), Settled(k, t),
           \A m \in Hits(t) : m \in H \/ (k = "text" /\ ~OneLine(m))
    PROVE  Settled(k, Redacted(t, H))
<1> DEFINE u == Redacted(t, H)
<1>1. /\ u.matches = t.matches /\ t.gone \subseteq u.gone
      /\ \A m \in Scan(H) : Span(m) \subseteq u.gone
  BY RedactedFacts
<1>2. H \in SUBSET Match /\ H \subseteq t.matches
  BY HitsFacts
<1>3. Scan(H) \subseteq H
  BY <1>2, ScanFacts
<1> SUFFICES ASSUME NEW m \in t.matches, ~(k = "text" /\ ~OneLine(m))
             PROVE  Touched(u, m) => Consumed(u, m)
  BY <1>1 DEF Settled
<1>4. CASE m \in Hits(t)
  <2>1. m \in H
    BY <1>4
  <2>2. CASE m \in Scan(H)
    BY <1>1, <2>2 DEF Consumed
  <2>3. CASE m \notin Scan(H)
    <3>1. PICK n \in Scan(H) : Before(n, m) /\ Overlap(n, m)
      BY <1>2, <2>1, <2>3, ScanFacts
    <3>2. n \in t.matches \ {m}
      BY <1>2, <1>3, <2>3
    <3> QED
      BY <1>1, <3>1, <3>2 DEF Consumed
  <2> QED
    BY <2>2, <2>3
<1>5. CASE m \notin Hits(t)
  <2>1. Consumed(t, m)
    BY <1>5, HitsFacts DEF Settled
  <2> QED
    BY <1>1, <2>1 DEF Consumed
<1> QED
  BY <1>4, <1>5

(* What a redaction leaves unchanged had no hit in it. *)
LEMMA UnchangedHasNoHit ==
    ASSUME NEW t \in Text, NEW H \in SUBSET Hits(t), Redacted(t, H) = t
    PROVE  H = {}
<1>1. H \in SUBSET Match
  BY HitsFacts
<1>2. ASSUME NEW m \in Scan(H) PROVE FALSE
  <2>1. m \in H /\ m \in Match /\ Span(m) # {}
    BY <1>1, <1>2, ScanFacts, SpanFacts
  <2>2. Span(m) \subseteq t.gone
    BY RedactedFacts
  <2> QED
    BY <2>1, <2>2 DEF Hits
<1> QED
  BY <1>1, <1>2, ScanFacts
-----------------------------------------------------------------------------
LineHits(t) == {m \in Hits(t) : OneLine(m)}

LEMMA StripAtFacts ==
    ASSUME NEW t \in Text, NEW k, NEW s
    PROVE  /\ StripAt(k, s, t) \in Text
           /\ Settled(k, t) => Settled(k, StripAt(k, s, t))
           /\ k # "text" /\ s = "content" => StripAt(k, s, t).gone = Position
<1>1. Wiped(t) \in Text /\ Wiped(t).gone = Position /\ Wiped(t).matches = t.matches
  BY DEF Wiped, Text
<1>2. Settled(k, Wiped(t))
  <2>1. \A m \in t.matches : Span(m) \subseteq Position
    BY SpanFacts DEF Text
  <2> QED
    BY <1>1, <2>1 DEF Settled, Consumed
<1>3. Scrub(t) \in Text
  BY ScrubCleans
<1>4. ASSUME k # "text", Settled(k, t) PROVE Settled(k, Scrub(t))
  <2>1. Hits(t) \in SUBSET Hits(t)
    OBVIOUS
  <2>2. Settled(k, Redacted(t, Hits(t)))
    BY <1>4, <2>1, RedactedSettled
  <2> QED
    BY <2>2 DEF Scrub
<1>5. LineHits(t) \in SUBSET Hits(t) /\ ScrubLines(t) = Redacted(t, LineHits(t))
  BY DEF LineHits, ScrubLines
<1>6. ScrubLines(t) \in Text
  BY <1>5, RedactedFacts
<1>7. ASSUME k = "text", Settled(k, t) PROVE Settled(k, ScrubLines(t))
  <2>1. \A m \in Hits(t) : m \in LineHits(t) \/ (k = "text" /\ ~OneLine(m))
    BY <1>7 DEF LineHits
  <2>2. Settled(k, Redacted(t, LineHits(t)))
    BY <1>5, <1>7, <2>1, RedactedSettled
  <2> QED
    BY <1>5, <2>2
<1>8. \/ StripAt(k, s, t) = Wiped(t)
      \/ StripAt(k, s, t) = t /\ k = "sarif" /\ s = "aside"
      \/ k = "text" /\ StripAt(k, s, t) = ScrubLines(t)
      \/ k # "text" /\ s # "content" /\ StripAt(k, s, t) = Scrub(t)
  BY DEF StripAt
<1> QED
  BY <1>1, <1>2, <1>3, <1>4, <1>6, <1>7, <1>8

LEMMA NoHitNoChange ==
    ASSUME NEW t \in Text PROVE Redacted(t, {}) = t
<1>1. Scan({}) = {}
  BY ScanFacts
<1>2. Redacted(t, {}) = [t EXCEPT !.gone = @ \cup {}]
  BY <1>1 DEF Redacted
<1> QED
  BY <1>2 DEF Text

(* Stripping a field twice is stripping it once: a scrub leaves no hit, and *)
(* what it cuts short is not matched again.                                 *)
LEMMA StripAtTwice ==
    ASSUME NEW t \in Text, NEW k, NEW s
    PROVE  StripAt(k, s, StripAt(k, s, t)) = StripAt(k, s, t)
<1>1. Wiped(Wiped(t)) = Wiped(t)
  BY DEF Wiped, Text
<1>2. Scrub(Scrub(t)) = Scrub(t)
  <2>1. Scrub(t) \in Text /\ Hits(Scrub(t)) = {}
    BY ScrubCleans
  <2> QED
    BY <2>1, NoHitNoChange DEF Scrub
<1>3. ScrubLines(ScrubLines(t)) = ScrubLines(t)
  <2> DEFINE H == LineHits(t)
             u == Redacted(t, H)
  <2>1. H \in SUBSET Hits(t) /\ H \in SUBSET Match
    BY HitsFacts DEF LineHits
  <2>2. /\ u \in Text /\ u.matches = t.matches /\ t.gone \subseteq u.gone
        /\ \A m \in Scan(H) : Span(m) \subseteq u.gone
    BY <2>1, RedactedFacts
  <2>3. ASSUME NEW m \in t.matches, OneLine(m) PROVE Touched(u, m)
    <3>1. m \in Match /\ Span(m) # {}
      BY SpanFacts DEF Text
    <3>2. CASE m \notin Hits(t)
      BY <2>2, <3>2, HitsFacts DEF Touched
    <3>3. CASE m \in Scan(H)
      BY <2>2, <3>1, <3>3 DEF Touched
    <3>4. CASE m \in Hits(t) /\ m \notin Scan(H)
      <4>1. m \in H
        BY <2>3, <3>4 DEF LineHits
      <4>2. PICK n \in Scan(H) : Overlap(n, m)
        BY <2>1, <3>4, <4>1, ScanFacts
      <4> QED
        BY <2>2, <4>2 DEF Touched, Overlap
    <3> QED
      BY <3>2, <3>3, <3>4
  <2>4. ScrubLines(t) = u
    BY DEF ScrubLines, LineHits
  <2> HIDE DEF u
  <2>5. {m \in Hits(u) : OneLine(m)} = {}
    BY <2>2, <2>3, HitsFacts
  <2>6. ScrubLines(u) = Redacted(u, {})
    BY <2>5 DEF ScrubLines
  <2> QED
    BY <2>2, <2>4, <2>6, NoHitNoChange
<1>4. \/ \A v : StripAt(k, s, v) = Wiped(v)
      \/ \A v : StripAt(k, s, v) = v
      \/ \A v : StripAt(k, s, v) = ScrubLines(v)
      \/ \A v : StripAt(k, s, v) = Scrub(v)
  BY DEF StripAt
<1> QED
  BY <1>1, <1>2, <1>3, <1>4

LEMMA StripType ==
    ASSUME NEW f, NEW parts \in [Spot -> Text]
    PROVE  Strip(f, parts) \in [Spot -> Text]
<1>1. \A s \in Spot : StripAt(kind[f], s, parts[s]) \in Text
  BY StripAtFacts
<1> QED
  BY <1>1 DEF Strip
-----------------------------------------------------------------------------
(* Every variable keeps its type. *)
LEMMA ScrubbedType ==
    ASSUME NEW parts \in SUBSET Part
    PROVE  Scrubbed(parts) \in SUBSET Part /\ ~HasHits(Scrubbed(parts))
<1>1. ASSUME NEW p \in parts
      PROVE  /\ [p EXCEPT !.text = Scrub(@)] \in Part
             /\ Hits([p EXCEPT !.text = Scrub(@)].text) = {}
  <2>1. p.text \in Text
    BY DEF Part
  <2>2. Scrub(p.text) \in Text /\ Hits(Scrub(p.text)) = {}
    BY <2>1, ScrubCleans
  <2> QED
    BY <2>2 DEF Part
<1> QED
  BY <1>1 DEF Scrubbed, HasHits

LEMMA AssembledType ==
    ASSUME TypeOK, Assemble
    PROVE  copies' \in [{"report", "sarif"} -> SUBSET Part]
<1> DEFINE runs == {f \in landed \ unreadable : kind[f] = "sarif"}
           copied == {[from |-> f, spot |-> s, text |-> scans[f][s]] : f \in runs, s \in Spot}
<1>1. copies' = [report |-> {Quoted(prose)}, sarif |-> {Quoted(prose)} \cup copied]
  BY DEF Assemble
<1>2. copied \in SUBSET Part
  BY DEF TypeOK, Part
<1>3. Quoted(prose) \in Part
  BY DEF TypeOK, Part, Quoted, Spot
<1> HIDE DEF copied
<1> QED
  BY <1>1, <1>2, <1>3

LEMMA UntoldType == Untold \in BOOLEAN
BY Zenon DEF Untold

LEMMA TypeInit == Init => TypeOK
<1> SUFFICES ASSUME Init PROVE TypeOK
  OBVIOUS
<1>1. PICK r \in Reports : kind = r.kind /\ scans = r.text
  BY DEF Init
<1>2. kind \in [File -> Kind] /\ scans \in [File -> [Spot -> Text]]
  BY <1>1, ReportsAssumption
<1>3. copies \in [{"report", "sarif"} -> SUBSET Part] /\ DOMAIN copies = {"report", "sarif"}
  BY DEF Init
<1>4. full \in SUBSET Part
  BY ProseAssumption DEF Init, Part, Spot, Quoted
<1>5. DOMAIN temp = {} /\ DOMAIN out = {}
  BY DEF Init
<1>6. unscanned \subseteq DOMAIN copies \cup {"baseline"}
  BY <1>3 DEF Init
<1>7. /\ landed \subseteq File /\ unreadable \subseteq File /\ vetted \subseteq File
      /\ leaks \subseteq File /\ summary \subseteq File /\ prose \in Text
      /\ hits \subseteq DOMAIN copies \cup {"baseline"}
      /\ step = "scanning" /\ todo = {}
  BY ProseAssumption DEF Init
<1>8. marker \in BOOLEAN /\ selfFinding \in BOOLEAN /\ fired \in BOOLEAN /\ lost \in BOOLEAN
  BY Zenon DEF Init
<1>9. faults \in 0 .. MaxFaults
  BY FaultsAssumption DEF Init
<1> QED
  BY <1>2, <1>3, <1>4, <1>5, <1>6, <1>7, <1>8, <1>9 DEF TypeOK

LEMMA TypeStep == TypeOK /\ [Next]_vars => TypeOK'
<1> SUFFICES ASSUME TypeOK, [Next]_vars PROVE TypeOK'
  OBVIOUS
<1>1. CASE UNCHANGED vars
  BY <1>1 DEF vars, phase4, phase7, phase8, TypeOK
<1>2. ASSUME NEW f \in File, Land(f) \/ Unlock(f) PROVE TypeOK'
  BY <1>2 DEF Land, Unlock, phase7, phase8, TypeOK
<1>3. CASE StartRedact \/ EndRedact
  BY <1>3 DEF StartRedact, EndRedact, phase7, phase8, TypeOK
<1>4. ASSUME NEW f \in File, RedactWrite(f) PROVE TypeOK'
  <2>1. Strip(f, scans[f]) \in [Spot -> Text]
    BY StripType DEF TypeOK
  <2>2. DOMAIN temp' \subseteq File /\ \A g \in DOMAIN temp' : temp'[g] \in [Spot -> Text]
    BY <1>4, <2>1 DEF RedactWrite
  <2> QED
    BY <1>4, <2>2 DEF RedactWrite, phase7, phase8, TypeOK
<1>5. ASSUME NEW f \in File, RedactRename(f) PROVE TypeOK'
  <2>1. DOMAIN temp' = {}
    BY <1>5 DEF RedactRename
  <2>2. scans' \in [File -> [Spot -> Text]]
    BY <1>5 DEF RedactRename, TypeOK
  <2>3. leaks' \subseteq File
    BY <1>5 DEF RedactRename, SelfLeaks, TypeOK
  <2> QED
    BY <1>5, <2>1, <2>2, <2>3 DEF RedactRename, phase7, phase8, TypeOK
<1>6. ASSUME NEW f \in File, RedactKeep(f) PROVE TypeOK'
  <2>1. leaks' \subseteq File
    BY <1>6 DEF RedactKeep, SelfLeaks, TypeOK
  <2> QED
    BY <1>6, <2>1 DEF RedactKeep, phase7, phase8, TypeOK
<1>7. ASSUME NEW next \in Middle, NEW from \in Early \cup Middle, Recheck(from, next)
      PROVE  TypeOK'
  <2>1. /\ UNCHANGED <<kind, scans, landed, unreadable, temp, leaks, summary, todo>>
        /\ step = from /\ step' \in Middle \cup {"scanning"}
        /\ vetted' \subseteq File
    BY <1>7 DEF Recheck, TypeOK
  <2>2. UNCHANGED <<phase7, phase8, faults>>
    BY <1>7 DEF Recheck
  <2> QED
    BY <2>1, <2>2 DEF phase7, phase8, TypeOK, Early, Middle
<1>8. CASE Assemble
  <2>1. copies' \in [{"report", "sarif"} -> SUBSET Part] /\ DOMAIN copies' = DOMAIN copies
    BY <1>8, AssembledType DEF TypeOK
  <2> QED
    BY <1>8, <2>1 DEF Assemble, phase4, phase8, TypeOK
<1>9. ASSUME NEW d \in DOMAIN copies, GateFile(d) PROVE TypeOK'
  <2>1. copies' \in [{"report", "sarif"} -> SUBSET Part]
    <3>1. copies[d] \in SUBSET Part
      BY DEF TypeOK
    <3> QED
      BY <1>9, <3>1, ScrubbedType DEF GateFile, TypeOK
  <2>2. fired' \in BOOLEAN
    BY <1>9 DEF GateFile, TypeOK
  <2>3. hits' \subseteq DOMAIN copies \cup {"baseline"}
    BY <1>9 DEF GateFile, TypeOK
  <2>4. DOMAIN copies' = DOMAIN copies
    BY <2>1 DEF TypeOK
  <2>5. todo' \subseteq DOMAIN copies' /\ step' = "gating"
    BY <1>9, <2>4 DEF GateFile, TypeOK
  <2> QED
    BY <1>9, <2>1, <2>2, <2>3, <2>4, <2>5 DEF GateFile, phase4, phase8, TypeOK
<1>10. CASE GateCannotReport \/ BaselineCannotReport
  <2>1. faults' \in 0 .. MaxFaults
    BY <1>10, FaultsAssumption DEF GateCannotReport, BaselineCannotReport, TypeOK
  <2>2. lost' \in BOOLEAN
    BY <1>10, UntoldType, Zenon DEF GateCannotReport, BaselineCannotReport, TypeOK
  <2>3. /\ UNCHANGED <<phase4, prose, copies, unscanned, marker, selfFinding, fired, phase8>>
        /\ hits' = {}
    BY <1>10 DEF GateCannotReport, BaselineCannotReport
  <2>4. CASE GateCannotReport
    <3>1. \/ step' = "gating" /\ todo' = DOMAIN copies
          \/ step' = "checked" /\ todo' = {}
      BY <2>4 DEF GateCannotReport
    <3> QED
      BY <2>1, <2>2, <2>3, <3>1 DEF phase4, phase8, TypeOK
  <2>5. CASE BaselineCannotReport
    <3>1. step = "weighed" /\ step' \in {"baselined", "reported"} /\ todo' = todo
      BY <2>5 DEF BaselineCannotReport
    <3> QED
      BY <2>1, <2>2, <2>3, <3>1 DEF phase4, phase8, TypeOK
  <2> QED
    BY <1>10, <2>4, <2>5
<1>11. CASE GateExit \/ EmitSelfFinding \/ FinishPhase7 \/ BaselineGateClean
            \/ EmitBaselineFinding
  BY <1>11 DEF GateExit, EmitSelfFinding, FinishPhase7, BaselineGateClean,
               EmitBaselineFinding, phase4, phase7, phase8, TypeOK
<1>12. CASE CopyOut \/ WritePruned
  <2>1. /\ DOMAIN out' \subseteq {"report", "sarif", "baseline"}
        /\ \A d \in DOMAIN out' : out'[d] \subseteq Part
    BY <1>12 DEF CopyOut, WritePruned, TypeOK
  <2> QED
    BY <1>12, <2>1 DEF CopyOut, WritePruned, phase4, phase7, TypeOK
<1>13. CASE WriteBaseline
  <2>1. Quoted(prose) \in Part
    BY DEF TypeOK, Part, Quoted, Spot
  <2>2. full' \subseteq Part
    BY <1>13, <2>1 DEF WriteBaseline, TypeOK
  <2> QED
    BY <1>13, <2>2 DEF WriteBaseline, phase4, phase7, TypeOK
<1>15. CASE GateBaseline
  <2>1. full' \subseteq Part
    BY <1>15, ScrubbedType DEF GateBaseline, TypeOK
  <2>2. fired' \in BOOLEAN
    BY <1>15 DEF GateBaseline, HasHits, TypeOK
  <2>3. hits' \subseteq {"baseline"}
    BY <1>15 DEF GateBaseline
  <2> QED
    BY <1>15, <2>1, <2>2, <2>3 DEF GateBaseline, phase4, TypeOK
<1>14. CASE Crash
  <2>1. DOMAIN temp' = {}
    BY <1>14 DEF Crash
  <2>2. step' \in {"scanning", "checked", "reported"}
    BY <1>14 DEF Crash, ResumeAt, TypeOK
  <2>3. faults' \in 0 .. MaxFaults
    BY <1>14, FaultsAssumption DEF Crash, TypeOK
  <2>4. lost' \in BOOLEAN
    BY <1>14, UntoldType, Zenon DEF Crash, TypeOK
  <2> QED
    BY <1>14, <2>1, <2>2, <2>3, <2>4 DEF Crash, phase8, TypeOK
<1> QED
  BY <1>1, <1>2, <1>3, <1>4, <1>5, <1>6, <1>7, <1>8, <1>9, <1>10, <1>11, <1>12, <1>13,
     <1>14, <1>15 DEF Next, Advance, Redact, Check, CheckBeforeAssembly, Early, Middle

(* Every variable keeps its type, a scrubbed text among them: what a       *)
(* redaction cuts lies in the text.                                        *)
THEOREM TypeCorrect == Spec => []TypeOK
BY TypeInit, TypeStep, PTL DEF Spec
-----------------------------------------------------------------------------
(* What the scans hold.  A step either leaves the scans, what was vetted   *)
(* and the temp file alone, or is one of the redactor's or a check.        *)
LEMMA ScanInit == Init => ScanInv
<1> SUFFICES ASSUME Init PROVE ScanInv
  OBVIOUS
<1>1. PICK r \in Reports : kind = r.kind /\ scans = r.text
  BY DEF Init
<1>2. ScansSettled
  <2> SUFFICES ASSUME NEW f \in File, NEW s \in Spot
               PROVE  Settled(kind[f], scans[f][s])
    BY DEF ScansSettled
  <2>1. scans[f][s].matches = {} \/ scans[f][s].gone = {}
    BY <1>1, FreshAssumption
  <2> QED
    BY <2>1 DEF Settled, Touched
<1>3. DOMAIN temp = {} /\ vetted = {}
  BY DEF Init
<1> QED
  BY <1>2, <1>3 DEF ScanInv, TempIsStrip, VettedIsStripped

LEMMA StripSettled ==
    ASSUME TypeOK, NEW f \in File, \A s \in Spot : Settled(kind[f], scans[f][s])
    PROVE  \A s \in Spot : Settled(kind[f], Strip(f, scans[f])[s])
<1>1. \A s \in Spot : scans[f][s] \in Text
  BY DEF TypeOK
<1> QED
  BY <1>1, StripAtFacts DEF Strip

LEMMA ScanStep == TypeOK /\ ScanInv /\ [Next]_vars => ScanInv'
<1> SUFFICES ASSUME TypeOK, ScanInv, [Next]_vars PROVE ScanInv'
  OBVIOUS
<1>1. ASSUME UNCHANGED <<kind, scans, temp, vetted>>, unreadable' \subseteq unreadable,
             step \in Early => step' \in Early \/ vetted = {}
      PROVE  ScanInv'
  <2>1. TempIsStrip'
    BY <1>1 DEF ScanInv, TempIsStrip, Strip
  <2>2. ScansSettled'
    BY <1>1 DEF ScanInv, ScansSettled
  <2>3. VettedIsStripped'
    BY <1>1 DEF ScanInv, VettedIsStripped, Strip
  <2> QED
    BY <2>1, <2>2, <2>3 DEF ScanInv
<1>2. CASE UNCHANGED vars
  BY <1>1, <1>2 DEF vars, phase4
<1>3. ASSUME NEW f \in File, Land(f) \/ Unlock(f) \/ RedactKeep(f) PROVE ScanInv'
  BY <1>1, <1>3 DEF Land, Unlock, RedactKeep
<1>4. CASE StartRedact \/ EndRedact
  BY <1>1, <1>4 DEF StartRedact, EndRedact, Early
<1>5. ASSUME NEW f \in File, RedactWrite(f) PROVE ScanInv'
  <2>1. /\ UNCHANGED <<kind, scans, unreadable>> /\ step' = "redacting" /\ f \notin unreadable
        /\ temp' = [g \in {f} |-> Strip(f, scans[f])]
    BY <1>5 DEF RedactWrite, Changes
  <2>2. TempIsStrip'
    BY <2>1 DEF TempIsStrip, Strip
  <2> QED
    BY <2>1, <2>2 DEF ScanInv, ScansSettled, VettedIsStripped, Early
<1>6. ASSUME NEW f \in File, RedactRename(f) PROVE ScanInv'
  <2>1. /\ UNCHANGED <<kind, unreadable>> /\ step' = "redacting" /\ DOMAIN temp' = {}
        /\ scans' = [scans EXCEPT ![f] = Strip(f, scans[f])]
    <3>1. f \in DOMAIN temp /\ temp[f] = Strip(f, scans[f])
      BY <1>6 DEF RedactRename, ScanInv, TempIsStrip
    <3>2. DOMAIN temp' = {}
      BY <1>6 DEF RedactRename
    <3> QED
      BY <1>6, <3>1, <3>2 DEF RedactRename
  <2>2. \A s \in Spot : Settled(kind[f], Strip(f, scans[f])[s])
    BY StripSettled DEF ScanInv, ScansSettled
  <2>3. ScansSettled'
    <3> HIDE DEF Spot
    <3> QED
      BY <2>1, <2>2 DEF ScanInv, ScansSettled, TypeOK
  <2> QED
    BY <2>1, <2>3 DEF ScanInv, TempIsStrip, VettedIsStripped, Early
<1>7. ASSUME NEW from, NEW next \in Middle, Recheck(from, next) PROVE ScanInv'
  <2>1. UNCHANGED <<kind, scans, temp, landed, unreadable>>
    BY <1>7 DEF Recheck
  <2>2. CASE ~CheckPasses
    BY <2>1, <2>2, <1>7 DEF Recheck, ScanInv, TempIsStrip, ScansSettled, VettedIsStripped,
                            Early, Strip
  <2>3. CASE CheckPasses
    <3>1. vetted' = landed \ unreadable
      BY <1>7, <2>3 DEF Recheck
    <3>2. \A f \in landed \ unreadable : Strip(f, scans[f]) = scans[f]
      BY <2>3 DEF CheckPasses, Changes
    <3> QED
      BY <2>1, <3>1, <3>2 DEF ScanInv, TempIsStrip, ScansSettled, VettedIsStripped, Strip
  <2> QED
    BY <2>2, <2>3
<1>8. CASE Assemble \/ \E d \in DOMAIN copies : GateFile(d)
  BY <1>1, <1>8 DEF Assemble, GateFile, phase4, Early
<1>9. CASE GateExit \/ CopyOut \/ EmitSelfFinding \/ FinishPhase7 \/ WriteBaseline
           \/ GateBaseline \/ WritePruned \/ GateCannotReport \/ BaselineCannotReport
           \/ BaselineGateClean \/ EmitBaselineFinding
  BY <1>1, <1>9 DEF GateExit, CopyOut, EmitSelfFinding, FinishPhase7, WriteBaseline,
                    GateBaseline, WritePruned, GateCannotReport, BaselineCannotReport,
                    BaselineGateClean, EmitBaselineFinding, phase4, phase7, Early
<1>10. CASE Crash
  <2>1. DOMAIN temp' = {} /\ UNCHANGED <<kind, scans, vetted>>
        /\ (step \in Early => step' \in Early)
    BY <1>10 DEF Crash, ResumeAt, Early, TypeOK
  <2> QED
    BY <2>1 DEF ScanInv, TempIsStrip, ScansSettled, VettedIsStripped, Strip
<1> QED
  BY <1>2, <1>3, <1>4, <1>5, <1>6, <1>7, <1>8, <1>9, <1>10
  DEF Next, Advance, Redact, Check, CheckBeforeAssembly, Middle

LEMMA ScanCorrect == Spec => [](TypeOK /\ ScanInv)
<1>1. TypeOK /\ ScanInv /\ [Next]_vars => (TypeOK /\ ScanInv)'
  BY TypeStep, ScanStep
<1> QED
  BY <1>1, TypeInit, ScanInit, PTL DEF Spec

(* Of a checked report, what is left of a known credential is the tail of  *)
(* a match cut by an earlier one, or a match over several lines of a text  *)
(* scrubbed by the line, and the fields known to hold one hold nothing.    *)
THEOREM OnlyCutMatchesStay == Spec => []LeftoverExplained
<1>1. TypeOK /\ ScanInv => LeftoverExplained
  <2> SUFFICES ASSUME TypeOK, ScanInv, step \notin Early, NEW f \in vetted
               PROVE  /\ kind[f] \in {"trufflehog", "jsonl"} => scans[f]["raw"].gone = Position
                      /\ \A s \in Spot \ {"aside"} : \A m \in scans[f][s].matches :
                            (kind[f] = "text" /\ ~OneLine(m)) \/ Consumed(scans[f][s], m)
    BY DEF LeftoverExplained, Consumed, Early
  <2>1. f \in File /\ \A s \in Spot : scans[f][s] \in Text
    BY DEF TypeOK
  <2>2. \A s \in Spot : StripAt(kind[f], s, scans[f][s]) = scans[f][s]
    BY DEF ScanInv, VettedIsStripped, Strip
  <2>3. kind[f] \in {"trufflehog", "jsonl"} => scans[f]["raw"].gone = Position
    <3> SUFFICES ASSUME kind[f] \in {"trufflehog", "jsonl"}
                 PROVE  scans[f]["raw"].gone = Position
      OBVIOUS
    <3>1. Wiped(scans[f]["raw"]) = scans[f]["raw"]
      BY <2>2 DEF StripAt, Spot
    <3>2. scans[f]["raw"] \in Text
      BY <2>1 DEF Spot
    <3> QED
      BY <3>1, <3>2 DEF Wiped, Text
  <2>4. ASSUME NEW s \in Spot \ {"aside"}, NEW m \in scans[f][s].matches,
               ~(kind[f] = "text" /\ ~OneLine(m))
        PROVE  Consumed(scans[f][s], m)
    <3> DEFINE t == scans[f][s]
    <3>1. t \in Text /\ m \in Match
      BY <2>1 DEF Text
    <3>2. Settled(kind[f], t)
      BY <2>1 DEF ScanInv, ScansSettled
    <3>3. CASE Wiped(t) = t
      <4>1. t.gone = Position
        BY <3>1, <3>3 DEF Wiped, Text
      <4> QED
        BY <3>1, <4>1, SpanFacts DEF Consumed
    <3>4. CASE kind[f] # "text" /\ Scrub(t) = t
      <4>1. Hits(t) \in SUBSET Hits(t) /\ Redacted(t, Hits(t)) = t
        BY <3>4 DEF Scrub
      <4>2. Hits(t) = {}
        BY <3>1, <4>1, UnchangedHasNoHit
      <4> QED
        BY <3>1, <3>2, <4>2, <2>4, HitsFacts DEF Settled
    <3>5. CASE kind[f] = "text" /\ ScrubLines(t) = t
      <4>1. LineHits(t) \in SUBSET Hits(t) /\ Redacted(t, LineHits(t)) = t
        BY <3>5 DEF ScrubLines, LineHits
      <4>2. LineHits(t) = {}
        BY <3>1, <4>1, UnchangedHasNoHit
      <4>3. m \notin Hits(t)
        BY <2>4, <3>5, <4>2 DEF LineHits
      <4> QED
        BY <3>1, <3>2, <4>3, <2>4, HitsFacts DEF Settled
    <3>6. Wiped(t) = t \/ (kind[f] # "text" /\ Scrub(t) = t)
          \/ (kind[f] = "text" /\ ScrubLines(t) = t)
      BY <2>2 DEF StripAt
    <3> QED
      BY <3>3, <3>4, <3>5, <3>6
  <2> QED
    BY <2>3, <2>4
<1> QED
  BY <1>1, ScanCorrect, PTL
-----------------------------------------------------------------------------
(* A scrubbed part is the part it was, with more gone. *)
LEMMA ScrubbedParts ==
    ASSUME NEW parts \in SUBSET Part, NEW q \in Scrubbed(parts)
    PROVE  \E p \in parts : /\ q.from = p.from /\ q.spot = p.spot
                            /\ p.text.gone \subseteq q.text.gone
<1>1. PICK p \in parts : q = [p EXCEPT !.text = Scrub(@)]
  BY DEF Scrubbed
<1>2. p \in Part /\ p.text \in Text
  BY DEF Part
<1>3. Hits(p.text) \in SUBSET Hits(p.text)
  OBVIOUS
<1>4. p.text.gone \subseteq Scrub(p.text).gone
  BY <1>2, <1>3, RedactedFacts DEF Scrub
<1> QED
  BY <1>1, <1>2, <1>4 DEF Part

(* Of a scanner file the last passed check read, no content field reaches  *)
(* a deliverable, whatever the detectors know, whenever scans land and     *)
(* wherever the session dies (secret-redaction.md, layer 1).               *)
THEOREM VettedContentStays == Spec => []ContentOnlyUnvetted
<1>1. TypeOK /\ ScanInv /\ ContentOnlyUnvetted /\ [Next]_vars => ContentOnlyUnvetted'
  <2> SUFFICES ASSUME TypeOK, ScanInv, ContentOnlyUnvetted, [Next]_vars
               PROVE  ContentOnlyUnvetted'
    OBVIOUS
  <2>1. ASSUME UNCHANGED <<copies, vetted>>, step' \in Assembled => step \in Assembled
        PROVE  ContentOnlyUnvetted'
    BY <2>1 DEF ContentOnlyUnvetted, Assembled
  <2>2. CASE UNCHANGED vars
    BY <2>1, <2>2 DEF vars, phase4, phase7
  <2>3. ASSUME NEW f \in File, Land(f) \/ Unlock(f) \/ RedactKeep(f) \/ RedactWrite(f)
                               \/ RedactRename(f)
        PROVE  ContentOnlyUnvetted'
    BY <2>1, <2>3 DEF Land, Unlock, RedactKeep, RedactWrite, RedactRename, phase7
  <2>4. CASE StartRedact \/ EndRedact
    BY <2>1, <2>4 DEF StartRedact, EndRedact, phase7, Assembled
  <2>5. ASSUME NEW from, NEW next \in Middle, Recheck(from, next)
        PROVE  ContentOnlyUnvetted'
    BY <2>5 DEF Recheck, ContentOnlyUnvetted, Middle
  <2>6. CASE Assemble
    <3> DEFINE runs == {f \in landed \ unreadable : kind[f] = "sarif"}
               copied == {[from |-> f, spot |-> s, text |-> scans[f][s]] : f \in runs, s \in Spot}
    <3>1. /\ copies' = [report |-> {Quoted(prose)}, sarif |-> {Quoted(prose)} \cup copied]
          /\ step = "assembling" /\ vetted' = vetted
      BY <2>6 DEF Assemble, phase4
    <3>2. ASSUME NEW f \in vetted, kind[f] = "sarif"
          PROVE  scans[f]["content"].gone = Position
      <4>1. StripAt(kind[f], "content", scans[f]["content"]) = scans[f]["content"]
        BY <3>1 DEF ScanInv, VettedIsStripped, Strip, Spot, Early
      <4>2. scans[f]["content"] \in Text
        BY DEF TypeOK, Spot
      <4> QED
        BY <3>2, <4>1, <4>2, StripAtFacts
    <3>3. \A p \in copied : p.spot = "content" /\ p.from \in vetted => Position \subseteq p.text.gone
      BY <3>2
    <3>4. Quoted(prose).spot = "string"
      BY DEF Quoted
    <3>5. DOMAIN copies' = {"report", "sarif"} /\ copies'["report"] = {Quoted(prose)}
          /\ copies'["sarif"] = {Quoted(prose)} \cup copied
      BY <3>1
    <3> HIDE DEF copied
    <3> QED
      BY <3>1, <3>3, <3>4, <3>5 DEF ContentOnlyUnvetted
  <2>7. ASSUME NEW d \in DOMAIN copies, GateFile(d) PROVE ContentOnlyUnvetted'
    <3>1. CASE copies' = copies
      BY <2>1, <2>7, <3>1 DEF GateFile, phase4
    <3>2. CASE copies' = [copies EXCEPT ![d] = Scrubbed(@)]
      <4>1. copies[d] \in SUBSET Part
        BY DEF TypeOK
      <4>2. DOMAIN copies' = DOMAIN copies /\ copies'[d] = Scrubbed(copies[d])
            /\ \A e \in DOMAIN copies \ {d} : copies'[e] = copies[e]
        BY <3>2
      <4>3. vetted' = vetted /\ step = "gating"
        BY <2>7 DEF GateFile, phase4
      <4>4. ASSUME NEW e \in DOMAIN copies, NEW q \in copies'[e],
                   q.spot = "content", q.from \in vetted
            PROVE  Position \subseteq q.text.gone
        <5>1. PICK p \in copies[e] : /\ q.from = p.from /\ q.spot = p.spot
                                     /\ p.text.gone \subseteq q.text.gone
          BY <4>1, <4>2, ScrubbedParts
        <5> QED
          BY <4>3, <4>4, <5>1 DEF ContentOnlyUnvetted
      <4> QED
        BY <4>2, <4>3, <4>4 DEF ContentOnlyUnvetted
    <3> QED
      BY <2>7, <3>1, <3>2 DEF GateFile
  <2>8. CASE GateExit \/ CopyOut \/ EmitSelfFinding \/ FinishPhase7 \/ WriteBaseline
             \/ GateBaseline \/ WritePruned \/ GateCannotReport \/ BaselineCannotReport
             \/ BaselineGateClean \/ EmitBaselineFinding
    BY <2>1, <2>8 DEF GateExit, CopyOut, EmitSelfFinding, FinishPhase7, WriteBaseline,
                      GateBaseline, WritePruned, GateCannotReport, BaselineCannotReport,
                      BaselineGateClean, EmitBaselineFinding, phase4, phase7, Assembled
  <2>9. CASE Crash
    BY <2>1, <2>9 DEF Crash, ResumeAt, Assembled, TypeOK
  <2> QED
    BY <2>2, <2>3, <2>4, <2>5, <2>6, <2>7, <2>8, <2>9
    DEF Next, Advance, Redact, Check, CheckBeforeAssembly, Middle
<1>2. Init => ContentOnlyUnvetted
  BY DEF Init, ContentOnlyUnvetted
<1> QED
  BY <1>1, <1>2, ScanCorrect, PTL DEF Spec
-----------------------------------------------------------------------------
(* Nothing the detectors know reaches <output_dir>, but in a file the gate *)
(* cannot scan, for any reports, prose, earlier baseline and detectors     *)
(* (secret-redaction.md, layer 2).                                         *)
THEOREM CleanDelivery == Spec => []DeliveredIsClean
<1>1. TypeOK /\ CleanInv /\ [Next]_vars => CleanInv'
  <2> SUFFICES ASSUME TypeOK, CleanInv, [Next]_vars PROVE CleanInv'
    OBVIOUS
  <2>1. ASSUME UNCHANGED <<out, unscanned>>, step' \notin {"gating", "gated", "weighed", "pruning"}
        PROVE  CleanInv'
    BY <2>1 DEF CleanInv, DeliveredIsClean
  <2>2. CASE UNCHANGED vars
    BY <2>2 DEF vars, phase7, phase8, CleanInv, DeliveredIsClean
  <2>3. ASSUME NEW f \in File, Land(f) \/ Unlock(f) PROVE CleanInv'
    BY <2>3 DEF Land, Unlock, phase7, phase8, CleanInv, DeliveredIsClean
  <2>4. ASSUME NEW f \in File, RedactKeep(f) \/ RedactWrite(f) \/ RedactRename(f)
        PROVE  CleanInv'
    BY <2>1, <2>4 DEF RedactKeep, RedactWrite, RedactRename, phase7, phase8
  <2>5. CASE StartRedact \/ EndRedact
    BY <2>1, <2>5 DEF StartRedact, EndRedact, phase7, phase8
  <2>6. ASSUME NEW from, NEW next \in Middle, Recheck(from, next) PROVE CleanInv'
    BY <2>1, <2>6 DEF Recheck, phase7, phase8, Middle
  <2>7. CASE Assemble
    <3>1. DOMAIN copies' = DOMAIN copies
      BY <2>7, AssembledType DEF TypeOK
    <3> QED
      BY <2>7, <3>1 DEF Assemble, phase8, CleanInv, DeliveredIsClean
  <2>8. ASSUME NEW d \in DOMAIN copies, GateFile(d) PROVE CleanInv'
    <3>1. step = "gating" /\ step' = "gating" /\ UNCHANGED <<unscanned, out>>
          /\ todo' = todo \ {d}
      BY <2>8 DEF GateFile, phase8
    <3>2. CASE d \in unscanned
      BY <2>8, <3>1, <3>2 DEF GateFile, CleanInv, DeliveredIsClean
    <3>3. CASE d \notin unscanned
      <4>1. copies' = [copies EXCEPT ![d] = Scrubbed(@)]
        BY <2>8, <3>3 DEF GateFile
      <4>2. copies[d] \in SUBSET Part
        BY DEF TypeOK
      <4>3. DOMAIN copies' = DOMAIN copies /\ ~HasHits(copies'[d])
            /\ \A e \in DOMAIN copies \ {d} : copies'[e] = copies[e]
        BY <4>1, <4>2, ScrubbedType
      <4> QED
        BY <3>1, <4>3 DEF CleanInv, DeliveredIsClean
    <3> QED
      BY <3>2, <3>3
  <2>9. CASE GateCannotReport
    BY <2>9 DEF GateCannotReport, phase8, CleanInv, DeliveredIsClean
  <2>10. CASE GateExit
    BY <2>10 DEF GateExit, phase8, CleanInv, DeliveredIsClean
  <2>11. CASE CopyOut
    BY <2>11 DEF CopyOut, phase7, CleanInv, DeliveredIsClean
  <2>12. CASE EmitSelfFinding \/ FinishPhase7 \/ WriteBaseline \/ BaselineCannotReport
    BY <2>1, <2>12 DEF EmitSelfFinding, FinishPhase7, WriteBaseline, BaselineCannotReport,
                       phase7, phase8
  <2>16. CASE BaselineGateClean \/ EmitBaselineFinding
    BY <2>16 DEF BaselineGateClean, EmitBaselineFinding, phase7, phase8, CleanInv,
                 DeliveredIsClean
  <2>13. CASE GateBaseline
    BY <2>13, ScrubbedType DEF GateBaseline, phase7, CleanInv, DeliveredIsClean, TypeOK
  <2>14. CASE WritePruned
    BY <2>14 DEF WritePruned, phase7, CleanInv, DeliveredIsClean
  <2>15. CASE Crash
    BY <2>1, <2>15 DEF Crash, ResumeAt, phase8, TypeOK
  <2> QED
    BY <2>2, <2>3, <2>4, <2>5, <2>6, <2>7, <2>8, <2>9, <2>10, <2>11, <2>12, <2>13, <2>14,
       <2>15, <2>16 DEF Next, Advance, Redact, Check, CheckBeforeAssembly, Middle
<1>2. Init => CleanInv
  <2>1. Init => DOMAIN out = {}
    BY DEF Init
  <2> QED
    BY <2>1 DEF Init, CleanInv, DeliveredIsClean
<1>3. CleanInv => DeliveredIsClean
  BY DEF CleanInv
<1> QED
  BY <1>1, <1>2, <1>3, TypeCorrect, PTL DEF Spec

(* Whatever a gate of this audit scrubbed, from the deliverables or from   *)
(* the baseline, has its CRITICAL finding when the audit ends, unless a    *)
(* gate ended between its scrub and its report (phase-07-synthesis.md:     *)
(* 1249-1251, phase-08-baseline.md:184-185).                               *)
THEOREM NoSilentFiring == Spec => []FiringReported
<1>1. FiringKept /\ TypeOK /\ [Next]_vars => FiringKept'
  <2> SUFFICES ASSUME FiringKept, TypeOK, [Next]_vars PROVE FiringKept'
    OBVIOUS
  <2>1. ASSUME UNCHANGED <<fired, hits, unscanned, marker, selfFinding, lost>>, step' = step
        PROVE  FiringKept'
    BY <2>1 DEF FiringKept, Untold
  <2>2. ASSUME UNCHANGED <<fired, marker, selfFinding, lost>>,
               step \in Early \cup Middle, step' \in Early \cup Middle \cup {"gating"}
        PROVE  FiringKept'
    BY <2>2 DEF FiringKept, Untold, Early, Middle
  <2>3. CASE UNCHANGED vars
    BY <2>1, <2>3 DEF vars, phase7
  <2>4. ASSUME NEW f \in File, Land(f) \/ Unlock(f) \/ RedactKeep(f) \/ RedactWrite(f)
                               \/ RedactRename(f)
        PROVE  FiringKept'
    BY <2>1, <2>4 DEF Land, Unlock, RedactKeep, RedactWrite, RedactRename, phase7
  <2>5. CASE StartRedact \/ EndRedact
    BY <2>2, <2>5 DEF StartRedact, EndRedact, Early, phase7
  <2>6. ASSUME NEW from \in Early \cup Middle, NEW next \in Middle, Recheck(from, next)
        PROVE  FiringKept'
    BY <2>2, <2>6 DEF Recheck, Early, phase7
  <2>7. CASE Assemble
    BY <2>2, <2>7 DEF Assemble, Middle
  <2>8. ASSUME NEW d \in DOMAIN copies, GateFile(d) PROVE FiringKept'
    <3>1. /\ step = "gating" /\ step' = "gating"
          /\ UNCHANGED <<unscanned, marker, selfFinding, lost>>
          /\ hits \subseteq hits'
          /\ fired' => fired \/ d \in hits' \ unscanned
      BY <2>8 DEF GateFile
    <3> QED
      BY <3>1 DEF FiringKept, Untold
  <2>9. CASE GateCannotReport \/ BaselineCannotReport \/ Crash
    <3>1. UNCHANGED <<fired, marker, selfFinding>> /\ lost' = (lost \/ Untold)
      BY <2>9 DEF GateCannotReport, BaselineCannotReport, Crash
    <3>2. step \notin {"reported", "baselined", "weighed", "pruning", "done"}
          => step' \notin {"reported", "baselined", "weighed", "pruning", "done"}
      BY <2>9 DEF GateCannotReport, BaselineCannotReport, Crash, ResumeAt, TypeOK
    <3> QED
      BY <3>1, <3>2 DEF FiringKept
  <2>10. CASE GateExit
    <3>1. /\ UNCHANGED <<fired, selfFinding, lost>> /\ step' = "gated"
          /\ marker' = (marker \/ hits # {})
      BY <2>10 DEF GateExit
    <3> QED
      BY <3>1 DEF FiringKept, Untold
  <2>11. CASE CopyOut \/ FinishPhase7
    BY <2>11 DEF CopyOut, FinishPhase7, phase7, FiringKept, Untold
  <2>12. CASE EmitSelfFinding \/ EmitBaselineFinding
    BY <2>12 DEF EmitSelfFinding, EmitBaselineFinding, FiringKept
  <2>13. CASE WriteBaseline \/ BaselineGateClean \/ WritePruned
    BY <2>13 DEF WriteBaseline, BaselineGateClean, WritePruned, phase7, FiringKept, Untold
  <2>14. CASE GateBaseline
    <3>1. /\ UNCHANGED <<unscanned, marker, selfFinding, lost>>
          /\ step = "baselined" /\ step' = "weighed"
          /\ fired' => fired \/ "baseline" \in hits' \ unscanned
      BY <2>14 DEF GateBaseline
    <3> QED
      BY <3>1 DEF FiringKept, Untold
  <2> QED
    BY <2>3, <2>4, <2>5, <2>6, <2>7, <2>8, <2>9, <2>10, <2>11, <2>12, <2>13, <2>14
    DEF Next, Advance, Redact, Check, CheckBeforeAssembly, Early, Middle
<1>2. Init => FiringKept
  BY DEF Init, FiringKept
<1>3. FiringKept => FiringReported
  BY DEF FiringKept, FiringReported, Untold
<1> QED
  BY <1>1, <1>2, <1>3, TypeCorrect, PTL DEF Spec

(* Every checked report with a hit in the audit's own artifacts is in the  *)
(* list the escalation reads, also when an earlier, cut-off run redacted   *)
(* it and when it landed after the redactor started (4.4c).                *)
THEOREM OwnHitsListed == Spec => []SelfLeaksListed
<1>1. TypeOK /\ ScanInv /\ OwnListed /\ [Next]_vars => OwnListed'
  <2> SUFFICES ASSUME TypeOK, ScanInv, OwnListed, [Next]_vars PROVE OwnListed'
    OBVIOUS
  <2>1. ASSUME UNCHANGED <<kind, scans, summary>>, landed \subseteq landed',
               unreadable' \subseteq unreadable,
               \/ step' = step /\ UNCHANGED <<todo, leaks>>
               \/ step' = "scanning"
               \/ step \notin {"scanning", "redacting"} /\ step' \notin {"scanning", "redacting"}
        PROVE  OwnListed'
    BY <2>1 DEF OwnListed, OwnReports, Stripped
  <2>2. CASE UNCHANGED vars
    BY <2>1, <2>2 DEF vars, phase4
  <2>3. ASSUME NEW f \in File, Land(f) \/ Unlock(f) \/ RedactWrite(f) PROVE OwnListed'
    BY <2>1, <2>3 DEF Land, Unlock, RedactWrite
  <2>4. CASE StartRedact
    BY <2>4 DEF StartRedact, OwnListed, OwnReports, Stripped
  <2>5. CASE EndRedact
    BY <2>5 DEF EndRedact, OwnListed, OwnReports, Stripped
  <2>6. ASSUME NEW f \in File, RedactKeep(f) PROVE OwnListed'
    <3>1. ASSUME f \in OwnReports, Stripped(f) PROVE f \in leaks'
      BY <2>6, <3>1 DEF RedactKeep, SelfLeaks, OwnListed, OwnReports
    <3>2. step = "redacting" /\ step' = "redacting" /\ todo' = todo \ {f}
          /\ UNCHANGED <<kind, scans, landed, unreadable>> /\ leaks \subseteq leaks'
      BY <2>6 DEF RedactKeep
    <3> QED
      BY <3>1, <3>2 DEF OwnListed, OwnReports, Stripped
  <2>7. ASSUME NEW f \in File, RedactRename(f) PROVE OwnListed'
    <3>1. step = "redacting" /\ step' = "redacting" /\ todo' = todo \ {f} /\ f \in todo
          /\ UNCHANGED <<kind, landed, unreadable>> /\ leaks' = leaks \cup SelfLeaks(f)
          /\ scans' = [scans EXCEPT ![f] = temp[f]]
          /\ f \notin unreadable
      BY <2>7 DEF RedactRename, ScanInv, TempIsStrip
    <3>2. \A g \in File \ {f} : scans'[g] = scans[g]
      BY <3>1 DEF TypeOK
    <3>3. ASSUME f \in OwnReports PROVE f \in leaks' /\ f \in landed
      BY <3>1, <3>3 DEF SelfLeaks, OwnReports, OwnListed
    <3> QED
      BY <3>1, <3>2, <3>3, FileAssumption DEF OwnListed, OwnReports, Stripped
  <2>8. ASSUME NEW from \in {"redacted", "checked"}, NEW next \in Middle, Recheck(from, next)
        PROVE  OwnListed'
    BY <2>1, <2>8 DEF Recheck, Middle
  <2>9. CASE Assemble \/ \E d \in DOMAIN copies : GateFile(d)
    BY <2>1, <2>9 DEF Assemble, GateFile, phase4
  <2>10. CASE GateExit \/ CopyOut \/ EmitSelfFinding \/ FinishPhase7 \/ WriteBaseline
              \/ GateBaseline \/ WritePruned \/ GateCannotReport \/ BaselineCannotReport
              \/ BaselineGateClean \/ EmitBaselineFinding
    BY <2>1, <2>10 DEF GateExit, CopyOut, EmitSelfFinding, FinishPhase7, WriteBaseline,
                       GateBaseline, WritePruned, GateCannotReport, BaselineCannotReport,
                       BaselineGateClean, EmitBaselineFinding, phase4, phase7
  <2>11. CASE Crash
    <3>1. \/ step' = "scanning"
          \/ step \notin {"scanning", "redacting"} /\ step' \in {"checked", "reported"}
      BY <2>11 DEF Crash, ResumeAt, TypeOK
    <3>2. UNCHANGED <<kind, scans, summary, landed, unreadable>>
      BY <2>11 DEF Crash
    <3> QED
      BY <2>1, <3>1, <3>2
  <2> QED
    BY <2>2, <2>3, <2>4, <2>5, <2>6, <2>7, <2>8, <2>9, <2>10, <2>11
    DEF Next, Advance, Redact, Check, CheckBeforeAssembly, Middle
<1>2. Init => OwnListed
  <2> SUFFICES ASSUME Init PROVE OwnListed
    OBVIOUS
  <2>1. PICK r \in Reports : kind = r.kind /\ scans = r.text
    BY DEF Init
  <2>2. \A f \in OwnReports : ~Stripped(f)
    BY <2>1, SnippetAssumption DEF OwnReports, Stripped
  <2> QED
    BY <2>2 DEF Init, OwnListed
<1>3. TypeOK /\ ScanInv /\ OwnListed => SelfLeaksListed
  <2> SUFFICES ASSUME TypeOK, ScanInv, OwnListed, step \in Middle,
                      NEW f \in vetted \cap Own, kind[f] = "sarif"
               PROVE  f \in summary
    BY DEF SelfLeaksListed, Middle
  <2>1. StripAt(kind[f], "content", scans[f]["content"]) = scans[f]["content"]
    BY DEF ScanInv, VettedIsStripped, Strip, Spot, Early, Middle
  <2>2. scans[f]["content"] \in Text
    BY DEF TypeOK, Spot
  <2>3. Stripped(f)
    BY <2>1, <2>2, StripAtFacts DEF Stripped
  <2> QED
    BY <2>3 DEF OwnListed, OwnReports, Middle
<1> QED
  BY <1>1, <1>2, <1>3, ScanCorrect, PTL DEF Spec

(* The safe half of Completes: redacting twice is redacting once, so what    *)
(* the redactor has renamed into place passes the check, and only a file     *)
(* that landed or became readable since can send the phase back              *)
(* (redact-scanner-output.py:127-129).                                       *)
THEOREM RedactionSettles ==
    Spec => [][\A f \in File : RedactRename(f) => ~Changes(f)']_vars
<1>1. ASSUME TypeOK, TempIsStrip, NEW f \in File, RedactRename(f)
      PROVE  ~Changes(f)'
  <2>1. /\ f \in DOMAIN temp /\ scans' = [scans EXCEPT ![f] = temp[f]] /\ kind' = kind
    BY <1>1 DEF RedactRename
  <2>2. scans \in [File -> [Spot -> Text]]
    BY <1>1 DEF TypeOK
  <2>3. scans'[f] = Strip(f, scans[f])
    BY <1>1, <2>1, <2>2 DEF TempIsStrip
  <2>4. Strip(f, Strip(f, scans[f])) = Strip(f, scans[f])
    <3>1. \A s \in Spot : scans[f][s] \in Text
      BY <2>2
    <3> QED
      BY <3>1, StripAtTwice DEF Strip
  <2>5. Strip(f, scans[f])' = Strip(f, scans'[f])
    BY <2>1 DEF Strip
  <2> QED
    BY <2>3, <2>4, <2>5 DEF Changes
<1>2. TypeOK /\ TempIsStrip /\ [Next]_vars
        => [\A f \in File : RedactRename(f) => ~Changes(f)']_vars
  BY <1>1
<1>3. ScanInv => TempIsStrip
  BY DEF ScanInv
<1> QED
  BY <1>2, <1>3, ScanCorrect, PTL DEF Spec
===============================================================================
