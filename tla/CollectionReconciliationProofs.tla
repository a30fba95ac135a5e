-------------------- MODULE CollectionReconciliationProofs --------------------
(***************************************************************************)
(* The verdict of the collection gate, for any code, claims, coverage and  *)
(* number of restarts between its two writes.  What the rules conclude     *)
(* from a citation depends on how well the reading of a statement (forward *)
(* until the brackets balance and no chain follows) fits the code; the two *)
(* theorems it matters to say which way it must.                           *)
(***************************************************************************)
EXTENDS CollectionReconciliation, Extremes

\* What an agent may write down of the code.
OfTheCode(row) ==
  \E c \in Collections : \E claim \in Claims[c] :
    \E v \in {"complete", "incomplete", "caveat"} : row = Row(c, claim, v)

\* The probe changes severities, and nothing else, of what the gate found.
SameButSeverity(S, T) ==
  \A f \in S : \E g \in T : f.id = g.id /\ f.rule = g.rule /\ f.grants = g.grants

RowsOfTheCode ==
  /\ \A row \in rows : OfTheCode(row)
  /\ \A r1, r2 \in rows : r1.id = r2.id => r1 = r2

\* Between the two writes the stamp is the verdict on the inventory as it stands;
\* the phase goes on with a complete inventory, and with its findings.
Verdict ==
  /\ output = [findings |-> output.findings, stamp |-> output.stamp]
  /\ output.stamp \in {"none", "blank", "failed", "passed"}
  /\ status = "sidecar" => (output.stamp = "failed" => CoverageFails(rows, dismissed))
  /\ status \in {"sidecar", "probing"} => output.findings = Findings(rows)
  /\ status \in {"probing", "done"} => ~CoverageFails(rows, dismissed)
  /\ status = "done" => /\ SameButSeverity(output.findings, Findings(rows))
                        /\ SameButSeverity(Findings(rows), output.findings)

Inv == TypeOK /\ RowsOfTheCode /\ Verdict /\ IncompleteIsMarked
-----------------------------------------------------------------------------
LEMMA RowFacts ==
  ASSUME NEW c \in Collections, NEW claim \in Claims[c],
         NEW v \in {"complete", "incomplete", "caveat"}, NEW row, row = Row(c, claim, v)
  PROVE  /\ row.id = c.id /\ row.site = c.site /\ row.entity = c.entity
         /\ row.returns = c.returns /\ row.admin = c.admin
         /\ row.scope = claim.scope /\ row.evidence = claim.evidence
         /\ row.scope \in Scopes /\ row.site \in Site
         /\ row.evidence \in [site : Site \cup {NoSite}, text : DOMAIN Words \cup {NoText}]
BY InventoryAssumption DEF Row

LEMMA Coverages == \A claim : CoverageNow(claim) \subseteq {"complete", "incomplete", "caveat"}
BY DEF CoverageNow

LEMMA FindingFields ==
  ASSUME NEW rule, NEW severity, NEW row, NEW grants
  PROVE  /\ Finding(rule, severity, row, grants).id = row.id
         /\ Finding(rule, severity, row, grants).rule = rule
         /\ Finding(rule, severity, row, grants).grants = grants
BY DEF Finding

LEMMA FindingShape ==
  ASSUME NEW R, NEW f \in Findings(R)
  PROVE  \E row \in R : \E rule, severity, grants : f = Finding(rule, severity, row, grants)
<1>1. PICK row \in R : f \in RowFindings(row)
  BY DEF Findings
<1> DEFINE c1 == Finding("C1", UnscopedSeverity(row), row, Grants(row))
           c2a == Finding("C2", "MEDIUM", row, Grants(row))
           c2b == Finding("C2", DecorationSeverity(row), row, Grants(row))
           c3 == Finding("C3", IF row.coverage = "caveat" THEN "LOW" ELSE "MEDIUM", row, "none")
           c4 == Finding("C4", "MEDIUM", row, "none")
           c5 == Finding("C5", "MEDIUM", row, "any")
           c6 == Finding("C6", "MEDIUM", row, "none")
<1>2. RowFindings(row) \subseteq {c1, c2a, c2b, c3, c4, c5, c6}
  <2>1. RowFindings(row) =
          When(Claimed(row) /\ Miscited(row), c6)
          \cup (When(Claimed(row) /\ ~PredicateBinds(row), c5)
                \cup When(Sensitive(row) /\ Effective(row) \in {"unscoped", "unknown"}, c1))
          \cup When(/\ ~row.decorates /\ row.scope # "public_allowlisted"
                    /\ FilterMissing(row.site.file), c2a)
          \cup When(row.decorates /\ ~row.filters, c2b)
          \cup When(row.coverage # "complete", c3)
          \cup When(row.site.file \in Pinned /\ row.entity \notin Public, c4)
    BY DEF RowFindings, ScopeFindings
  <2> HIDE DEF c1, c2a, c2b, c3, c4, c5, c6
  <2> QED
    BY <2>1 DEF When
<1>3. f \in {c1, c2a, c2b, c3, c4, c5, c6}
  BY <1>1, <1>2
<1> QED
  BY <1>3

\* A refuted deficit becomes INFO; its id, rule and tags stay.
LEMMA RefutedFields ==
  ASSUME NEW R, NEW f \in Findings(R), NEW s
  PROVE  LET g == [f EXCEPT !.severity = s]
         IN  g.id = f.id /\ g.rule = f.rule /\ g.grants = f.grants
<1>1. PICK row, rule, severity, grants : f = Finding(rule, severity, row, grants)
  BY FindingShape
<1>2. f = [rule |-> rule, severity |-> severity, id |-> row.id, grants |-> grants]
  BY <1>1 DEF Finding
<1> QED
  BY <1>2

LEMMA InvInit == Init => Inv
<1> SUFFICES ASSUME Init PROVE Inv
  OBVIOUS
<1>1. TypeOK
  <2>1. crashes \in 0 .. MaxCrashes
    BY InventoryAssumption DEF Init
  <2>2. output.stamp = "none" /\ sidecar = FALSE
    BY DEF Init
  <2> QED
    BY <2>1, <2>2 DEF Init, TypeOK
<1> QED
  BY <1>1 DEF Init, Inv, RowsOfTheCode, Verdict, IncompleteIsMarked

LEMMA InvStep == Inv /\ [Next]_vars => Inv'
<1> SUFFICES ASSUME Inv, [Next]_vars PROVE Inv'
  OBVIOUS
<1> USE DEF Inv
<1>1. ASSUME NEW c \in Collections, NEW claim \in Claims[c], NEW v \in CoverageNow(claim),
             Record(c, claim, v)
      PROVE  Inv'
  <2> DEFINE new == Row(c, claim, v)
  <2>1. v \in {"complete", "incomplete", "caveat"}
    BY Coverages
  <2>2. new.id = c.id /\ OfTheCode(new)
    BY <2>1, RowFacts DEF OfTheCode
  <2>3. rows' = (rows \ Recorded(c)) \cup {new} /\ \A row \in rows \ Recorded(c) : row.id # c.id
    BY <1>1 DEF Record, Recorded
  <2>4. owed' = owed \ {c.site} /\ status = "inventory"
        /\ UNCHANGED <<dismissed, status, output, sidecar, crashes>>
    BY <1>1 DEF Record
  <2> HIDE DEF new
  <2>5. RowsOfTheCode'
    <3>1. \A row \in rows' : OfTheCode(row)
      BY <2>2, <2>3 DEF RowsOfTheCode
    <3>2. \A r1, r2 \in rows' : r1.id = r2.id => r1 = r2
      BY <2>2, <2>3 DEF RowsOfTheCode
    <3> QED
      BY <3>1, <3>2 DEF RowsOfTheCode
  <2>6. \A row \in rows' : row.id \in {k.id : k \in Collections}
    BY <2>2, <2>3 DEF TypeOK
  <2>7. TypeOK'
    BY <2>4, <2>5, <2>6 DEF TypeOK, RowsOfTheCode
  <2> QED
    BY <2>4, <2>5, <2>7 DEF Verdict, IncompleteIsMarked
<1>2. ASSUME NEW c \in Candidates, Dismiss(c) PROVE Inv'
  BY <1>2 DEF Dismiss, TypeOK, RowsOfTheCode, Verdict, IncompleteIsMarked
<1>3. CASE HandOver
  BY <1>3 DEF HandOver, TypeOK, RowsOfTheCode, Verdict, IncompleteIsMarked
<1>4. CASE Gate
  <2>1. /\ output' = [findings |-> Findings(rows), stamp |-> Stamp]
        /\ status' = "sidecar" /\ UNCHANGED <<rows, dismissed, owed, sidecar, crashes>>
    BY <1>4 DEF Gate
  <2>2. /\ Stamp \in {"blank", "failed", "passed"}
        /\ Stamp = "failed" => CoverageFails(rows, dismissed)
    BY DEF Stamp
  <2>3. /\ output'.findings = Findings(rows) /\ output'.stamp = Stamp
        /\ output' = [findings |-> output'.findings, stamp |-> output'.stamp]
    BY <2>1
  <2>4. Verdict'
    BY <2>1, <2>2, <2>3 DEF Verdict
  <2> QED
    BY <2>1, <2>2, <2>3, <2>4 DEF TypeOK, RowsOfTheCode, IncompleteIsMarked
<1>5. CASE Conclude
  <2>1. /\ status = "sidecar" /\ UNCHANGED <<rows, dismissed, output, crashes>>
        /\ CoverageFails(rows, dismissed) => sidecar' = TRUE
        /\ ~CoverageFails(rows, dismissed) => sidecar' \in {FALSE, sidecar}
        /\ owed' = Unaccounted(rows, dismissed)
                   \cup {row.site : row \in {r \in rows : r.coverage = "incomplete"}}
        /\ status' = IF CoverageFails(rows, dismissed) THEN "inventory" ELSE "probing"
    BY <1>5 DEF Conclude, MarkIncomplete
  <2>2. sidecar' \in BOOLEAN
    BY <2>1 DEF TypeOK
  <2>3. owed' \subseteq Candidates \cup {c.site : c \in Collections}
    <3>1. \A row \in rows : row.site \in {c.site : c \in Collections}
      BY RowFacts DEF RowsOfTheCode, OfTheCode
    <3> QED
      BY <2>1, <3>1 DEF Unaccounted
  <2>4. TypeOK'
    BY <2>1, <2>2, <2>3 DEF TypeOK
  <2>5. Verdict'
    BY <2>1 DEF Verdict
  <2>6. IncompleteIsMarked'
    BY <2>1 DEF Verdict, IncompleteIsMarked
  <2> QED
    BY <2>1, <2>4, <2>5, <2>6 DEF RowsOfTheCode
<1>6. CASE Probe
  <2>1. PICK refuted \in SUBSET output.findings :
          output' = [output EXCEPT !.findings =
             (@ \ refuted) \cup {[f EXCEPT !.severity = "INFO"] : f \in refuted}]
    BY <1>6 DEF Probe
  <2>2. status = "probing" /\ status' = "done"
        /\ UNCHANGED <<rows, dismissed, owed, sidecar, crashes>>
    BY <1>6 DEF Probe
  <2> DEFINE info(f) == [f EXCEPT !.severity = "INFO"]
             after == (output.findings \ refuted) \cup {info(f) : f \in refuted}
  <2>3. output'.findings = after /\ output'.stamp = output.stamp
        /\ output' = [findings |-> output'.findings, stamp |-> output'.stamp]
    BY <2>1 DEF Verdict
  <2>4. \A f \in output.findings : info(f).id = f.id /\ info(f).rule = f.rule
                                   /\ info(f).grants = f.grants
    BY <2>2, RefutedFields DEF Verdict
  <2>5. output.findings = Findings(rows)
    BY <2>2 DEF Verdict
  <2> HIDE DEF info
  <2>6. SameButSeverity(after, output.findings) /\ SameButSeverity(output.findings, after)
    BY <2>4 DEF SameButSeverity
  <2> HIDE DEF after
  <2>7. Verdict'
    BY <2>2, <2>3, <2>5, <2>6 DEF Verdict
  <2> QED
    BY <2>2, <2>3, <2>7 DEF TypeOK, RowsOfTheCode, Verdict, IncompleteIsMarked
<1>7. CASE Crash
  BY <1>7, InventoryAssumption DEF Crash, TypeOK, RowsOfTheCode, Verdict, IncompleteIsMarked
<1>8. CASE UNCHANGED vars
  BY <1>8 DEF vars, TypeOK, RowsOfTheCode, Verdict, IncompleteIsMarked
<1> QED
  BY <1>1, <1>2, <1>3, <1>4, <1>5, <1>6, <1>7, <1>8 DEF Next, Answer

LEMMA InvAlways == Spec => []Inv
BY InvInit, InvStep, PTL DEF Spec

\* Every reachable state is well typed, with one row for a collection.
THEOREM TypeCorrect == Spec => []TypeOK
BY InvAlways, PTL DEF Inv

\* At rest, findings with no sidecar beside them are those of a complete inventory
\* that the gate let through, wherever the phase was cut off and whether or not a
\* stale sidecar could be removed (validate-collection-scoping.py:1500-1525).
THEOREM SidecarWarns == Spec => []IncompleteIsMarked
BY InvAlways, PTL DEF Inv
-----------------------------------------------------------------------------
\* The claimed text of a readable citation is not looked at.
LEMMA ClaimedTextIgnored ==
  ASSUME NEW row, OfTheCode(row), Readable(row), NEW t
  PROVE  ScopeFindings(row) = ScopeFindings([row EXCEPT !.evidence.text = t])
<1> DEFINE other == [row EXCEPT !.evidence.text = t]
<1>0. PICK c \in Collections :
        \E claim \in Claims[c] : \E v \in {"complete", "incomplete", "caveat"} :
          row = Row(c, claim, v)
  BY DEF OfTheCode
<1>1. PICK claim \in Claims[c], v \in {"complete", "incomplete", "caveat"} :
        row = Row(c, claim, v)
  BY <1>0
<1>2. row.evidence \in [site : Site \cup {NoSite}, text : DOMAIN Words \cup {NoText}]
  BY <1>1, RowFacts
<1>3. /\ other.id = row.id /\ other.scope = row.scope /\ other.entity = row.entity
      /\ other.returns = row.returns /\ other.admin = row.admin
      /\ other.evidence.site = row.evidence.site
  BY <1>1, <1>2 DEF Row
<1> HIDE DEF other
<1>4. Claimed(other) <=> Claimed(row)
  BY <1>3 DEF Claimed
<1>5. PredicateBinds(other) <=> PredicateBinds(row)
  BY <1>3 DEF PredicateBinds, Readable
<1>6. Effective(other) = Effective(row)
  BY <1>3, <1>4, <1>5 DEF Effective
<1>7. Sensitive(other) <=> Sensitive(row)
  BY <1>3 DEF Sensitive
<1>8. \A rule, severity, grants : Finding(rule, severity, other, grants)
                                  = Finding(rule, severity, row, grants)
  BY <1>3 DEF Finding
<1>9. UnscopedSeverity(other) = UnscopedSeverity(row) /\ Grants(other) = Grants(row)
  BY <1>3, <1>6 DEF UnscopedSeverity, Grants
<1>10. ScopeFindings(other) = ScopeFindings(row)
  BY <1>4, <1>5, <1>6, <1>7, <1>8, <1>9 DEF ScopeFindings, When
<1> QED
  BY <1>10 DEF other

\* What an inventory says a predicate reads changes nothing about a row whose
\* citation can be read (validate-collection-scoping.py:1016-1018).
THEOREM SourceDecides == Spec => []SourceIsTheAuthority
<1>1. Inv => SourceIsTheAuthority
  BY ClaimedTextIgnored DEF Inv, RowsOfTheCode, SourceIsTheAuthority
<1> QED
  BY <1>1, InvAlways, PTL
-----------------------------------------------------------------------------
\* Where the reading of a statement that begins at line i may end.
EndsAt(file, i, j) == Depth(file, i, j) <= 0 /\ ~ContinuesAfter(file, j)

OneStatement(file, i, j) == Source[file][i].statement = Source[file][j].statement

\* At the end of a statement the brackets opened since line i are closed and no
\* chain follows: the reading takes no line of the next one.
NothingReadBeyond ==
  \A f \in DOMAIN Source : \A i, j \in Lines(f) :
    (i <= j /\ j + 1 \in Lines(f) /\ OneStatement(f, i, j) /\ ~EndsAt(f, i, j))
      => OneStatement(f, i, j + 1)

\* A statement goes on within brackets or with a chain: it is read to its end.
NothingReadShort ==
  \A f \in DOMAIN Source : \A i, j \in Lines(f) :
    (i <= j /\ j + 1 \in Lines(f) /\ OneStatement(f, i, j + 1)) => ~EndsAt(f, i, j)

\* A list that is bound to its caller is so by words the tool knows, in the lines
\* it reads where the query starts.
BoundInItsStatement ==
  \A c \in Collections : c.bound =>
    \E k \in Lines(c.site.file) :
      /\ c.site.line \in Lines(c.site.file)
      /\ c.site.line <= k /\ k < c.site.line + StatementMax
      /\ OneStatement(c.site.file, c.site.line, k)
      /\ BindsCaller(Source[c.site.file][k].text)

LEMMA FileFacts ==
  ASSUME NEW f \in DOMAIN Source
  PROVE  /\ Len(Source[f]) \in Nat /\ Lines(f) = 1 .. Len(Source[f])
         /\ \A k \in Lines(f) : Source[f][k] \in SourceLine
         /\ \A i, j \in Lines(f) : i <= j => Source[f][i].statement <= Source[f][j].statement
BY CollectionAssumption DEF Lines

\* The library's Min of a set of naturals is its least element.
LEMMA MinFacts ==
  ASSUME NEW S \in SUBSET Nat, S # {}
  PROVE  Min(S) \in S /\ \A y \in S : Min(S) <= y
<1>1. \E x \in S : \A y \in S : x <= y
  BY LeastElement
<1> QED
  BY <1>1 DEF Min

LEMMA StatementFacts ==
  ASSUME NEW site \in Site, site.line \in Lines(site.file)
  PROVE  \E m \in Lines(site.file) :
           /\ StatementAt(site) = site.line .. m /\ site.line <= m
           /\ \A j \in site.line .. (m - 1) : ~EndsAt(site.file, site.line, j)
           /\ \/ m = Len(Source[site.file]) \/ m = site.line + StatementMax - 1
              \/ EndsAt(site.file, site.line, m)
<1> DEFINE f == site.file
           n == Len(Source[f])
           a == site.line
           both == {n, a + StatementMax - 1}
           limit == Min(both)
           stops == {k \in a .. limit : EndsAt(f, a, k)} \cup {limit}
           m == Min(stops)
<1>1. n \in Nat /\ Lines(f) = 1 .. n /\ a \in 1 .. n
  BY FileFacts DEF Site
<1>2. a + StatementMax - 1 \in Nat /\ a <= a + StatementMax - 1
  BY <1>1, CollectionAssumption
<1>3. limit \in both /\ limit <= n
  <2>1. both \in SUBSET Nat /\ both # {}
    BY <1>1, <1>2
  <2> HIDE DEF both
  <2>2. limit \in both /\ \A y \in both : limit <= y
    BY <2>1, MinFacts
  <2>3. n \in both
    BY DEF both
  <2> QED
    BY <2>2, <2>3
<1>4. limit \in a .. n
  BY <1>1, <1>2, <1>3
<1> HIDE DEF limit
<1>5. m \in stops /\ \A y \in stops : m <= y
  <2>1. stops \in SUBSET Nat /\ stops # {}
    BY <1>1, <1>4
  <2> HIDE DEF stops
  <2> QED
    BY <2>1, MinFacts
<1>6. StatementAt(site) = a .. m
  BY DEF StatementAt, EndsAt, limit
<1> HIDE DEF m
<1>7. m \in a .. limit
  BY <1>4, <1>5
<1>8. \A j \in a .. (m - 1) : ~EndsAt(f, a, j)
  <2> SUFFICES ASSUME NEW j \in a .. (m - 1), EndsAt(f, a, j) PROVE FALSE
    OBVIOUS
  <2>1. j \in a .. limit /\ j < m
    BY <1>1, <1>4, <1>7
  <2>2. j \in stops
    BY <2>1
  <2> QED
    BY <1>1, <1>4, <1>5, <1>7, <2>1, <2>2
<1>9. m = n \/ m = a + StatementMax - 1 \/ EndsAt(f, a, m)
  BY <1>3, <1>5
<1>10. m \in Lines(f) /\ a <= m
  BY <1>1, <1>4, <1>7
<1> QED
  BY <1>6, <1>8, <1>9, <1>10

LEMMA ReadInside ==
  ASSUME NothingReadBeyond, NEW site \in Site, site.line \in Lines(site.file),
         NEW k \in StatementAt(site)
  PROVE  k \in Lines(site.file) /\ OneStatement(site.file, site.line, k)
<1> DEFINE f == site.file
           a == site.line
<1>1. PICK m \in Lines(f) : /\ StatementAt(site) = a .. m /\ a <= m
                            /\ \A j \in a .. (m - 1) : ~EndsAt(f, a, j)
  BY StatementFacts
<1>2. f \in DOMAIN Source /\ Len(Source[f]) \in Nat /\ Lines(f) = 1 .. Len(Source[f])
  BY FileFacts DEF Site
<1>3. k \in a .. m /\ k \in Lines(f)
  BY <1>1, <1>2
<1> DEFINE strays == {j \in a .. m : ~OneStatement(f, a, j)}
<1>4. strays = {}
  <2> SUFFICES ASSUME strays # {} PROVE FALSE
    OBVIOUS
  <2>1. strays \in SUBSET Nat
    BY <1>1, <1>2
  <2>2. PICK j \in strays : \A x \in strays : j <= x
    <3> HIDE DEF strays
    <3> QED
      BY <2>1, LeastElement
  <2>3. j # a
    BY DEF OneStatement
  <2>4. j - 1 \in a .. m /\ j - 1 < j /\ j - 1 \in a .. (m - 1)
    BY <1>1, <1>2, <2>3
  <2>5. OneStatement(f, a, j - 1)
    BY <1>1, <1>2, <2>2, <2>4
  <2>6. ~EndsAt(f, a, j - 1)
    BY <1>1, <2>4
  <2>7. j - 1 \in Lines(f) /\ (j - 1) + 1 = j /\ j \in Lines(f) /\ a <= j - 1
    BY <1>1, <1>2, <2>4
  <2>8. OneStatement(f, a, j)
    BY <1>2, <2>5, <2>6, <2>7 DEF NothingReadBeyond
  <2> QED
    BY <2>8
<1> QED
  BY <1>3, <1>4

LEMMA ReadWhole ==
  ASSUME NothingReadShort, NEW site \in Site, site.line \in Lines(site.file),
         NEW k \in Lines(site.file), site.line <= k, k < site.line + StatementMax,
         OneStatement(site.file, site.line, k)
  PROVE  k \in StatementAt(site)
<1> DEFINE f == site.file
           a == site.line
<1>1. PICK m \in Lines(f) :
        /\ StatementAt(site) = a .. m /\ a <= m
        /\ m = Len(Source[f]) \/ m = a + StatementMax - 1 \/ EndsAt(f, a, m)
  BY StatementFacts
<1>2. f \in DOMAIN Source /\ Len(Source[f]) \in Nat /\ Lines(f) = 1 .. Len(Source[f])
  BY FileFacts DEF Site
<1>3. ASSUME m < k PROVE FALSE
  <2>1. m # Len(Source[f]) /\ m # a + StatementMax - 1
    BY <1>2, <1>3, CollectionAssumption
  <2>2. EndsAt(f, a, m)
    BY <1>1, <2>1
  <2>3. m + 1 \in Lines(f) /\ a <= m + 1 /\ m + 1 <= k
    BY <1>1, <1>2, <1>3
  <2>4. /\ Source[f][a].statement <= Source[f][m + 1].statement
        /\ Source[f][m + 1].statement <= Source[f][k].statement
        /\ Source[f][a].statement \in Nat /\ Source[f][m + 1].statement \in Nat
    BY <1>2, <2>3, FileFacts DEF SourceLine
  <2>5. OneStatement(f, a, m + 1)
    BY <2>4 DEF OneStatement
  <2> QED
    BY <1>1, <1>2, <2>2, <2>3, <2>5 DEF NothingReadShort
<1> QED
  BY <1>1, <1>2, <1>3
-----------------------------------------------------------------------------
LEMMA RecordedFacts ==
  ASSUME Inv, NEW c \in Collections, NEW row \in Recorded(c)
  PROVE  /\ row \in rows /\ row.id = c.id /\ row.site = c.site /\ row.entity = c.entity
         /\ row.returns = c.returns /\ row.scope \in Scopes
         /\ row.evidence.site \in Site \cup {NoSite}
<1>1. row \in rows /\ row.id = c.id
  BY DEF Recorded
<1>2. PICK d \in Collections :
        \E claim \in Claims[d] : \E v \in {"complete", "incomplete", "caveat"} :
          row = Row(d, claim, v)
  BY <1>1 DEF Inv, RowsOfTheCode, OfTheCode
<1>3. d = c
  BY <1>1, <1>2, RowFacts, InventoryAssumption
<1> QED
  BY <1>1, <1>2, <1>3, RowFacts

\* A scope that stands and is none of the disowned ones is one of the claims
\* that keep C1 away.
LEMMA KeptOut ==
  ASSUME NEW row, row.scope \in Scopes, Effective(row) \notin {"unscoped", "unknown"}
  PROVE  \/ row.scope = "public_allowlisted"
         \/ row.scope = "role_restricted" /\ row.admin
         \/ Claimed(row) /\ PredicateBinds(row)
BY DEF Effective, Claimed, Scopes

LEMMA C1Raised ==
  ASSUME NEW row, Sensitive(row), Effective(row) \in {"unscoped", "unknown"}
  PROVE  \E f \in RowFindings(row) : f.id = row.id /\ f.rule = "C1"
<1> DEFINE f == Finding("C1", UnscopedSeverity(row), row, Grants(row))
<1>1. f \in ScopeFindings(row)
  BY DEF ScopeFindings, When
<1>2. f.id = row.id /\ f.rule = "C1"
  BY FindingFields
<1> HIDE DEF f
<1>3. f \in RowFindings(row)
  BY <1>1 DEF RowFindings
<1> QED
  BY <1>2, <1>3

\* When the phase is over, an unscoped list of other principals' rows has its C1,
\* or one of the inventory's claims kept it out (validate-collection-scoping.py:
\* 964-1079), if the reading of a citation takes no line of the next statement.
THEOREM NoSilentGap == ASSUME NothingReadBeyond PROVE Spec => []GapsExplained
<1>1. ASSUME Inv PROVE GapsExplained
  <2> SUFFICES ASSUME status = "done", NEW c \in Collections,
                      c.entity \notin Public, c.returns # "single"
               PROVE
         \/ \E f \in output.findings : f.id = c.id /\ f.rule = "C1"
         \/ /\ Recorded(c) = {}
            /\ c.site \in Candidates => Accounted(rows, dismissed, c.site)
         \/ \E row \in Recorded(c) :
              \/ row.scope = "public_allowlisted"
              \/ row.scope = "role_restricted" /\ row.admin
              \/ Claimed(row) /\ ~Readable(row) /\ ClaimedTextBinds(row)
              \/ Claimed(row) /\ Readable(row) /\ CitesBinding(row.evidence.site)
    BY DEF GapsExplained
  <2>1. ~CoverageFails(rows, dismissed) /\ SameButSeverity(Findings(rows), output.findings)
    BY <1>1 DEF Inv, Verdict
  <2>2. CASE Recorded(c) = {}
    BY <2>1, <2>2 DEF CoverageFails, Unaccounted
  <2>3. ASSUME NEW row \in Recorded(c), Effective(row) \in {"unscoped", "unknown"}
        PROVE  \E f \in output.findings : f.id = c.id /\ f.rule = "C1"
    <3>1. row \in rows /\ row.id = c.id /\ Sensitive(row)
      BY <1>1, RecordedFacts DEF Sensitive
    <3>2. PICK f \in RowFindings(row) : f.id = row.id /\ f.rule = "C1"
      BY <2>3, <3>1, C1Raised
    <3>3. f \in Findings(rows)
      BY <3>1 DEF Findings
    <3> QED
      BY <2>1, <3>1, <3>2, <3>3 DEF SameButSeverity
  <2>4. ASSUME NEW row \in Recorded(c), Claimed(row), PredicateBinds(row)
        PROVE  \/ ~Readable(row) /\ ClaimedTextBinds(row)
               \/ Readable(row) /\ CitesBinding(row.evidence.site)
    <3> DEFINE site == row.evidence.site
    <3>1. CASE ~Readable(row)
      BY <2>4, <3>1 DEF PredicateBinds
    <3>2. CASE Readable(row)
      <4>1. site \in Site
        BY <1>1, <3>2, RecordedFacts DEF Readable
      <4>2. PICK k \in StatementAt(site) : BindsCaller(Source[site.file][k].text)
        BY <2>4, <3>2 DEF PredicateBinds
      <4>3. site.line \in Lines(site.file)
        BY <4>2 DEF StatementAt
      <4>4. k \in Lines(site.file) /\ OneStatement(site.file, site.line, k)
        BY <4>1, <4>3, ReadInside
      <4> QED
        BY <3>2, <4>2, <4>3, <4>4 DEF CitesBinding, OneStatement
    <3> QED
      BY <3>1, <3>2
  <2>5. ASSUME NEW row \in Recorded(c), Effective(row) \notin {"unscoped", "unknown"}
        PROVE  \/ row.scope = "public_allowlisted"
               \/ row.scope = "role_restricted" /\ row.admin
               \/ Claimed(row) /\ PredicateBinds(row)
    BY <1>1, <2>5, RecordedFacts, KeptOut
  <2> QED
    BY <2>2, <2>3, <2>4, <2>5
<1>2. Inv => GapsExplained
  BY <1>1
<1> QED
  BY <1>2, InvAlways, PTL
-----------------------------------------------------------------------------
LEMMA GrantsAny ==
  ASSUME NEW row, NEW f \in RowFindings(row), f.grants = "any"
  PROVE  f.id = row.id /\ ((Claimed(row) /\ ~PredicateBinds(row)) \/ Effective(row) = "unscoped")
<1> DEFINE bad == Claimed(row) /\ ~PredicateBinds(row)
<1>1. \/ f.grants = "none" /\ f.id = row.id
      \/ f.grants = Grants(row) /\ f.id = row.id
      \/ bad /\ f.id = row.id
  BY FindingFields DEF RowFindings, ScopeFindings, When
<1>2. Grants(row) = "any" => Effective(row) = "unscoped"
  BY DEF Grants
<1> QED
  BY <1>1, <1>2

LEMMA Disowned ==
  ASSUME NEW row, row.scope \in Scopes,
         (Claimed(row) /\ ~PredicateBinds(row)) \/ Effective(row) = "unscoped"
  PROVE  \/ row.scope = "unscoped"
         \/ row.scope = "role_restricted" /\ ~row.admin
         \/ Claimed(row) /\ ~PredicateBinds(row)
BY DEF Effective, Scopes

\* A list that is really bound to its caller grants an attacker any principal's
\* rows only if the inventory disowns its scope or claims it without citing the
\* line where the query starts (validate-collection-scoping.py:882-908), if what
\* binds it stands in the lines that are read there.
THEOREM TagsEarned ==
  ASSUME NothingReadShort, BoundInItsStatement PROVE Spec => []TagsAreEarned
<1>1. ASSUME Inv PROVE TagsAreEarned
  <2> SUFFICES ASSUME NEW g \in output.findings, NEW c \in Collections,
                      g.id = c.id, g.grants = "any", c.bound, status = "done"
               PROVE  \E row \in Recorded(c) :
                        \/ row.scope = "unscoped"
                        \/ row.scope = "role_restricted" /\ ~row.admin
                        \/ Claimed(row) /\ row.evidence.site # c.site
    BY DEF TagsAreEarned
  <2>1. SameButSeverity(output.findings, Findings(rows))
    BY <1>1 DEF Inv, Verdict
  <2>2. PICK f \in Findings(rows) : f.id = c.id /\ f.grants = "any"
    BY <2>1 DEF SameButSeverity
  <2>3. PICK row \in rows : f \in RowFindings(row)
    BY DEF Findings
  <2>4. row.id = c.id /\ ((Claimed(row) /\ ~PredicateBinds(row)) \/ Effective(row) = "unscoped")
    BY <2>2, <2>3, GrantsAny
  <2>5. row \in Recorded(c)
    BY <2>4 DEF Recorded
  <2>6. row.scope \in Scopes
    BY <1>1, <2>5, RecordedFacts
  <2>7. \/ row.scope = "unscoped"
        \/ row.scope = "role_restricted" /\ ~row.admin
        \/ Claimed(row) /\ ~PredicateBinds(row)
    BY <2>4, <2>6, Disowned
  <2>8. ASSUME row.evidence.site = c.site PROVE PredicateBinds(row)
    <3> DEFINE site == c.site
    <3>1. PICK k \in Lines(site.file) :
            /\ site.line \in Lines(site.file)
            /\ site.line <= k /\ k < site.line + StatementMax
            /\ OneStatement(site.file, site.line, k)
            /\ BindsCaller(Source[site.file][k].text)
      BY DEF BoundInItsStatement
    <3>2. site \in Site /\ site # NoSite
      BY InventoryAssumption
    <3>3. k \in StatementAt(site)
      BY <3>1, <3>2, ReadWhole
    <3>4. Readable(row)
      <4>1. site.line - site.line \in -Window .. Window
        BY <3>2, CollectionAssumption DEF Site
      <4>2. site.line \in CitedWindow(site)
        BY <3>1, <4>1 DEF CitedWindow
      <4>3. site.line # 0
        BY <3>1, <3>2, FileFacts DEF Site
      <4> QED
        BY <2>8, <3>2, <4>2, <4>3 DEF Readable
    <3> QED
      BY <2>8, <3>1, <3>3, <3>4 DEF PredicateBinds
  <2> QED
    BY <2>5, <2>7, <2>8
<1>2. Inv => TagsAreEarned
  BY <1>1
<1> QED
  BY <1>2, InvAlways, PTL
===============================================================================
