-------------------------- MODULE CollectionRules --------------------------
(***************************************************************************)
(* lib/validate-collection-scoping.py: does a list query bind its rows to  *)
(* the caller?  The rules C1 to C6 over an inventory that sub-agents wrote,*)
(* judged against the source the inventory cites.                          *)
(*                                                                         *)
(* A line of source is its text, the brackets it opens minus those it      *)
(* closes, whether it continues a method chain, and what it marks.  A text *)
(* is the set of its words, each with the place it stands in.              *)
(***************************************************************************)
EXTENDS SiteCoverage, Sequences, FiniteSets, FiniteSetsExt

CONSTANTS Source,        \* file -> sequence of lines
          Words,         \* text -> set of [word, place, anchored]
          Anchored,      \* texts that match a list-query anchor
          Handlers,      \* files candidate extraction runs over
          Pinned,        \* handler files a sibling test pins as cross-principal
          Public,        \* profile.public_resources
          Owned,         \* entities with owner or PII columns in the data model
          Window,        \* _EVIDENCE_WINDOW
          StatementMax,  \* _STATEMENT_MAX
          NoText, NoSite

\* A line of source, and a file: its statements in order.
SourceLine == [text : DOMAIN Words, delta : Int, chain : BOOLEAN, statement : Nat,
               mark : {"none", "handler", "permission", "filter"}]

ASSUME CollectionAssumption ==
  /\ Window \in Nat /\ StatementMax \in Nat \ {0} /\ Handlers \subseteq DOMAIN Source
  /\ \A f \in DOMAIN Source :
       /\ Source[f] \in Seq(SourceLine)
       /\ \A i, j \in DOMAIN Source[f] :
            i <= j => Source[f][i].statement <= Source[f][j].statement

\* _strip_literals blanks quoted values, bare templates, and comments it knows;
\* block and SQL comments count as code unless they are in a tagged template.
ReadAsCode == {"code", "tagged", "interpolation", "block_comment", "sql_comment"}

\* _strip_comments, before the RLS pre-pass: literals stay, # is no comment there.
LostToThePrePass == {"line_comment", "block_comment", "sql_comment", "tagged_comment"}

\* predicate_binds_caller: an RLS setting, a caller token, or a generic word that
\* stands alone or next to an identity word.
BindsCaller(text) ==
  \E w \in Words[text] :
    \/ w.word = "guc" /\ w.place \notin LostToThePrePass
    \/ w.place \in ReadAsCode /\ (w.word = "caller" \/ (w.word = "generic" /\ w.anchored))

Lines(file) == DOMAIN Source[file]

\* Brackets opened from line i to line k and not closed.
Depth(file, i, k) ==
  LET d[j \in (i - 1)..k] == IF j < i THEN 0 ELSE d[j - 1] + Source[file][j].delta
  IN  d[k]

ContinuesAfter(file, k) == k + 1 \in Lines(file) /\ Source[file][k + 1].chain

CitedWindow(site) ==
  {k \in Lines(site.file) : k - site.line \in -Window..Window}

CitedLineOnly(site) == {site.line} \cap Lines(site.file)

\* _statement_at: forward only, until the brackets balance and no chain follows.
StatementAt(site) ==
  IF site.line \notin Lines(site.file) THEN {}
  ELSE LET limit == Min({Len(Source[site.file]), site.line + StatementMax - 1})
           Ends(k) == /\ Depth(site.file, site.line, k) <= 0
                      /\ ~ContinuesAfter(site.file, k)
       IN  site.line..Min({k \in site.line..limit : Ends(k)} \cup {limit})

Claimed(row) == row.scope \in {"caller_bound", "visibility_filtered"}

\* A line 0 is no citation: the code tests it for truth.
Readable(row) ==
  /\ row.evidence.site # NoSite /\ row.evidence.site.line # 0
  /\ CitedWindow(row.evidence.site) # {}

\* C6: the recorded predicate is not in the cited window.
Miscited(row) ==
  /\ Readable(row) /\ row.evidence.text # NoText
  /\ \A k \in CitedWindow(row.evidence.site) :
       Source[row.evidence.site.file][k].text # row.evidence.text

ClaimedTextBinds(row) == row.evidence.text # NoText /\ BindsCaller(row.evidence.text)

ClaimIsBelieved(row) ==
  IF row.evidence.text # NoText THEN BindsCaller(row.evidence.text)
  ELSE Readable(row) /\ \E k \in StatementAt(row.evidence.site) :
                          BindsCaller(Source[row.evidence.site.file][k].text)

WindowBinds(row) ==
  Readable(row) /\ \E k \in CitedWindow(row.evidence.site) :
                     BindsCaller(Source[row.evidence.site.file][k].text)

\* The source at the cited line is the authority; the claim, where there is none.
PredicateBinds(row) ==
  IF Readable(row)
  THEN \E k \in StatementAt(row.evidence.site) :
         BindsCaller(Source[row.evidence.site.file][k].text)
  ELSE ClaimedTextBinds(row)

\* C5 rewrites a claim that does not stand; a role is a scope only for admins.
Effective(row) ==
  CASE Claimed(row) /\ ~PredicateBinds(row) -> "unscoped"
    [] row.scope = "role_restricted" /\ ~row.admin -> "unscoped"
    [] OTHER -> row.scope

Sensitive(row) == row.entity \notin Public /\ row.returns # "single"

GrantsByName(row) == "any"

\* postconditions_for: tags over any row take a determination.
Grants(row) == IF Effective(row) = "unscoped" THEN "any" ELSE "own"

Finding(rule, severity, row, grants) ==
  [rule |-> rule, severity |-> severity, id |-> row.id, grants |-> grants]

UnscopedSeverity(row) ==
  LET owned == row.entity \in Owned
  IN  IF Effective(row) = "unknown" THEN (IF owned THEN "MEDIUM" ELSE "LOW")
                                    ELSE (IF owned THEN "HIGH" ELSE "MEDIUM")

\* C2b: the handler computes a permission and filters nothing before the next one.
FilterMissing(file) ==
  LET marks(m) == {k \in Lines(file) : Source[file][k].mark = m}
      first == Min(marks("permission"))
      next == Min({k \in marks("handler") : k > first} \cup {Len(Source[file]) + 1})
  IN  /\ marks("permission") # {}
      /\ ~\E k \in marks("filter") : k > first /\ k < next

NeverFiltered(row) ==
  Effective(row) \notin {"caller_bound", "visibility_filtered", "public_allowlisted"}

When(condition, finding) == IF condition THEN {finding} ELSE {}

ScopeFindings(row) ==
  When(Claimed(row) /\ ~PredicateBinds(row), Finding("C5", "MEDIUM", row, "any"))
  \cup When(Sensitive(row) /\ Effective(row) \in {"unscoped", "unknown"},
            Finding("C1", UnscopedSeverity(row), row, Grants(row)))

DecorationSeverity(row) == IF NeverFiltered(row) /\ Sensitive(row) THEN "HIGH" ELSE "MEDIUM"

RowFindings(row) ==
  When(Claimed(row) /\ Miscited(row), Finding("C6", "MEDIUM", row, "none"))
  \cup ScopeFindings(row)
  \cup When(/\ ~row.decorates /\ row.scope # "public_allowlisted"
            /\ FilterMissing(row.site.file),
            Finding("C2", "MEDIUM", row, Grants(row)))
  \cup When(row.decorates /\ ~row.filters,
            Finding("C2", DecorationSeverity(row), row, Grants(row)))
  \cup When(row.coverage # "complete",
            Finding("C3", IF row.coverage = "caveat" THEN "LOW" ELSE "MEDIUM", row, "none"))
  \cup When(row.site.file \in Pinned /\ row.entity \notin Public,
            Finding("C4", "MEDIUM", row, "none"))

Findings(rows) == UNION {RowFindings(row) : row \in rows}

\* extract_candidates: one candidate per anchored line of a handler file.
Candidates ==
  UNION { {[file |-> f, line |-> k] : k \in {j \in Lines(f) : Source[f][j].text \in Anchored}} :
          f \in Handlers }

\* Evidence accounts for candidates as a row does.
Entries(rows) ==
  {row.site : row \in rows} \cup ({row.evidence.site : row \in rows} \ {NoSite})

Accounted(rows, dismissed, c) == AccountedBy(Entries(rows), dismissed, c)

Unaccounted(rows, dismissed) == {c \in Candidates : ~Accounted(rows, dismissed, c)}

CoverageFails(rows, dismissed) ==
  Unaccounted(rows, dismissed) # {} \/ \E row \in rows : row.coverage = "incomplete"
=============================================================================
