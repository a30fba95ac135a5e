---------------------- MODULE CollectionReconciliation ----------------------
(***************************************************************************)
(* Phase 2 section 2.12 and Phase 6 section 6.20: agents inventory the     *)
(* collections that the handlers return; the gate of                       *)
(* validate-collection-scoping.py sends an incomplete inventory back, and  *)
(* leaves its verdict in the findings file and in a sidecar beside it.     *)
(***************************************************************************)
EXTENDS CollectionRules

CONSTANTS Collections,  \* what the code returns: [id, site, entity, returns, bound, ...]
          Claims,       \* collection -> the [scope, evidence] pairs an agent may record
          MaxCrashes,   \* bound on the restarts of the phase
  MaxRefuted    \* bound on the deficits a probe refutes

\* The scopes a row may claim; the evidence of a claim is a citation, a quoted
\* text, both or neither.
Scopes == {"caller_bound", "visibility_filtered", "role_restricted",
           "public_allowlisted", "unscoped", "unknown"}
Site == [file : DOMAIN Source, line : Int]

ASSUME InventoryAssumption ==
  /\ \A c \in Collections : c.site \in Site
  /\ \A c, d \in Collections : c.id = d.id => c = d
  /\ \A c \in Collections : \A claim \in Claims[c] :
       /\ claim.scope \in Scopes
       /\ claim.evidence \in [site : Site \cup {NoSite}, text : DOMAIN Words \cup {NoText}]
  /\ NoSite \notin Site /\ NoText \notin DOMAIN Words
  /\ MaxCrashes \in Nat

VARIABLES
  rows,       \* collections[] of phase-02-collections.json
  dismissed,  \* dismissed[] of the same file
  owed,       \* the sites the last failed gate listed, still to be answered
  status,     \* "inventory", "gate", "sidecar", "probing" or "done"
  output,     \* phase-06-collections.jsonl: the findings and the stamp on each
  sidecar,    \* phase-06-collections.jsonl.incomplete is there
  crashes

vars == <<rows, dismissed, owed, status, output, sidecar, crashes>>

Init ==
  /\ rows = {} /\ dismissed = {} /\ owed = {}
  /\ status = "inventory"
  /\ output = [findings |-> {}, stamp |-> "none"]
  /\ sidecar = FALSE
  /\ crashes = 0

\* A collections[] row: the facts of the handler and a claim about its row scope.
Row(c, claim, coverage) ==
  [id |-> c.id, site |-> c.site, entity |-> c.entity, returns |-> c.returns,
   admin |-> c.admin, decorates |-> c.decorates, filters |-> c.filters,
   scope |-> claim.scope, evidence |-> claim.evidence, coverage |-> coverage]

RecordedWhole(c) == {row \in rows : row.id = c.id /\ row.coverage # "incomplete"}

Recorded(c) == {row \in rows : row.id = c.id}

\* A handler that was sent back is read again, or split.
CoverageNow(claim) ==
  IF owed = {} /\ claim.scope = "unknown" THEN {"complete", "incomplete", "caveat"}
                                          ELSE {"complete"}

Record(c, claim, coverage) ==
  /\ status = "inventory" /\ coverage \in CoverageNow(claim)
  /\ c.site \in owed \/ (owed = {} /\ Recorded(c) = {})
  /\ rows' = (rows \ Recorded(c)) \cup {Row(c, claim, coverage)}
  /\ owed' = owed \ {c.site}
  /\ UNCHANGED <<dismissed, status, output, sidecar, crashes>>

Dismiss(c) ==
  /\ status = "inventory"
  /\ \A k \in Collections : k.site = c => Recorded(k) = {}
  /\ c \in owed \/ (owed = {} /\ ~Accounted(rows, dismissed, c))
  /\ dismissed' = dismissed \cup {c}
  /\ owed' = owed \ {c}
  /\ UNCHANGED <<rows, status, output, sidecar, crashes>>

HandOver ==
  /\ status = "inventory" /\ owed = {}
  /\ status' = "gate"
  /\ UNCHANGED <<rows, dismissed, owed, output, sidecar, crashes>>

\* The rows carry the stamp: with no finding to write there is none to read.
Stamp ==
  CASE Findings(rows) = {} -> "blank"
    [] CoverageFails(rows, dismissed) -> "failed"
    [] OTHER -> "passed"

\* main: the findings are written and stamped whatever the coverage says.
Gate ==
  /\ status = "gate"
  /\ output' = [findings |-> Findings(rows), stamp |-> Stamp]
  /\ status' = "sidecar"
  /\ UNCHANGED <<rows, dismissed, owed, sidecar, crashes>>

SidecarByTheStamp == sidecar' = (output.stamp = "failed")

\* The sidecar of an earlier failing run goes with a clean one, if it can be
\* removed: that it cannot be is no error.
MarkIncomplete ==
  \/ CoverageFails(rows, dismissed) /\ sidecar' = TRUE
  \/ ~CoverageFails(rows, dismissed) /\ sidecar' \in {FALSE, sidecar}

\* ... and then the exit status sends the audit back to section 2.12, or on.
Conclude ==
  /\ status = "sidecar"
  /\ MarkIncomplete
  /\ owed' = Unaccounted(rows, dismissed)
             \cup {row.site : row \in {r \in rows : r.coverage = "incomplete"}}
  /\ status' = IF CoverageFails(rows, dismissed) THEN "inventory" ELSE "probing"
  /\ UNCHANGED <<rows, dismissed, output, crashes>>

\* Step 2: each C1 or C2 deficit is attacked; a refuted one becomes INFO.
Probe ==
  /\ status = "probing"
  /\ \E refuted \in SUBSET {f \in output.findings : f.rule \in {"C1", "C2"}} :
       /\ Cardinality(refuted) <= MaxRefuted
       /\ output' = [output EXCEPT !.findings =
                       (@ \ refuted) \cup {[f EXCEPT !.severity = "INFO"] : f \in refuted}]
  /\ status' = "done"
  /\ UNCHANGED <<rows, dismissed, owed, sidecar, crashes>>

\* Without phase-06.done the phase starts over; the files stay as they are.
Crash ==
  /\ status \in {"sidecar", "probing"} /\ crashes < MaxCrashes
  /\ status' = "gate"
  /\ crashes' = crashes + 1
  /\ UNCHANGED <<rows, dismissed, owed, output, sidecar>>

Answer ==
  \/ \E c \in Collections : \E claim \in Claims[c] : \E v \in CoverageNow(claim) :
       Record(c, claim, v)
  \/ \E c \in Candidates : Dismiss(c)

Next == Answer \/ HandOver \/ Gate \/ Conclude \/ Probe \/ Crash

Spec == Init /\ [][Next]_vars
             /\ WF_vars(owed # {} /\ Answer) /\ WF_vars(HandOver)
             /\ WF_vars(Gate) /\ WF_vars(Conclude) /\ WF_vars(Probe)

-----------------------------------------------------------------------------
TypeOK ==
  /\ \A row \in rows : row.id \in {c.id : c \in Collections}
  /\ \A r1, r2 \in rows : r1.id = r2.id => r1 = r2
  /\ dismissed \cup owed \subseteq Candidates \cup {c.site : c \in Collections}
  /\ status \in {"inventory", "gate", "sidecar", "probing", "done"}
  /\ output.stamp \in {"none", "blank", "failed", "passed"}
  /\ sidecar \in BOOLEAN
  /\ crashes \in 0..MaxCrashes

\* The statement the cited line really belongs to binds the caller.
CitesBinding(site) ==
  \E k \in Lines(site.file) :
    /\ site.line \in Lines(site.file)
    /\ Source[site.file][k].statement = Source[site.file][site.line].statement
    /\ BindsCaller(Source[site.file][k].text)

\* When the phase is over, a list that really returns other principals' rows of
\* an entity that is not public has its C1 finding, or was kept out of it by one
\* of the inventory's claims: an allowlisted entity, an admin role, a citation of
\* some statement that does bind the caller, a claim with no readable citation;
\* or it is no row and its line is covered (validate-collection-scoping.py:964-1079).
GapsExplained ==
  status = "done" =>
    \A c \in Collections :
      (~c.bound /\ c.entity \notin Public /\ c.returns # "single")
      => \/ \E f \in output.findings : f.id = c.id /\ f.rule = "C1"
         \/ /\ Recorded(c) = {}
            /\ c.site \in Candidates => Accounted(rows, dismissed, c.site)
         \/ \E row \in Recorded(c) :
              \/ row.scope = "public_allowlisted"
              \/ row.scope = "role_restricted" /\ row.admin
              \/ Claimed(row) /\ ~Readable(row) /\ ClaimedTextBinds(row)
              \/ Claimed(row) /\ Readable(row) /\ CitesBinding(row.evidence.site)

\* What the inventory says a predicate reads changes nothing about a row whose
\* citation can be read: no other claimed text gains or loses a C1 or a C5
\* (validate-collection-scoping.py:1016-1018).
SourceIsTheAuthority ==
  status = "gate" =>
    \A row \in {r \in rows : Readable(r)} :
      LET found == ScopeFindings(row)
      IN  \A t \in DOMAIN Words : ScopeFindings([row EXCEPT !.evidence.text = t]) = found

\* A finding grants an attacker any principal's rows of a list that is really
\* bound to its caller only if the inventory disowns the scope, or claims it
\* without citing the line where the query starts
\* (validate-collection-scoping.py:882-908).
TagsAreEarned ==
  \A f \in output.findings : \A c \in Collections :
    (f.id = c.id /\ f.grants = "any" /\ c.bound /\ status = "done") =>
      \E row \in Recorded(c) :
        \/ row.scope = "unscoped"
        \/ row.scope = "role_restricted" /\ ~row.admin
        \/ Claimed(row) /\ row.evidence.site # c.site

\* At rest, findings with no sidecar beside them are those of a complete inventory
\* that the gate let through, also where there was no finding to stamp; a stale
\* sidecar may lie beside complete ones (validate-collection-scoping.py:1500-1525).
IncompleteIsMarked ==
  (output.stamp # "none" /\ ~sidecar /\ status \in {"inventory", "probing", "done"})
    => status # "inventory" /\ output.stamp # "failed" /\ ~CoverageFails(rows, dismissed)

\* Agents that answer what the coverage gate lists get past it, whatever restarts
\* come between (phase-06-config.md:533-534).
ScopingSettles == <>(status = "done")
=============================================================================
