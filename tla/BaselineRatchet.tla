---------------------------- MODULE BaselineRatchet ----------------------------
(***************************************************************************)
(* Audit after audit of one file: code is edited between audits, an audit  *)
(* reports what it finds, Phase 7 runs the severity gate until nothing     *)
(* escalates, people answer governance failures, and Phase 8 writes the    *)
(* baseline the next audit is held to - the full one in the blackboard,    *)
(* then the pruned one that is checked in.                                 *)
(*                                                                         *)
(* One audit a day: `run` is both the run id and the date.                 *)
(***************************************************************************)
EXTENDS Governance

CONSTANTS
    Ratings,            \* severities an analyst assigns
    Chainable,          \* issues some attack chain may run through
    Remedies,           \* lifecycle records people write
    OwnDates,           \* dates of first sight a finding may state, 0 for none
    FirstBaselines,     \* baselines an earlier version may have left
    Faults,             \* of {"abort", "clone"}: what else happens
    MaxRuns             \* bound on the audits

VARIABLES
    place,              \* the code: line of each issue still in it
    edits,              \* the code: lines changed since full was written
    full,               \* .claude-audit/baseline.json
    pruned,             \* <output_dir>/security-audit-baseline.json
    run,                \* the current audit
    findings,           \* its findings, as last loaded or rewritten
    chained,            \* issues on a live attack chain in this audit
    diffForm,           \* what --changed-files is given
    summary,            \* phase-07-severity-gate.json of this audit
    phase,
    oldest              \* history: since when a line's entry has stood

auditVars == <<run, findings, chained, diffForm, summary, phase>>
vars == <<place, edits, full, pruned, auditVars, oldest>>

Entry == [issue : Issue, lined : BOOLEAN, severity : Sev, firstSeen : Nat,
          history : SUBSET HistoryEntry, lifecycle : Lifecycle]

Partial(S, T) == UNION {[D -> T] : D \in SUBSET S}

NoBaseline == [created |-> 0, entries |-> <<>>]
Open == [state |-> "open", owned |-> FALSE, expiry |-> "absent", until |-> 0,
         fixCommit |-> FALSE, tested |-> FALSE]

(* What an earlier audit left names no audit to come. *)
ASSUME BaselineAssumption ==
    \A b \in FirstBaselines :
        /\ b.created \in 0 .. MaxRuns
        /\ DOMAIN b.entries \subseteq Line
        /\ \A l \in DOMAIN b.entries :
              /\ b.entries[l] \in Entry /\ b.entries[l].firstSeen <= b.created
              /\ \A h \in b.entries[l].history : h.run <= b.created
ASSUME InputAssumption ==
    /\ MaxRuns \in Nat /\ Ratings \subseteq Sev /\ Chainable \subseteq Issue
    /\ Remedies \subseteq Lifecycle /\ OwnDates \subseteq Nat

Diff == [form |-> diffForm, lines |-> edits]
-----------------------------------------------------------------------------
Init ==
    /\ place \in {p \in [Issue -> Line] : \A i, k \in Issue : i # k => p[i] # p[k]}
    /\ edits = {}
    /\ full \in FirstBaselines
    /\ \A l \in DOMAIN full.entries : place[full.entries[l].issue] = l
    /\ pruned = full
    /\ run = full.created
    /\ findings = <<>>
    /\ chained = {}
    /\ diffForm = "omitted"
    /\ summary = "missing"
    /\ phase = "idle"
    /\ oldest = [l \in DOMAIN full.entries |-> full.entries[l].firstSeen]

(* An import above line n moves what is at or below it; git diff names n. *)
InsertAbove(n) ==
    LET shift(x) == IF x >= n THEN x + 1 ELSE x
    IN  /\ phase = "idle" /\ run < MaxRuns
        /\ \A i \in DOMAIN place : shift(place[i]) <= LastLine
        /\ place' = [i \in DOMAIN place |-> shift(place[i])]
        /\ edits' = {n} \cup ({shift(x) : x \in edits} \cap Line)
        /\ UNCHANGED <<full, pruned, auditVars, oldest>>

Mend(i) ==
    /\ phase = "idle" /\ run < MaxRuns
    /\ i \in DOMAIN place
    /\ place' = [k \in DOMAIN place \ {i} |-> place[k]]
    /\ edits' = edits \cup {place[i]}
    /\ UNCHANGED <<full, pruned, auditVars, oldest>>

(* An audit starts with an empty current/ and reports what it happens to   *)
(* find, rated afresh; a finding may state since when it is known.  One    *)
(* carried over from the baseline brings its entry's date, history and     *)
(* lifecycle along.                                                        *)
StartAudit(reported, rating, stated, carry, chain, form) ==
    LET known(i) == carry /\ place[i] \in DOMAIN full.entries
    IN  /\ phase = "idle"
        /\ run < MaxRuns
        /\ run' = run + 1
        /\ findings' = [i \in reported |->
              [line      |-> place[i],
               severity  |-> rating[i],
               firstSeen |-> IF known(i) THEN full.entries[place[i]].firstSeen ELSE stated[i],
               history   |-> IF known(i) THEN full.entries[place[i]].history ELSE {},
               lifecycle |-> IF known(i) THEN full.entries[place[i]].lifecycle ELSE Open]]
        /\ chained' = chain
        /\ diffForm' = form
        /\ summary' = "missing"
        /\ phase' = "gate"
        /\ UNCHANGED <<place, edits, full, pruned, oldest>>

(* The gate.  Governance judges the severities it loaded; the rewrite then *)
(* raises what the composition rules demand, and such a run is followed by *)
(* another.  A run that raises an exception exits 1 as well, with nothing  *)
(* written.                                                                *)
Escalated == {i \in DOMAIN findings \cap chained : findings[i].severity < CRITICAL}

RunGateTwoUp ==         \* slip: raises by two steps, not to CRITICAL
    /\ phase = "gate"
    /\ ~Raises(findings)
    /\ findings' = [i \in DOMAIN findings |->
          IF i \in Escalated THEN [findings[i] EXCEPT !.severity = @ + 2]
                             ELSE findings[i]]
    /\ summary' = IF Objections(findings, full, Diff, run, run) = {}
                  THEN "clean" ELSE "blocking"
    /\ phase' = IF Escalated = {} THEN "judged" ELSE "gate"
    /\ UNCHANGED <<place, edits, full, pruned, run, chained, diffForm, oldest>>

RunGateOnce ==          \* slip: the rewritten file is not judged again
    /\ phase = "gate"
    /\ ~Raises(findings)
    /\ findings' = [i \in DOMAIN findings |->
          IF i \in Escalated THEN [findings[i] EXCEPT !.severity = CRITICAL]
                             ELSE findings[i]]
    /\ summary' = IF Objections(findings, full, Diff, run, run) = {}
                  THEN "clean" ELSE "blocking"
    /\ phase' = "judged"
    /\ UNCHANGED <<place, edits, full, pruned, run, chained, diffForm, oldest>>

RunGate ==
    /\ phase = "gate"
    /\ ~Raises(findings)
    /\ findings' = [i \in DOMAIN findings |->
          IF i \notin Escalated THEN findings[i]
          ELSE [findings[i] EXCEPT
                  !.severity = CRITICAL,
                  !.history = @ \cup {[run |-> run, severity |-> CRITICAL,
                                       sound |-> FALSE]}]]
    /\ summary' = IF Objections(findings, full, Diff, run, run) = {}
                  THEN "clean" ELSE "blocking"
    /\ phase' = IF Escalated = {} THEN "judged" ELSE "gate"
    /\ UNCHANGED <<place, edits, full, pruned, run, chained, diffForm, oldest>>

GateRaises ==
    /\ phase = "gate"
    /\ Raises(findings)
    /\ phase' = "judged"
    /\ UNCHANGED <<place, edits, full, pruned, run, findings, chained, diffForm,
                   summary, oldest>>

(* What people do about a governance failure; the gate then runs again. *)
RecordReason(i) ==
    /\ phase = "judged" /\ summary = "blocking"
    /\ findings' = [findings EXCEPT ![i].history =
          @ \cup {[run |-> run, severity |-> findings[i].severity, sound |-> TRUE]}]
    /\ phase' = "gate"
    /\ UNCHANGED <<place, edits, full, pruned, run, chained, diffForm, summary,
                   oldest>>

Remedy(i, lc) ==
    /\ phase = "judged" /\ summary = "blocking"
    /\ findings' = [findings EXCEPT ![i].lifecycle = lc]
    /\ phase' = "gate"
    /\ UNCHANGED <<place, edits, full, pruned, run, chained, diffForm, summary,
                   oldest>>

(* Nothing reads current/ again before the next preflight rotates it. *)
EndAudit ==
    /\ phase' = "idle"
    /\ findings' = <<>>
    /\ chained' = {}
    /\ diffForm' = "omitted"
    /\ summary' = "missing"

(* Phase 8.  Gate 4 reads governance_blocking from the summary and takes a *)
(* missing file for 0.                                                     *)
SkipPhase8 ==
    /\ phase = "judged" /\ summary = "blocking"
    /\ EndAudit
    /\ UNCHANGED <<place, edits, full, pruned, run, oldest>>

FindingAt(l) == CHOOSE i \in DOMAIN findings : findings[i].line = l

CarriedEntryFresh(l) ==     \* slip: first_seen_at is stamped anew
    LET f == findings[FindingAt(l)]
    IN  [issue |-> FindingAt(l), lined |-> TRUE, severity |-> f.severity,
         firstSeen |-> run, history |-> f.history, lifecycle |-> f.lifecycle]

CarriedEntry(l) ==
    LET i == FindingAt(l)
        f == findings[i]
    IN  IF l \in DOMAIN full.entries
        THEN LET prior == full.entries[l]
             IN  [issue |-> i, lined |-> TRUE, severity |-> f.severity,
                  firstSeen |-> prior.firstSeen,
                  history   |-> prior.history \cup f.history,
                  lifecycle |-> IF f.lifecycle = Open THEN prior.lifecycle
                                                      ELSE f.lifecycle]
        ELSE [issue |-> i, lined |-> TRUE, severity |-> f.severity,
              firstSeen |-> run, history |-> f.history, lifecycle |-> f.lifecycle]

WriteFull ==
    LET lines == {findings[i].line : i \in DOMAIN findings}
    IN  /\ phase = "judged" /\ summary # "blocking"
        /\ full' = [created |-> run, entries |-> [l \in lines |-> CarriedEntry(l)]]
        /\ edits' = {}
        /\ oldest' = [l \in lines |->
              IF l \in DOMAIN full.entries /\ full.entries[l].issue = FindingAt(l)
              THEN oldest[l] ELSE run]
        /\ phase' = "pruning"
        /\ UNCHANGED <<place, pruned, run, findings, chained, diffForm, summary>>

WritePruned ==
    /\ phase = "pruning"
    /\ pruned' = full
    /\ EndAudit
    /\ UNCHANGED <<place, edits, full, run, oldest>>

(* The session ends where it stands. *)
Abort ==
    /\ "abort" \in Faults
    /\ phase # "idle"
    /\ EndAudit
    /\ UNCHANGED <<place, edits, full, pruned, run, oldest>>

(* .claude-audit/ is not under version control. *)
FreshClone ==
    /\ "clone" \in Faults
    /\ phase = "idle" /\ full # NoBaseline
    /\ full' = NoBaseline
    /\ edits' = {}
    /\ oldest' = <<>>
    /\ UNCHANGED <<place, pruned, auditVars>>

Next ==
    \/ \E n \in Line : InsertAbove(n)
    \/ \E i \in Issue : Mend(i)
    \/ \E reported \in SUBSET DOMAIN place : \E rating \in [reported -> Ratings] :
         \E stated \in [reported -> OwnDates],
            carry \in BOOLEAN, chain \in SUBSET (reported \cap Chainable),
            form \in {"omitted", "path", "ranges"} :
            StartAudit(reported, rating, stated, carry, chain, form)
    \/ RunGate
    \/ GateRaises
    \/ \E i \in DOMAIN findings : RecordReason(i)
    \/ \E i \in DOMAIN findings, lc \in Remedies : Remedy(i, lc)
    \/ SkipPhase8
    \/ WriteFull
    \/ WritePruned
    \/ Abort
    \/ FreshClone

Spec == Init /\ [][Next]_vars
-----------------------------------------------------------------------------
TypeOK ==
    /\ place \in Partial(Issue, Line)
    /\ edits \subseteq Line
    /\ \A b \in {full, pruned} : /\ b.created \in Nat
                                 /\ DOMAIN b.entries \subseteq Line
                                 /\ \A l \in DOMAIN b.entries : b.entries[l] \in Entry
    /\ run \in 0..MaxRuns
    /\ DOMAIN findings \subseteq Issue
    /\ \A i \in DOMAIN findings :
          findings[i] \in [line : Line, severity : Sev, firstSeen : Nat,
                           history : SUBSET HistoryEntry, lifecycle : Lifecycle]
    /\ chained \subseteq Issue
    /\ diffForm \in {"omitted", "path", "ranges"}
    /\ summary \in {"missing", "clean", "blocking"}
    /\ phase \in {"idle", "gate", "judged", "pruning"}
    /\ DOMAIN oldest = DOMAIN full.entries
    /\ \A l \in DOMAIN oldest : oldest[l] \in Nat
-----------------------------------------------------------------------------
(* A downgrade of entry e to entry e2 that a reason recorded since then,   *)
(* for the new severity, licenses.                                         *)
Licensed(e, e2) == \/ e2.severity >= e.severity
                   \/ \E h \in e2.history \ e.history :
                         h.sound /\ h.severity = e2.severity

(* The ratchet, across any number of audits, failed audits and re-runs: in *)
(* a new baseline an entry keeps its severity or carries a new reason for  *)
(* the lower one, and a HIGH entry leaves only if the run was told of a    *)
(* change near it (of any change, if it names no line), or another entry   *)
(* within the drift window took it over at its severity                    *)
(* (phase-08-baseline.md 8.1).                                             *)
RatchetHolds ==
    [][full' # full /\ full' # NoBaseline => \A l \in DOMAIN full.entries :
          LET e == full.entries[l]
          IN  \/ /\ l \in DOMAIN full'.entries
                 /\ Licensed(e, full'.entries[l])
              \/ /\ l \notin DOMAIN full'.entries
                 /\ \/ e.severity < HIGH
                    \/ diffForm = "path" /\ edits # {}
                    \/ /\ diffForm = "ranges"
                       /\ \E x \in edits : e.lined => Dist(x, l) <= RangeTolerance
                    \/ \E k \in DOMAIN full'.entries :
                         /\ k \notin DOMAIN full.entries
                         /\ Dist(k, l) <= DriftTolerance
                         /\ Licensed(e, full'.entries[k])]_full

(* Nothing HIGH is written to the baseline that is older than MaxAge and   *)
(* has neither a fix nor a live, owned acceptance.  Its age counts from    *)
(* the date its finding states of itself, as L1 reads it - a later date    *)
(* there does start the clock anew - and otherwise from since when an      *)
(* entry of that issue has stood at its line, whatever was written between *)
(* (L1; Phase 8 carries first_seen_at forward).  Only a gate that raises   *)
(* an exception lets such an entry through.                                *)
NothingRots ==
    [][full' # full => \A l \in DOMAIN full'.entries :
          LET e     == full'.entries[l]
              own   == findings[FindingAt(l)].firstSeen
              since == IF own # 0 THEN own ELSE oldest'[l]
          IN  /\ e.severity >= HIGH /\ e.issue \notin Heuristic
              /\ run - since > MaxAge
              => \/ e.lifecycle.fixCommit
                 \/ Accepted(e.lifecycle, run)
                 \/ Raises(findings)]_full

(* What Phase 8 writes is what the gate passed: judged once more, at the   *)
(* severities it is written with, it draws no objection - although the     *)
(* summary Phase 8 reads may come from an earlier gate run, and the gate   *)
(* judges severities before it raises them.  Only a gate that raises an    *)
(* exception lets anything else through.                                   *)
PersistedWasJudged ==
    [][full' # full /\ full' # NoBaseline =>
          \/ Objections(findings, full, Diff, run, run) = {}
          \/ Raises(findings)]_full
-----------------------------------------------------------------------------
(* Statements the repository makes of this program.                        *)

(* phase-07-synthesis.md:718-722: a run that carries a governance failure  *)
(* writes no baseline; a downgrade cannot be laundered by re-running.      *)
NotLaundered ==
    [][full' # full => \A l \in DOMAIN full.entries \cap DOMAIN full'.entries :
          full'.entries[l].issue = full.entries[l].issue
          => Licensed(full.entries[l], full'.entries[l])]_full

=============================================================================
