--------------------------- MODULE RedactionPipeline ---------------------------
(***************************************************************************)
(* What happens to credential material on its way through an audit: Phase  *)
(* 4 redacts the scanners' output in place and checks that it held, Phase  *)
(* 7 assembles the deliverables, gates and copies them, Phase 8 gates the  *)
(* full baseline before the pruned one is derived from it.  One scanner    *)
(* (the git-history scan) may finish at any time.                          *)
(*                                                                         *)
(* The programs are the ones in lib/: redact-scanner-output.py,            *)
(* verify-deliverable.py; the phases call them as their steps say.         *)
(***************************************************************************)
EXTENDS SecretScan

CONSTANTS
    File,           \* what scanners and reviewers write
    Late,           \* files of the long-running side task
    Own,            \* files with a hit inside the audit's own artifacts
    Reports,        \* what they may have written
    Prose,          \* texts an analyst may write
    Carried,        \* texts in the titles of the previous baseline
    MaxFaults       \* bound on crashes and failed report writes

Spot == {"content", "raw", "string", "aside"}
Kind == {"sarif", "trufflehog", "jsonl", "json", "text"}
Part == [from : File \cup {"analyst"}, spot : Spot, text : Text]

ASSUME FileAssumption == Late \subseteq File /\ Own \subseteq File
ASSUME ProseAssumption == Prose \subseteq Text /\ Carried \subseteq Text
ASSUME ReportsAssumption == Reports \subseteq
    [kind : [File -> Kind], text : [File -> [Spot -> Text]]]
ASSUME FaultsAssumption == MaxFaults \in Nat

(* A scanner writes no markers, and a hit in SARIF quotes what it matched  *)
(* (region.snippet.text, phase-04-scanners.md:110).                        *)
ASSUME FreshAssumption == \A r \in Reports : \A f \in File : \A s \in Spot :
    r.text[f][s].matches = {} \/ r.text[f][s].gone = {}
ASSUME SnippetAssumption == \A r \in Reports : \A f \in Own :
    r.kind[f] = "sarif" => ~(Position \subseteq r.text[f]["content"].gone)

VARIABLES
    kind,           \* the shape process_file sniffs in each file
    scans,          \* phase-04-scanners/: the text at each spot of a file
    landed,         \* files written so far
    unreadable,     \* files open() fails on
    temp,           \* <file>.redact.tmp, while the redactor runs
    step,           \* where the orchestrator is
    todo,           \* files the running program has yet to process
    leaks,          \* self_leak_candidates of the running redactor
    summary,        \* the same in phase-04-redaction.json
    vetted,         \* history: files the last passed --check read
    prose,          \* what analysts wrote into the findings
    copies,         \* blackboard copies of the deliverables
    unscanned,      \* files the gate cannot scan (too large)
    hits,           \* files the running gate has rows for
    marker,         \* phase-07-gate-fired.marker
    selfFinding,    \* a skill_self_leak finding was emitted
    fired,          \* history: a gate of this audit scrubbed something
    lost,           \* history: one that did ended without saying so
    full,           \* .claude-audit/baseline.json
    out,            \* <output_dir>
    faults

phase4 == <<kind, scans, landed, unreadable, temp, leaks, summary, vetted>>
phase7 == <<prose, copies, unscanned, hits, marker, selfFinding, fired, lost>>
phase8 == <<full, out>>
vars == <<phase4, step, todo, phase7, phase8, faults>>
-----------------------------------------------------------------------------
(* process_file: content fields are replaced whatever is in them, and so   *)
(* are trufflehog's own fields; other strings are scrubbed one by one; in  *)
(* SARIF only what hangs off the listed keys of a run is walked; markdown  *)
(* and text are scrubbed line by line.                                     *)
Wiped(text) == [text EXCEPT !.gone = Position]

StripAtScrubOnly(k, spot, text) ==   \* slip: content is only pattern-scrubbed
    IF k = "text" THEN ScrubLines(text) ELSE Scrub(text)

StripAt(k, spot, text) ==
    CASE k = "text"                                 -> ScrubLines(text)
      [] k # "text" /\ spot = "content"             -> Wiped(text)
      [] k \in {"trufflehog", "jsonl"} /\ spot = "raw" -> Wiped(text)
      [] k = "sarif" /\ spot = "aside"              -> text
      [] OTHER                                         -> Scrub(text)

Strip(f, parts) == [s \in Spot |-> StripAt(kind[f], s, parts[s])]

ChangesAtMarkers(f) ==  \* slip: what was redacted is flagged again
    f \notin unreadable /\ \E s \in Spot : scans[f][s].gone # {}

Changes(f) == f \notin unreadable /\ Strip(f, scans[f]) # scans[f]

(* --check over the directory: exit 0.  A file that cannot be read counts  *)
(* as unchanged.                                                           *)
CheckPasses == \A f \in landed : ~Changes(f)

(* What an analyst writes into a title or a description. *)
Quoted(t) == [from |-> "analyst", spot |-> "string", text |-> t]

SelfLeaks(f) == IF kind[f] = "sarif" /\ f \in Own THEN {f} ELSE {}
-----------------------------------------------------------------------------
Init ==
    /\ \E r \in Reports : kind = r.kind /\ scans = r.text
    /\ landed = {}
    /\ unreadable \in SUBSET File
    /\ Cardinality(unreadable) <= 1
    /\ temp = <<>>
    /\ step = "scanning"
    /\ todo = {}
    /\ leaks = {} /\ summary = {} /\ vetted = {}
    /\ prose \in Prose
    /\ copies = [d \in {"report", "sarif"} |-> {}]
    /\ unscanned \in {{}, {"sarif"}, {"baseline"}} /\ hits = {}
    /\ marker = FALSE /\ selfFinding = FALSE /\ fired = FALSE /\ lost = FALSE
    /\ \E titles \in SUBSET Carried : full = {Quoted(t) : t \in titles}
    /\ out = <<>>
    /\ faults = 0

(* A scanner writes its report; the history scan when it is ready. *)
Land(f) ==
    /\ f \notin landed
    /\ f \in Late \/ step = "scanning"
    /\ landed' = landed \cup {f}
    /\ UNCHANGED <<kind, scans, unreadable, temp, leaks, summary, vetted, step, todo,
                   phase7, phase8, faults>>

Unlock(f) ==
    /\ f \in unreadable
    /\ unreadable' = unreadable \ {f}
    /\ UNCHANGED <<kind, scans, landed, temp, leaks, summary, vetted, step, todo,
                   phase7, phase8, faults>>

(* 4.4b.  The files are collected once, at the start. *)
StartRedact ==
    /\ step = "scanning"
    /\ File \ Late \subseteq landed
    /\ step' = "redacting"
    /\ todo' = landed
    /\ leaks' = {}
    /\ UNCHANGED <<kind, scans, landed, unreadable, temp, summary, vetted, phase7,
                   phase8, faults>>

RedactWrite(f) ==
    /\ step = "redacting" /\ temp = <<>> /\ f \in todo
    /\ Changes(f)
    /\ temp' = [g \in {f} |-> Strip(f, scans[f])]
    /\ UNCHANGED <<kind, scans, landed, unreadable, leaks, summary, vetted, step, todo,
                   phase7, phase8, faults>>

RedactRename(f) ==
    /\ step = "redacting" /\ f \in todo \cap DOMAIN temp
    /\ scans' = [scans EXCEPT ![f] = temp[f]]
    /\ temp' = <<>>
    /\ todo' = todo \ {f}
    /\ leaks' = leaks \cup SelfLeaks(f)
    /\ UNCHANGED <<kind, landed, unreadable, summary, vetted, step, phase7, phase8, faults>>

RedactKeepUnlisted(f) ==    \* slip: only rewritten files are searched for hits
    /\ step = "redacting" /\ temp = <<>> /\ f \in todo
    /\ ~Changes(f)
    /\ todo' = todo \ {f}
    /\ UNCHANGED <<phase4, step, phase7, phase8, faults>>

RedactKeep(f) ==
    /\ step = "redacting" /\ temp = <<>> /\ f \in todo
    /\ ~Changes(f)
    /\ todo' = todo \ {f}
    /\ leaks' = IF f \in unreadable THEN leaks ELSE leaks \cup SelfLeaks(f)
    /\ UNCHANGED <<kind, scans, landed, unreadable, temp, summary, vetted, step, phase7,
                   phase8, faults>>

EndRedact ==
    /\ step = "redacting" /\ todo = {}
    /\ summary' = leaks
    /\ step' = "redacted"
    /\ UNCHANGED <<kind, scans, landed, unreadable, temp, leaks, vetted, todo, phase7,
                   phase8, faults>>

RecheckUnread(from, next) ==    \* slip: the exit status is not looked at
    /\ step = from
    /\ step' = next
    /\ vetted' = landed \ unreadable
    /\ UNCHANGED <<kind, scans, landed, unreadable, temp, leaks, summary, todo, phase7,
                   phase8, faults>>

Recheck(from, next) ==
    /\ step = from
    /\ IF CheckPasses
       THEN /\ step' = next
            /\ vetted' = landed \ unreadable
       ELSE /\ step' = "scanning"
            /\ vetted' = {}
    /\ UNCHANGED <<kind, scans, landed, unreadable, temp, leaks, summary, todo, phase7,
                   phase8, faults>>

(* A failed check ends the command; the phase is run again. *)
Check == Recheck("redacted", "checked")

(* 7.8.1: no SARIF is assembled until --check exits 0 once more. *)
CheckBeforeAssembly == Recheck("checked", "assembling")

(* 7.8: the report and the synthetic run quote what analysts wrote; the    *)
(* scanners' runs are copied as they are.                                  *)
Assemble ==
    LET runs == {f \in landed \ unreadable : kind[f] = "sarif"}
    IN  /\ step = "assembling"
        /\ copies' = [report |-> {Quoted(prose)},
                      sarif  |-> {Quoted(prose)} \cup
                          {[from |-> f, spot |-> s, text |-> scans[f][s]] :
                              f \in runs, s \in Spot}]
        /\ hits' = {}
        /\ todo' = DOMAIN copies
        /\ step' = "gating"
        /\ UNCHANGED <<phase4, prose, unscanned, marker, selfFinding, fired, lost, phase8,
                       faults>>
-----------------------------------------------------------------------------
(* verify-deliverable.py --redact, one deliverable at a time.  A file it   *)
(* cannot scan has a row, too.                                             *)
HasHits(parts) == \E p \in parts : Hits(p.text) # {}
Scrubbed(parts) == {[p EXCEPT !.text = Scrub(@)] : p \in parts}

GateFile(d) ==
    /\ step = "gating" /\ d \in todo
    /\ todo' = todo \ {d}
    /\ IF d \in unscanned
       THEN /\ hits' = hits \cup {d}
            /\ UNCHANGED <<copies, fired>>
       ELSE /\ copies' = [copies EXCEPT ![d] = Scrubbed(@)]
            /\ hits' = IF HasHits(copies[d]) THEN hits \cup {d} ELSE hits
            /\ fired' = (fired \/ HasHits(copies[d]))
    /\ UNCHANGED <<phase4, step, prose, unscanned, marker, selfFinding, lost, phase8, faults>>

(* What the running gate has scrubbed and not yet told anybody. *)
Untold == step \in {"gating", "weighed"} /\ hits \ unscanned # {}

(* Exit 2 when the machine report cannot be written, the files being       *)
(* scrubbed by then: the phase stops.  The gate is run again, or the phase. *)
GateCannotReport ==
    /\ step = "gating" /\ todo = {} /\ faults < MaxFaults
    /\ faults' = faults + 1
    /\ \/ step' = "gating" /\ todo' = DOMAIN copies
       \/ step' = "checked" /\ todo' = {}
    /\ hits' = {}
    /\ lost' = (lost \/ Untold)
    /\ UNCHANGED <<phase4, prose, copies, unscanned, marker, selfFinding, fired, phase8>>

GateExit ==
    /\ step = "gating" /\ todo = {}
    /\ marker' = (marker \/ hits # {})
    /\ step' = "gated"
    /\ UNCHANGED <<phase4, todo, prose, copies, unscanned, hits, selfFinding, fired, lost,
                   phase8, faults>>

CopyOut ==
    /\ step = "gated"
    /\ out' = [d \in DOMAIN out \cup DOMAIN copies |->
                  IF d \in DOMAIN copies THEN copies[d] ELSE out[d]]
    /\ step' = "copied"
    /\ UNCHANGED <<phase4, todo, phase7, full, faults>>

(* 7.10a *)
EmitSelfFinding ==
    /\ step = "copied" /\ marker
    /\ selfFinding' = TRUE
    /\ marker' = FALSE
    /\ UNCHANGED <<phase4, step, todo, prose, copies, unscanned, hits, fired, lost, phase8,
                   faults>>

FinishUnchecked ==      \* slip: nobody looks for a leftover marker
    /\ step = "copied"
    /\ step' = "reported"
    /\ UNCHANGED <<phase4, todo, phase7, phase8, faults>>

(* A leftover marker is a hard stop. *)
FinishPhase7 ==
    /\ step = "copied" /\ ~marker
    /\ step' = "reported"
    /\ UNCHANGED <<phase4, todo, phase7, phase8, faults>>
-----------------------------------------------------------------------------
(* 8.4: the titles of this run join those carried forward - from the       *)
(* findings, which no gate has seen -, the full baseline is written, gated *)
(* in place, and the pruned one derived.                                   *)
WriteBaseline ==
    /\ step = "reported"
    /\ full' = full \cup {Quoted(prose)}
    /\ step' = "baselined"
    /\ UNCHANGED <<phase4, todo, phase7, out, faults>>

PruneThenGate ==        \* slip: the pruned baseline is derived before the gate
    /\ step = "baselined"
    /\ out' = [d \in DOMAIN out \cup {"baseline"} |->
                  IF d = "baseline" THEN full ELSE out[d]]
    /\ full' = Scrubbed(full)
    /\ step' = "done"
    /\ UNCHANGED <<phase4, todo, phase7, faults>>

GateBaseline ==
    /\ step = "baselined"
    /\ step' = "weighed"
    /\ IF "baseline" \in unscanned
       THEN /\ hits' = {"baseline"}
            /\ UNCHANGED <<full, fired>>
       ELSE /\ full' = Scrubbed(full)
            /\ hits' = IF HasHits(full) THEN {"baseline"} ELSE {}
            /\ fired' = (fired \/ HasHits(full))
    /\ UNCHANGED <<phase4, todo, prose, copies, unscanned, marker, selfFinding, lost, out,
                   faults>>

(* Exit 2: the phase stops, and the gate is run again, or the phase. *)
BaselineCannotReport ==
    /\ step = "weighed" /\ faults < MaxFaults
    /\ faults' = faults + 1
    /\ step' \in {"baselined", "reported"}
    /\ hits' = {}
    /\ lost' = (lost \/ Untold)
    /\ UNCHANGED <<phase4, todo, prose, copies, unscanned, marker, selfFinding, fired, phase8>>

BaselineGateClean ==
    /\ step = "weighed" /\ hits = {}
    /\ step' = "pruning"
    /\ UNCHANGED <<phase4, todo, phase7, phase8, faults>>

(* Exit 3 owes the finding of 7.10a; nothing but the prose says so here.   *)
EmitBaselineFinding ==
    /\ step = "weighed" /\ hits # {}
    /\ selfFinding' = TRUE
    /\ hits' = {}
    /\ step' = "pruning"
    /\ UNCHANGED <<phase4, todo, prose, copies, unscanned, marker, fired, lost, phase8, faults>>

WritePruned ==
    /\ step = "pruning"
    /\ out' = [d \in DOMAIN out \cup {"baseline"} |->
                  IF d = "baseline" THEN full ELSE out[d]]
    /\ step' = "done"
    /\ UNCHANGED <<phase4, todo, phase7, full, faults>>
-----------------------------------------------------------------------------
(* The session dies and is resumed at the phase that has no .done marker.  *)
(* What is on disk stays; nobody reads the temp file that may be left:     *)
(* _collect passes it over and the next redaction truncates it.            *)
ResumeAt ==
    CASE step \in {"scanning", "redacting", "redacted"} -> "scanning"
      [] step \in {"checked", "assembling", "gating",
                   "gated", "copied"}                   -> "checked"
      [] step \in {"reported", "baselined", "weighed",
                   "pruning"}                           -> "reported"

CrashMidList ==      \* slip: the list of files to process survives
    /\ step \notin {"scanning", "done"} /\ faults < MaxFaults
    /\ faults' = faults + 1
    /\ step' = ResumeAt
    /\ temp' = <<>>
    /\ leaks' = {}
    /\ hits' = {}
    /\ UNCHANGED <<todo, kind, scans, landed, unreadable, summary, vetted, prose, copies, unscanned,
                   marker, selfFinding, fired, lost, phase8>>

Crash ==
    /\ step \notin {"scanning", "done"} /\ faults < MaxFaults
    /\ faults' = faults + 1
    /\ step' = ResumeAt
    /\ todo' = {}
    /\ temp' = <<>>
    /\ leaks' = {}
    /\ hits' = {}
    /\ lost' = (lost \/ Untold)
    /\ UNCHANGED <<kind, scans, landed, unreadable, summary, vetted, prose, copies, unscanned,
                   marker, selfFinding, fired, phase8>>

Redact == StartRedact \/ (\E f \in File : RedactWrite(f) \/ RedactRename(f)
                                          \/ RedactKeep(f)) \/ EndRedact
Advance ==
    \/ Redact \/ Check \/ CheckBeforeAssembly
    \/ Assemble
    \/ (\E d \in DOMAIN copies : GateFile(d)) \/ GateExit \/ CopyOut
    \/ EmitSelfFinding \/ FinishPhase7
    \/ WriteBaseline \/ GateBaseline \/ BaselineGateClean \/ EmitBaselineFinding
    \/ WritePruned

Next ==
    \/ Advance
    \/ \E f \in File : Land(f) \/ Unlock(f)
    \/ GateCannotReport \/ BaselineCannotReport
    \/ Crash

(* The orchestrator goes on, and every scanner it waits for writes its     *)
(* report or is killed by its timeout.  Nothing else is assumed.           *)
Fairness == /\ WF_vars(Advance)
            /\ \A f \in File \ Late : WF_vars(Land(f))

Spec == Init /\ [][Next]_vars
FairSpec == Spec /\ Fairness
-----------------------------------------------------------------------------
TypeOK ==
    /\ kind \in [File -> Kind] /\ scans \in [File -> [Spot -> Text]]
    /\ landed \subseteq File /\ unreadable \subseteq File /\ vetted \subseteq File
    /\ DOMAIN temp \subseteq File
    /\ \A f \in DOMAIN temp : temp[f] \in [Spot -> Text]
    /\ step \in {"scanning", "redacting", "redacted", "checked", "assembling",
                 "gating", "gated", "copied", "reported", "baselined", "weighed",
                 "pruning", "done"}
    /\ leaks \subseteq File /\ summary \subseteq File /\ prose \in Text
    /\ copies \in [{"report", "sarif"} -> SUBSET Part]
    /\ unscanned \subseteq DOMAIN copies \cup {"baseline"}
    /\ hits \subseteq DOMAIN copies \cup {"baseline"}
    /\ todo \subseteq (IF step = "gating" THEN DOMAIN copies ELSE File)
    /\ marker \in BOOLEAN /\ selfFinding \in BOOLEAN
    /\ fired \in BOOLEAN /\ lost \in BOOLEAN
    /\ full \subseteq Part
    /\ DOMAIN out \subseteq {"report", "sarif", "baseline"}
    /\ \A d \in DOMAIN out : out[d] \subseteq Part
    /\ faults \in 0..MaxFaults

(* Nothing the detectors know reaches <output_dir>, over crashes, late     *)
(* scans, quoting analysts and a baseline that already held some - except  *)
(* in a file the gate could not scan (secret-redaction.md, layer 2).       *)
DeliveredIsClean ==
    \A d \in DOMAIN out : d \in unscanned \/ ~HasHits(out[d])

(* The structural strip needs no detector: of a scanner file the last      *)
(* check read, no content field reaches a deliverable.  What landed or     *)
(* became readable after that check is all that can (layer 1).             *)
ContentOnlyUnvetted ==
    step \in {"gating", "gated", "copied", "reported", "baselined", "weighed", "pruning",
              "done"} =>
    \A d \in DOMAIN copies : \A p \in copies[d] :
        p.spot = "content" /\ p.from \in vetted => Position \subseteq p.text.gone

(* What stays of a known credential in a checked report: the tail of a     *)
(* match that began inside one that begins earlier, or a match over        *)
(* several lines of a text scrubbed by the line.  Nothing else, and of the *)
(* fields that are known to hold one nothing at all.                       *)
LeftoverExplained ==
    step \notin {"scanning", "redacting", "redacted"} => \A f \in vetted :
        /\ kind[f] \in {"trufflehog", "jsonl"} => scans[f]["raw"].gone = Position
        /\ \A s \in Spot \ {"aside"} : \A m \in scans[f][s].matches :
              \/ Span(m) \subseteq scans[f][s].gone
              \/ kind[f] = "text" /\ ~OneLine(m)
              \/ \E n \in scans[f][s].matches \ {m} :
                    /\ Before(n, m) /\ Overlap(n, m)
                    /\ Span(n) \subseteq scans[f][s].gone

(* Phase 4 promises a row for every report with a hit in the audit's own   *)
(* artifacts (phase-04-scanners.md 4.4c), also when an earlier, cut-off    *)
(* run redacted the file and when it landed after the redactor started.    *)
SelfLeaksListed ==
    step \in {"checked", "assembling"} =>
        \A f \in vetted \cap Own : kind[f] = "sarif" => f \in summary

(* Redacting twice is redacting once, so the check never keeps a clean     *)
(* directory from going on (redact-scanner-output.py:127-129): every audit *)
(* ends.                                                                   *)
Completes == <>(step = "done")

(* What a gate of this audit scrubbed, from the deliverables or from the   *)
(* baseline, ends in a CRITICAL finding, over crashes and repeated gates   *)
(* (phase-07-synthesis.md:1249-1251, phase-08-baseline.md:184-185) -       *)
(* unless a gate ended between its scrub and its report: cut off, or       *)
(* unable to write it.  From its exit status on a firing is safe.          *)
FiringReported == step = "done" /\ fired => selfFinding \/ lost
-----------------------------------------------------------------------------
(* Statements the repository makes of this program.                        *)

(* verify-deliverable.py:49-51: what the gate scrubs forces a CRITICAL     *)
(* finding into the report.                                                *)
EveryFiringReported == step = "done" /\ fired => selfFinding
==============================================================================
