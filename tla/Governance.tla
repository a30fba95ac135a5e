------------------------------ MODULE Governance ------------------------------
(***************************************************************************)
(* governance_checks of compose-attack-paths.py: how a run's findings are  *)
(* matched to the entries of the last baseline, and which rules (R4, L1,   *)
(* L2, L3 and the disappearance sweep) object.                             *)
(*                                                                         *)
(* All findings are of one file and one CWE, so that a fingerprint is the  *)
(* line.  F is the run's findings, one per reported issue; base is a       *)
(* baseline; diff is what --changed-files says of the file.                *)
(***************************************************************************)
EXTENDS Integers, FiniteSets

CONSTANTS
    Issue,              \* the defects of the file, numbered in findings order
    LastLine,           \* bound: the file's last line
    Alike,              \* _title_sim of two issues' titles, 0 below the floor
    DriftTolerance,     \* _FP_LINE_TOLERANCE
    RangeTolerance,     \* _RANGE_TOLERANCE
    MaxAge,             \* --max-age-days
    Heuristic,          \* issues whose evidence class the L1 gate skips
    StrictClosure       \* --strict-closure

ASSUME GovernanceAssumption ==
    /\ Issue \subseteq Nat \ {0} /\ IsFiniteSet(Issue)
    /\ LastLine \in Nat
    /\ Alike \in [Issue -> [Issue -> Nat]]
    /\ DriftTolerance \in Nat /\ RangeTolerance \in Nat /\ MaxAge \in Nat
    /\ Heuristic \subseteq Issue
    /\ StrictClosure \in BOOLEAN

Line == 1..LastLine
NoLine == 0

Sev == 0..4
HIGH == 3
CRITICAL == 4

(* What a severity_history entry is to R4: whose run, for which severity,  *)
(* and whether its kind and reason are ones that license a downgrade.      *)
HistoryEntry == [run : Nat, severity : Sev, sound : BOOLEAN]

Lifecycle == [state     : {"open", "accepted", "fixed", "verified"},
              owned     : BOOLEAN,
              expiry    : {"absent", "garbled", "zoneless", "dated"},
              until     : Nat,
              fixCommit : BOOLEAN,
              tested    : BOOLEAN]

Dist(a, b) == IF a <= b THEN b - a ELSE a - b
-----------------------------------------------------------------------------
(* Matching.  An exact fingerprint wins; what is left drifts to an entry of *)
(* the same file and CWE within the window, best match first.              *)
Exact(F, base, i) == F[i].line \in DOMAIN base.entries

DriftCandidates(F, base) ==
    {c \in {i \in DOMAIN F : ~Exact(F, base, i)} \X DOMAIN base.entries :
        LET entry == base.entries[c[2]]
        IN  /\ entry.lined
            /\ Alike[c[1]][entry.issue] > 0
            /\ Dist(F[c[1]].line, c[2]) <= DriftTolerance}

Contend(c, d) == c[1] = d[1] \/ c[2] = d[2]

(* Title similarity, then line distance, then findings order. *)
Ahead(F, base, c, d) ==
    LET sim(x) == Alike[x[1]][base.entries[x[2]].issue]
        off(x) == Dist(F[x[1]].line, x[2])
    IN  \/ sim(c) > sim(d)
        \/ sim(c) = sim(d) /\ off(c) < off(d)
        \/ sim(c) = sim(d) /\ off(c) = off(d) /\ c[1] < d[1]
        \/ sim(c) = sim(d) /\ off(c) = off(d) /\ c[1] = d[1] /\ c[2] < d[2]

(* The greedy pass: the one set of pairs nobody ahead of them contends. *)
DriftAssign(F, base) ==
    LET candidates == DriftCandidates(F, base)
    IN  CHOOSE M \in SUBSET candidates :
           \A c \in candidates :
              c \in M <=> ~\E d \in M : Contend(c, d) /\ Ahead(F, base, d, c)

(* The entry each finding is held to: its line in the baseline, or NoLine. *)
ClaimsExactOnly(F, base) ==     \* slip: no drift fallback
    [i \in DOMAIN F |-> IF Exact(F, base, i) THEN F[i].line ELSE NoLine]

Claims(F, base) ==
    LET drift == DriftAssign(F, base)
    IN  [i \in DOMAIN F |->
           IF Exact(F, base, i) THEN F[i].line
           ELSE IF \E c \in drift : c[1] = i
                THEN (CHOOSE c \in drift : c[1] = i)[2] ELSE NoLine]
-----------------------------------------------------------------------------
(* R4.  A reason counts only if it is this run's, or at least no run the   *)
(* baseline knows of, and only for the severity it was recorded for.       *)
JustifiedEver(f, entry, run) ==     \* slip: a reason once given always counts
    \E h \in f.history : h.sound /\ h.severity = f.severity

Justified(f, entry, run) ==
    \E h \in f.history :
        /\ h.sound /\ h.severity = f.severity
        /\ h.run = run \/ h.run \notin {x.run : x \in entry.history}

UnjustifiedDowngrade(F, base, i, run) ==
    LET l == Claims(F, base)[i]
    IN  /\ l # NoLine
        /\ F[i].severity < base.entries[l].severity
        /\ ~Justified(F[i], base.entries[l], run)

(* A baseline HIGH nobody claimed must be explained by a change.  The      *)
(* sweep accepts a bare path, and a range that comes near the line.        *)
Vanished(F, base) ==
    {l \in DOMAIN base.entries :
        /\ base.entries[l].severity >= HIGH
        /\ \A i \in DOMAIN F : F[i].line # l /\ Claims(F, base)[i] # l}

Explained(base, l, diff) ==
    /\ diff.form # "omitted" /\ diff.lines # {}
    /\ \/ diff.form = "path"
       \/ ~base.entries[l].lined
       \/ \E x \in diff.lines : Dist(x, l) <= RangeTolerance
-----------------------------------------------------------------------------
(* L1-L3.  `until > day` is the only reading of a parsed expiry; an expiry *)
(* that does not parse is neither expired nor live.                        *)
Accepted(lc, day) ==
    lc.state = "accepted" /\ lc.owned /\ lc.expiry = "dated" /\ lc.until > day

(* The age gate counts from the date the finding states of itself, else    *)
(* from its entry's, else from the baseline's; 0 is no date.               *)
FirstSeen(F, base, i) ==
    LET l == Claims(F, base)[i]
    IN  IF F[i].firstSeen # 0 THEN F[i].firstSeen
        ELSE IF l = NoLine THEN 0
        ELSE IF base.entries[l].firstSeen # 0 THEN base.entries[l].firstSeen
        ELSE base.created

TooOld(F, base, i, day) ==
    LET first == FirstSeen(F, base, i)
    IN  /\ F[i].severity >= HIGH /\ i \notin Heuristic
        /\ first # 0 /\ day - first > MaxAge
        /\ ~F[i].lifecycle.fixCommit
        /\ ~Accepted(F[i].lifecycle, day)

BadAcceptance(F, i, day) ==
    LET lc == F[i].lifecycle
    IN  /\ F[i].severity >= HIGH /\ lc.state = "accepted"
        /\ ~lc.owned \/ lc.expiry = "absent" \/ (lc.expiry = "dated" /\ lc.until <= day)

UntestedClosure(F, i) ==
    LET lc == F[i].lifecycle
    IN  /\ ~lc.tested
        /\ lc.state = "verified" \/ (lc.state = "fixed" /\ StrictClosure)

(* Comparing an expiry without a zone with the aware clock raises. *)
Raises(F) == \E i \in DOMAIN F : /\ F[i].severity >= HIGH
                                 /\ F[i].lifecycle.state = "accepted"
                                 /\ F[i].lifecycle.expiry = "zoneless"

(* The blocking governance findings, as <<rule, issue or line>>. *)
Objections(F, base, diff, run, day) ==
    {<<"R4", i>> : i \in {x \in DOMAIN F : UnjustifiedDowngrade(F, base, x, run)}}
    \cup {<<"L1", i>> : i \in {x \in DOMAIN F : TooOld(F, base, x, day)}}
    \cup {<<"L2", i>> : i \in {x \in DOMAIN F : BadAcceptance(F, x, day)}}
    \cup {<<"L3", i>> : i \in {x \in DOMAIN F : UntestedClosure(F, x)}}
    \cup {<<"gone", l>> : l \in {x \in Vanished(F, base) : ~Explained(base, x, diff)}}
=============================================================================
