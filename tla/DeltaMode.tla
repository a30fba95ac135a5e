----------------------------- MODULE DeltaMode -----------------------------
(***************************************************************************)
(* mode: delta (lib/delta-mode.md, workflow.md section 4): audits of a tree*)
(* that is edited between them, each of which looks again at what the diff *)
(* to the baseline invalidates and carries the rest of the baseline's      *)
(* findings forward.  An issue is a true finding of the tree; a full audit *)
(* reports all that are present.                                           *)
(***************************************************************************)
EXTENDS Naturals, Sequences, FiniteSets

CONSTANTS File,
          PartitionOf,  \* file -> the partition whose paths_included match it
          FileCount,    \* partition -> file_count
          Surfaces,     \* set of [handler, registration]
          Keystones,    \* keystone_files: sequence of [path, partitions]
          Manifest, Lockfile, Config,  \* files by what they are
          Ignored,      \* baseline_full.ignored
          Issue,        \* set of [id, file, category, high, causes]
          MaxEdits, MaxAudits          \* bounds of the model

Global == {"egress", "collection_scope"}

Category == Global \cup {"auth", "local", "scanner", "config"}

ASSUME DeltaAssumption ==
  /\ Ignored \subseteq File /\ Manifest \cup Lockfile \cup Config \subseteq File
  /\ PartitionOf \in [File -> DOMAIN FileCount]
  /\ \A s \in Surfaces : s.handler \in File
  /\ Keystones \in Seq([path : File, partitions : SUBSET DOMAIN FileCount])
  /\ \A i \in Issue : i.file \in File /\ i.causes \subseteq File /\ i.category \in Category
  /\ MaxEdits \in Nat /\ MaxAudits \in Nat

VARIABLES present,   \* the issues of the working tree
          pending,   \* files edited and not committed
          changed,   \* files that differ between baseline.git_head and HEAD
          near,      \* issues whose line a range of that diff contains
          baseline,  \* findings_carryover of the baseline
          touched,   \* touched_partitions
          report,    \* the merged findings of the audit
          status,    \* "idle", "scoped", "merged" or "judged"
          passed,    \* the severity gate has no objection to the report
          edits, audits

vars == <<present, pending, changed, near, baseline, touched, report, status, passed,
          edits, audits>>
tree == <<present, pending, changed, near, edits>>

Partition == DOMAIN FileCount

Init ==
  /\ baseline \in SUBSET Issue
  /\ present = baseline /\ report = baseline
  /\ pending = {} /\ changed = {} /\ near = {} /\ touched = {}
  /\ status = "idle" /\ passed = TRUE
  /\ edits = 0 /\ audits = 0

\* An edit may mend or introduce what it is a cause of.
Edit(f, toggled) ==
  /\ status = "idle" /\ edits < MaxEdits
  /\ toggled \subseteq {i \in Issue : f \in i.causes}
  /\ present' = (present \ toggled) \cup (toggled \ present)
  /\ pending' = pending \cup {f}
  /\ edits' = edits + 1
  /\ UNCHANGED <<changed, near, baseline, touched, report, status, passed, audits>>

\* A mended line is in the diff; another line of its file may be.
Commit(lines) ==
  /\ status = "idle" /\ pending # {}
  /\ lines \subseteq {i \in Issue : i.file \in pending}
  /\ {i \in baseline \ present : i.file \in pending} \subseteq lines
  /\ changed' = changed \cup pending
  /\ near' = near \cup lines
  /\ pending' = {}
  /\ UNCHANGED <<present, baseline, touched, report, status, passed, edits, audits>>

-----------------------------------------------------------------------------
ChangedFiles == changed \ Ignored

\* The handler's hash is taken from the working tree, the rest from the diff.
StaleSurfaces ==
  {s \in Surfaces : \/ {s.handler, s.registration} \cap ChangedFiles # {}
                    \/ s.handler \in pending}

KeystoneSet == {Keystones[n] : n \in 1..Len(Keystones)}

ChangedKeystones == {k \in KeystoneSet : k.path \in ChangedFiles}

ChangedShareExceeds(p) == 5 * Cardinality({f \in ChangedFiles : PartitionOf[f] = p}) > FileCount[p]

StalePartitions ==
  {p \in Partition : ChangedShareExceeds(p)}
  \cup {PartitionOf[f] : f \in ChangedFiles \cap Manifest}
  \cup UNION {k.partitions : k \in ChangedKeystones}

StaleAuthMatrix == ChangedKeystones # {}

StaleOnly ==
  StalePartitions
  \cup {PartitionOf[s.handler] : s \in StaleSurfaces}
  \cup {PartitionOf[k.path] : k \in ChangedKeystones}

\* One pass over the keystones, in their order.
JoinedBy(k, ps) == IF k.partitions \cap ps # {} THEN ps \cup k.partitions ELSE ps

WithAdjacent(ps) ==
  LET joined[n \in 0..Len(Keystones)] ==
        IF n = 0 THEN ps ELSE JoinedBy(Keystones[n], joined[n - 1])
  IN  joined[Len(Keystones)]

TouchedPartitions == WithAdjacent(StaleOnly)

\* Steps 1 to 3.
Invalidate ==
  /\ status = "idle" /\ audits < MaxAudits
  /\ touched' = TouchedPartitions
  /\ status' = "scoped"
  /\ audits' = audits + 1
  /\ UNCHANGED <<tree, baseline, report, passed>>

CarryUntouched ==
  {i \in baseline : PartitionOf[i.file] \notin touched /\ i.file \notin ChangedFiles
                    /\ (~StaleAuthMatrix \/ i.category # "auth")}

Carryover == {i \in CarryUntouched : i.category \notin Global}

\* A phase that is not run again hands on the findings of the last one.
Rerun(c) == IF c = "scanner" THEN ChangedFiles \cap Lockfile # {}
                             ELSE ChangedFiles \cap Config # {}

FreshTouchedOnly ==     \* slip: the global classes respect the scope
  {i \in present : PartitionOf[i.file] \in touched /\ i.category \notin {"scanner", "config"}}
  \cup UNION { {i \in (IF Rerun(c) THEN present ELSE baseline) : i.category = c} :
               c \in {"scanner", "config"} }

Fresh ==
  {i \in present : \/ i.category \in Global
                   \/ i.category \in {"auth", "local"} /\ PartitionOf[i.file] \in touched}
  \cup UNION { {i \in (IF Rerun(c) THEN present ELSE baseline) : i.category = c} :
               c \in {"scanner", "config"} }

\* Steps 4 and 5.
Merge ==
  /\ status = "scoped"
  /\ report' = Carryover \cup Fresh
  /\ status' = "merged"
  /\ UNCHANGED <<tree, baseline, touched, passed, audits>>

\* The gate's sweep: what left the baseline's HIGH findings is in a changed range.
\* Slip: any change to the file explains.
UnexplainedByFile(i) == i.high /\ i \notin report /\ i.file \notin changed

Unexplained(i) == i.high /\ i \notin report /\ i \notin near

Judge ==
  /\ status = "merged"
  /\ passed' = (\A i \in baseline : ~Unexplained(i))
  /\ status' = "judged"
  /\ UNCHANGED <<tree, baseline, touched, report, audits>>

\* By default the baseline stays.
Finish ==
  /\ status = "judged"
  /\ status' = "idle"
  /\ UNCHANGED <<tree, baseline, touched, report, passed, audits>>

RefreshKeepsRanges ==   \* slip: the next diff still starts at the old baseline
  /\ status = "judged" /\ passed
  /\ baseline' = report
  /\ changed' = {}
  /\ status' = "idle"
  /\ UNCHANGED <<present, pending, near, touched, report, passed, edits, audits>>

\* --refresh-baseline, if the gate lets Phase 8 run.
Refresh ==
  /\ status = "judged" /\ passed
  /\ baseline' = report
  /\ changed' = {} /\ near' = {}
  /\ status' = "idle"
  /\ UNCHANGED <<present, pending, touched, report, passed, edits, audits>>

\* A failed precondition: the audit is a full one, its gate and its baseline too.
FullAudit ==
  /\ status = "idle" /\ audits < MaxAudits
  /\ report' = present
  /\ touched' = Partition
  /\ status' = "merged"
  /\ audits' = audits + 1
  /\ UNCHANGED <<tree, baseline, passed>>

Next ==
  \/ \E f \in File : \E t \in SUBSET {i \in Issue : f \in i.causes} : Edit(f, t)
  \/ \E lines \in SUBSET {i \in Issue : i.file \in pending} : Commit(lines)
  \/ Invalidate \/ Merge \/ Judge \/ Finish \/ Refresh \/ FullAudit

Spec == Init /\ [][Next]_vars

-----------------------------------------------------------------------------
\* Types; and the ranges of the diff lie in the files it names (delta-mode.md:26-33).
TypeOK ==
  /\ present \cup near \cup baseline \cup report \subseteq Issue
  /\ pending \cup changed \subseteq File
  /\ touched \subseteq Partition
  /\ status \in {"idle", "scoped", "merged", "judged"}
  /\ passed \in BOOLEAN
  /\ edits \in 0..MaxEdits /\ audits \in 0..MaxAudits
  /\ \A i \in near : i.file \in changed

HasReport == status \in {"merged", "judged"}

\* Partitions that share a keystone with one that the diff invalidates.
Neighbours == UNION {k.partitions : k \in {x \in KeystoneSet :
                                              x.partitions \cap StaleOnly # {}}}

\* What a full audit would report and the delta audit does not is a finding of an
\* untouched partition that no keystone joins to an invalidated one, of no class that is recomputed, and either new to the
\* baseline, or in a file that changed without making its partition stale, or an
\* auth finding dropped for a keystone its partition does not import; of the
\* scanners', only a new one whose scanner did not run (delta-mode.md:199-217).
LossExplained ==
  HasReport => \A i \in present \ report :
    /\ i.category \notin Global
    /\ i.category \in {"auth", "local"} => PartitionOf[i.file] \notin touched \cup Neighbours
    /\ i.category \in {"scanner", "config"} => i \notin baseline /\ ~Rerun(i.category)
    /\ \/ i \notin baseline
       \/ i.file \in ChangedFiles
       \/ /\ i.category = "auth" /\ ChangedKeystones # {}
          /\ \A k \in ChangedKeystones : PartitionOf[i.file] \notin k.partitions

\* A finding the tree no longer has is reported only if its file is unchanged in
\* the diff and what mended it is no keystone its partition imports: a helper, a
\* file of another partition, an edit not committed or ignored; or if it is from
\* a scanner that did not run again
\* (delta-mode.md:113-123, 205-217).  It bounds the cases that delta-mode.md:279
\* says do not exist; NoGhosts states that line as it stands.
GhostExplained ==
  HasReport => \A i \in report \ present :
    /\ i.category \notin Global
    /\ i.file \notin ChangedFiles \/ (i.category \in {"scanner", "config"} /\ ~Rerun(i.category))
    /\ \A k \in ChangedKeystones :
         i.category \in {"auth", "local"} => PartitionOf[i.file] \notin k.partitions

\* delta-mode.md:279: "A delta-mode run never produces findings a full run
\* wouldn't" - here, of a tree whose edits are all committed, and leaving aside the
\* phases that a delta run may run again in full.
NoGhosts ==
  (HasReport /\ pending = {}) =>
    \A i \in report \ present : i.category \in {"scanner", "config"}

\* Over any number of refreshed baselines, a HIGH finding the tree still has leaves
\* the baseline only when the diff contains its line: what delta mode drops, the
\* sweep of the severity gate catches (delta-mode.md:159-177).
HighIsNotForgotten ==
  [][\A i \in baseline \ baseline' : i.high /\ i \in present' => i \in near]_vars
=============================================================================
