# TLA+ verification of claude-security-audit

claude-security-audit is a "skill": a set of Markdown instructions that a coding
agent follows phase by phase, and a handful of Python programs it must run at
given points. The agent's judgement is free; the programs and the rules for
when and on what they run are not. What the project promises — severity is
computed and not asserted, a rating never drops silently, no credential is
committed, no inventory is believed that leaves sites out — is promised by that
second part, and this directory models it.

All source paths below are relative to `src/`; `lib/`, `steps/` and `workflow.md`
are under `skills/security-audit/`.

## Inventory

| Component | State it keeps | Operations | Talks to | What makes it correct |
|---|---|---|---|---|
| Severity gate, arithmetic (`lib/compose-attack-paths.py`) | findings file (severity, asserted, history, rules, suppression); one run's targets | load, R2, R1 fixpoint, R3 per persona, ledger, rewrite | Phase 7 loop | least rating the rules allow, convergence, provenance, suppression only when the chain is dead |
| Severity gate, governance (same file) | none; reads findings and the last baseline | match, R4, L1, L2, L3, disappearance sweep | baseline, summary file | no unexplained downgrade or disappearance, nothing HIGH rots |
| Baseline lifecycle (`steps/phase-07-synthesis.md` 7.15, `steps/phase-08-baseline.md`) | `.claude-audit/baseline.json`, the pruned checked-in copy, `current/` | gate loop, human remedies, gates of 8.1, carry forward, two writes | gate, git, next audit | only judged results persist; the ratchet holds over any number of audits |
| Secret redaction (`lib/secret-detectors.py`, `redact-scanner-output.py`, `verify-deliverable.py`) | scanner outputs, deliverables, temp files, the gate's marker | scan, scrub, redact in place, check, assemble, deliverable gate, copy | Phases 4, 7, 8 | nothing the detectors know leaves the blackboard; no content field of a checked report does; a gate that fired is reported |
| Egress reconciliation (`lib/validate-egress.py`) | sink, surface and credential inventories, findings | extract candidates, account for them, infer layers and floors, reconcile | Phases 2, 6, 7 | no candidate unaccounted; a branch weaker than its resource's gate is reported |
| Collection scoping (`lib/validate-collection-scoping.py`) | collection inventory, findings, sidecar | extract, account, resolve citations, reconcile, pinned tests | Phases 2, 6, 7 | an unscoped list is reported; the source, not the claim, decides |
| Delta mode (`lib/delta-mode.md`, `workflow.md` 4) | full baseline, changed files | invalidate, scope, carry over, merge, refresh | all phases | what it loses or keeps against a full audit has a reason |
| Partition coverage (`lib/validate-partition-coverage.py`) | — | match, catch-all test, exits | Phase 1 | nothing unmatched, no vacuous success |
| Findings validation and fan-out (`lib/validate-findings.py`, `steps/phase-05-deepdives.md`) | per-pair files and markers | dispatch, validate, retry once, placeholder, split | Phase 7 | every pair ends in a marker or a placeholder; the umbrella marker comes last |
| Orchestrator (`workflow.md`) | blackboard, `phase-NN.done` markers | preflight, rotate, boundary check, resume | all | no phase without its predecessor's proof |
| Other phases, deep-dive guides, scripts, e2e oracle | — | — | — | input, environment or test tooling; not modelled |

The hard behaviours are *re-runs* — the same file judged, rewritten and judged
again; a baseline that is output and next input while the code moves under its
line numbers — together with programs that fail half way and callers that
cannot tell, state in files that outlives the run that wrote it, sub-agents
that run eight at a time and write their own completion markers, and
inventories that are only as good as the agent that wrote them.
`PROJECT.json` lists these hazards at their lines, with the properties that
would catch them.

## Modules

```
CapabilityGraph ── AttackPaths ─────────── MCAttackPaths        Governance ── BaselineRatchet ── MCBaselineRatchet
   └─ RatingContract (INSTANCE) └── AttackPathsProofs                            └── BaselineRatchetProofs

SecretScan ── RedactionPipeline ── MCRedactionPipeline          FindingRules ──────┐
                └── RedactionPipelineProofs                     PartitionCoverage ─┴ DeepDives ── MCDeepDives
                                                                                       └── DeepDivesProofs
                ┌─ EgressRules ───── EgressReconciliation ───── MCEgressReconciliation
SiteCoverage ───┤                       └── EgressReconciliationProofs
                └─ CollectionRules ─ CollectionReconciliation ─ MCCollectionReconciliation
                                        └── CollectionReconciliationProofs

DeltaMode ── MCDeltaMode                                        Extremes: used by the proof modules
   └── DeltaModeProofs
```

**CapabilityGraph** — the pure operators of the composer: `Satisfies`,
`IsJewel`, `Compose` (what a persona can walk), `ContributingSlice` (which of
it carries the chain), and per persona `Citing`, `Blockers`, `SurvivorPath`,
`Carriers`. A capability is the (verb, scope, object) that `split_cap` leaves;
the prose a finding carries is the set of findings it names. Loops that run to
a fixpoint are recursive functions over a count of rounds: each round adds a
finding or nothing, so `N` rounds are enough.

**AttackPaths** — one run of the gate and Phase 7's loop around it. Variables
are the fields the program writes back and those of one run (`target`, `fired`,
`declined`, ...). `ApplyR2`, `ApplyR1`/`SettleR1`, `ComposePersona`/`EndR3`,
`Rewrite`, `Rerun` follow the order of `main`. The code visits supply links
and personas in file order; the model visits them in any order, so its results
do not lean on one.

**RatingContract** — what the gate promises, with no loops: reachability and
contribution are least closed sets, and the computed severity is the least
rating every rule is content with. `AttackPaths` refines it with
`published <- phase = "published"`.

**Governance** — `governance_checks`: fingerprints, the greedy drift
assignment (stated as the one set of pairs that nobody ahead contends with),
R4, L1–L3, the sweep, and the exception a zoneless expiry raises. L1's clock
(`FirstSeen`) is the date the finding states of itself, else its entry's, else
the baseline's, as in line 834; without a baseline it runs all the same. All
findings are of one file and CWE, so a fingerprint is a line.

**BaselineRatchet** — audit after audit of that file. `InsertAbove` and `Mend`
edit the code; `StartAudit` reports any subset of the issues at any rating,
with or without what the baseline remembered or a date of first sight of its own;
`RunGate`/`GateRaises` are a run of
the gate; `RecordReason` and `Remedy` are people answering; `SkipPhase8`,
`WriteFull`, `WritePruned` are Phase 8; `Abort` and `FreshClone` are faults. A
day is a run. Of R1–R3 it keeps only their effect: some findings (`chained`)
are raised to CRITICAL by the rewrite.

**SecretScan** — `scan` and `scrub`. A text is the set of matches the detectors
have in it and the positions that have been replaced; `Scan` is the
position-first, longest-second sweep, `ScrubLines` the same line by line.

**RedactionPipeline** — a report has four spots: a content field, a
trufflehog `raw` field, any other string, and what the SARIF walk does not
visit. `StartRedact` … `EndRedact` are `redact-scanner-output.py` (temp file,
then rename), `Check` and `CheckBeforeAssembly` its `--check`, `Assemble` Phase
7's SARIF and report, `GateFile` … `GateExit` `verify-deliverable.py`, `CopyOut`,
`EmitSelfFinding` and `FinishPhase7` sections 7.10 and 7.10a, and
`WriteBaseline`, `GateBaseline`, its three exits (`BaselineGateClean`,
`BaselineCannotReport`, `EmitBaselineFinding`) and `WritePruned` section 8.4.
`fired` remembers that some gate of the audit scrubbed something, `lost` that one
that did ended without having said so. `Land` of a late
file is the history scan that finishes when it likes; `Unlock` makes a file
readable that was not; `Crash` resumes at the first phase without its marker.

**FindingRules**, **PartitionCoverage** — the two validators as operators over
rows and over trees of path segments, with `**` and the catch-all probes.

**DeepDives** — `Partition` is Phase 1 with its gate, `Surface` the promotions of
Phase 2, and then the fan-out: `Dispatch` of the next pair within the cap,
`AgentWrites` (the sub-agent writes its file *and* its marker), `Accept` and
`Reject` by the orchestrator's stricter validation, `NoAnswer` (a hanging
sub-agent), `Recurse` and `AtFloor`, `Crash`, `Finish`. A rejected pair is
invoked once more in its place and then becomes a placeholder; its invalid file stays.

**SiteCoverage** — the line-scoped accounting both inventory gates share.

**EgressRules** — ranks of gates, layers of rows, floors, `Findings` (R2 to R6
with their severities), `CoverageFails`. A gate record says what its prose
ranks as, whether it is negated, and the hint if there is one.

**EgressReconciliation** — `world` is the audited code as a faithful inventory
would have it; agents write readings of it, some lines off, partial or untyped.
The gate sends an incomplete inventory back with the sites it is owed, and
agents answer those; `Attack` is the probe that may refute findings.

**CollectionRules** — where in a statement the caller's name counts (as code, in
a template hole, and not in a comment or a string), which statement a citation
stands for, rules C1 to C6, the capabilities a finding grants.
**CollectionReconciliation** — the phase around it, with the findings written
before the sidecar and restarts between the two. The stamp is on the rows, so a
report without findings has none; a sidecar that cannot be removed stays.

**DeltaMode** — edits, some not committed, between audits; `Invalidate` (steps 1
to 3 of `lib/delta-mode.md`), `Merge` (4 and 5), `Judge` (the sweep of the
severity gate over the merged report), `Finish` or `Refresh`
(`--refresh-baseline`), and `FullAudit` for a failed precondition. An issue has a
file it is reported in and the files whose edit can introduce or mend it.

Definitions marked *slip* are plausible mistakes in the definition that follows
them; nothing uses them, and each shows that a property would notice.

## Runs

Passing runs:

| Run | Checks | Shows |
|---|---|---|
| `MCAttackPaths_Corpora` | `TypeOK`, `HistoryExplains`, `PublishedIsSettled`, `SuppressionJustified`, `ChainSeverityAgrees`, `NoOverEscalation`, `ImplementsContract`, `Converges` | over every corpus of three findings: suppression and rating agree with the contract, provenance survives every rewrite, a clean exit means nothing is left to move, and the Phase 7 loop ends |
| `MCBaselineRatchet_Audits` | `TypeOK`, `RatchetHolds`, `PersistedWasJudged` | what R4 and the sweep enforce at a line holds over edits, aborted audits, objections, remedies and re-runs |
| `MCBaselineRatchet_Faults` | `NothingRots`, `PersistedWasJudged` | with clones, strict closure, findings that state their own date and a gate that raises: L1 lets nothing HIGH grow old in the baseline, and an exception in the gate is the only way an unjudged baseline is written |
| `MCRedactionPipeline_Audit` | `TypeOK`, `DeliveredIsClean`, `ContentOnlyUnvetted`, `LeftoverExplained`, `SelfLeaksListed`, `FiringReported`, `Completes` | what can reach the output directory, what redaction leaves in the blackboard and why, and that what either phase's gate scrubbed is in a CRITICAL finding unless the gate ended between scrub and report |
| `MCDeepDives_Fanout` | `TypeOK`, `UnexaminedExplained`, `UnvettedNeedsACrash`, `AcceptedStays`, `FanoutFinishes` | why a file may go unexamined, that answers are never redone, and that the fan-out ends |
| `MCEgressReconciliation_Reconcile` | `TypeOK`, `MissesExplained`, `CapNeedsEvidence`, `GrowthIsMonotone`, `PhaseSettles` | the ways an inventory can hide a weak branch, and that adding rows never hides one |
| `MCCollectionReconciliation_Scoping` | `TypeOK`, `GapsExplained`, `SourceIsTheAuthority`, `TagsAreEarned`, `IncompleteIsMarked`, `ScopingSettles` | the ways an unscoped list escapes C1, and that findings without a sidecar are those of a complete inventory |
| `MCDeltaMode_Edits` | `TypeOK`, `LossExplained`, `GhostExplained`, `HighIsNotForgotten` | the causes for which a delta audit loses a finding or keeps a mended one |

The *Explained* properties list every way in which the promise can fail to hold
in the code as it is, and say there is no other. They bound those hazards and do
not exclude them: that a line of an entry covers its neighbour, that a weak
description lowers a floor, that a citation is of another statement, that a split
leaves files out, that a path is claimed and not looked at, are causes they name.
Where the documentation denies such a case in so many words there is a run below.

Each of the other runs checks one sentence of the documentation and finds a
counterexample; `PROJECT.json` quotes the sentence.

| Run | Counterexample |
|---|---|
| `MCBaselineRatchet_NotLaundered` | the gate raises on an expiry without a zone; Phase 8 reads the missing summary as no failures |
| `MCRedactionPipeline_EveryFiringReported` | the baseline gate scrubs a title and cannot write its report; run again it finds the baseline clean, and the audit ends with no finding about it |
| `MCEgressReconciliation_AmbiguityOverFlags` | a gate of AUTHZ rank and its weaker sibling are both described without a keyword; the floor of the resource is NONE and no rule finds anything |
| `MCDeltaMode_NoGhosts` | a fix committed in one partition mends a finding in an unchanged file of another; the delta audit carries it forward, a full one would not report it (`delta-mode.md:279`) |

Divergences between code and text met while modelling, for which there is no
run of their own:

* R3 raises a supplier when R1 is over, and its consumer moves only in the next
  run (`compose-attack-paths.py:1192`, `phase-07-synthesis.md:709`); a cite cuts
  one of two chains and the cut chain's carriers are neither raised nor marked
  (1132, `phase-07-synthesis.md:793`); a suppression mark of an earlier run stays
  on a finding that is later CRITICAL (1379, 1297).
* A drifted finding can claim the entry its neighbour matches exactly (743 against
  660–661); an exact match onto a neighbour's old line loses a HIGH (775); one inserted line resets
  `first_seen_at` (`phase-08-baseline.md:143` against 147); a finding that states a
  recent `first_seen_at` of itself restarts L1's clock whatever the baseline says
  (834); a fresh clone has no `.claude-audit/baseline.json`, which
  `lib/output-routing.md:60` and `workflow.md:352` pass over and `workflow.md:369`
  requires.
* A sub-agent writes its own marker (`templates/subagent-prompt.md:69` against
  `workflow.md:449`); a partition's subtree counts though it is not in
  `paths_included` (`validate-partition-coverage.py:203` against its docstring).
* The docstring of `scan` says the longest match wins (263), the sort is by
  position first (287); `redact-scanner-output.py:388` scrubs line by line what
  `secret-detectors.py:268` wants whole.
* `validate-egress.py:359` says a hint only makes a file quieter; a hint of
  `verified` raises the floor. `phase-06-config.md:395` says one sink cannot mask
  another in its file; within fifteen lines it can. An untyped inventory reconciles
  differently (`validate-egress.py:182` against 105). `phase-06-config.md:525`
  says the inventory cannot launder a false claim; a citation of another
  statement that binds the caller does. `phase-06-config.md:509` would have C1
  compare a claim of `public_allowlisted` with `public_resources`; the code takes
  the claim at its word (`validate-collection-scoping.py:1088`). A stale sidecar
  that cannot be removed stays beside the findings of a complete inventory
  (1522–1525).
* Both invariants of `delta-mode.md` are denied by its Step 4: 279 (a delta run
  produces nothing a full one would not) by `NoGhosts` above, for committed edits
  and outside the scanners' and the configuration's findings, and 280 (it never
  deletes what a full run would produce) by dropping a finding of an untouched
  partition whose file changed. `GhostExplained` and `LossExplained` have the cases. Where
  `delta-mode.md:21` falls back to full mode, `workflow.md` 4 aborts.

### Modelling choices

*AttackPaths, BaselineRatchet:* capabilities, prose matches, title similarity
and kinds of expiry are given. A date of first sight, unlike an expiry, names its time
zone; one that does not would make the same gate raise at line 838.

*RedactionPipeline:* a marker is never matched by a detector (the placeholder
test of the code), so a text is described by its first matches.

*DeepDives:* splits and deferred partitions are on disk and survive a crash;
what is in flight is lost. A sub-agent that writes also marks. A timeout is no
answer. Any subset of the remaining partitions may be promoted in Phase 2.

*Egress and collections:* an agent that is sent back re-reads the whole handler.
A partial refutation counts as none. A HIGH deficit alone makes the program
exit 1 as well; the model lets Step 2 run, as its text requires, since it works on
exactly those findings. Candidates without a line and lists given by
`--candidates` are left out.

*DeltaMode:* an audited partition yields all its issues — the properties are
about the scope, not about the agents. Edits happen between audits. A phase
that is not run again hands on the scanner findings of the last one. The
baseline starts equal to the tree. A mended line is always in the diff: a fix
that only deletes lines has no range (`phase-07-synthesis.md:695`), and the gate
then objects.

### Bounds

*AttackPaths:* three findings suffice for a supplier, a consumer and an
alternative route, cycle or bystander. The corpora are all triples over fourteen
rows about routes (cited, uncited and flag-gated claims, subsumed scopes, two kinds
of jewel, a cycle back from one), seven about chains, one of them with prose that
names others, and ten about prose, mitigations and an annex. Two
personas let one chain raise what another already composed. No counter is
bounded: severities only rise, so behaviours are finite.

*BaselineRatchet:* two issues (a finding and the neighbour it can be taken
for), `LastLine` 2 or 3, `MaxRuns` 3 or 4 audits of which the earliest are in
the initial baseline. `DriftTolerance` 1 stands for 25
lines, `RangeTolerance` 0 for 2, `MaxAge` 1 for 30 days: each is
smaller than what the run can move or wait. `OwnDates` is {0}, none stated, in
`Audits`, which is about severities, and {0, 2} in `Faults`: nothing or the day of the
first baseline, a date the last audit finds too old. Ratings are LOW and HIGH,
the two sides of every threshold, and CRITICAL through chains.

*RedactionPipeline:* texts of four positions on two lines hold a nested, a
staggered and a hiding pair of matches; two reports and a late one, one of them
unreadable; a deliverable or the baseline may be too large to scan; `MaxFaults` 1
is a crash or a failed report write at either gate.

*DeepDives:* five source files, two running categories and a gated one, five
partitionings (a hidden subtree, a lone catch-all, a dominating glob, one that
fails). `TopN` 1 puts a partition on the cut line, `Cap` 2 keeps one pair
waiting, `Floor` is 1 where the code has 2: one split meets it. `Budget` 5
limits pairs, crashes and lost answers together, so a split, a crash and a
lost answer each occur, alone and in pairs where it allows.

*EgressReconciliation:* seven programs, each a few sinks around one question
(two layers, a candidate beside another, a credential, a surface); lines
drift by fifteen at most, the code's tolerance; one refutation a round.

*CollectionReconciliation:* a handler file of nine lines with four queries, and
a second file; an unscoped list cites its own query, its middle, another's or
a setting, a scoped one its first line, its last or one that does not exist. `Window`, `StatementMax` and `Tolerance` are 1, 3
and 1 where the code has 3, 8 and 15, each smaller than the file; one restart.

*DeltaMode:* three partitions in a chain of keystones listed against the order
of the chain, an issue of each class, `MaxEdits` 2 and `MaxAudits` 2: an edit,
an audit that refreshes, an edit, an audit.

`CHECK_DEADLOCK FALSE` is set where the program really stops or a bound ends it.
`MCAttackPaths_Corpora` checks deadlock: `Finished`, the exit with nothing to do, is a
step of its own there.

### Fairness

* `Converges` (`AttackPaths`): steps that change something are taken for ever, or
  the file is published. That is `WF_vars(Next)` for a program that can always take a
  step until then, which the deadlock check of the run shows. The gate is sequential,
  and Phase 7 step 2 re-runs it until it exits 0.
* `Completes` (`RedactionPipeline`): the orchestrator goes on (`Advance`), and
  each scanner it waits for lands — it writes or its timeout kills it. The late scan need not land.
* `FanoutFinishes` (`DeepDives`): the window is refilled (`Dispatch`), *some*
  sub-agent in flight returns or runs out of turns (`Handle`), and the
  orchestrator concludes (`Finish`). No outcome is preferred: rejection,
  splits and silence are as fair as acceptance.
* `PhaseSettles`, `ScopingSettles`: the programs run, agents hand over, and
  agents answer *when the gate has listed a site*, rightly or not. Inventorying
  unasked carries no fairness: an agent may record nothing.

Crashes, faults, edits and people carry no fairness, and the modules about
audits started by people (`BaselineRatchet`, `DeltaMode`) claim no liveness.

## Proofs

Checked by TLAPS, for every value of the constants. Every invariant and every
action property of the runs is a theorem, and so is the refinement of
`RatingContract`; what is left to TLC is the liveness. A theorem rests on the named
ASSUMEs of its modules (what the constants are made of, which TLC evaluates on
every run) and, where it says so, on a hypothesis of its own.

**Extremes** has no theorem about the program. Where a textbook would use
induction over data, the proofs take a least counterexample: `LeastElement` and
`GreatestElement` come from the well-foundedness of the naturals. From them
`GreedyPass` (what a greedy pass over a finite set in some order keeps exists),
`PassExists` and `IterationExists` (a loop of N rounds, written as a recursive
function, has the values its equation gives), and `LeastFixpoint` (N rounds that each
add an element of an N-element set or nothing end in the least set closed under the
step).

### The severity gate: `AttackPathsProofs`

From `LexiconAssumption` (N is a natural number, personas hold capabilities) and
`CorporaAssumption` (a corpus is a row per finding):

* `TypeCorrect` — `Spec => []TypeOK`. `MaxOf` and `MinOf` are CHOOSEs, so two
  lemmas first show that a set of severities has a maximum and a set of
  findings a least element.
* `PublishedSettled` — `Spec => []PublishedIsSettled`. This is not inductive:
  R1 is over before R3 raises anything, so after R3 the rating may be unsettled. The
  strengthening `SettledByRun` records what each phase has achieved and why it
  is enough: floors once reached are kept because severities only rise
  (`OnlyRises`), R2 and R3 have done their part once their phase is over
  (`R2Done`, `R3Done`), and R1's fixpoint is known only *while nothing has
  moved* (`R1Done`) — which is exactly the case in which the run exits 0.
* `NeverOverEscalates` — `Spec => []NoOverEscalation`: every intermediate
  target lies below every settled rating above the analyst's floor.
* `WithheldOnEvidence` — `Spec => []SuppressionJustified`. `ComposeIsLeast` and
  `SliceIsLeast` say that the passes of `compose` and `contributing_slice` end in least
  fixpoints, hence composing is monotone in the rows it may use
  (`ComposeMonotone`): a chain dead without the *slice's* cited rows is dead
  without *any* cited row.
* `SummaryAgrees` — `Spec => []ChainSeverityAgrees`, if `NoJewelHeld`. A summary line
  is computed before later personas raise findings on the same path; it is
  right when published because a run publishes only if nobody was raised, and then a
  live chain already has a CRITICAL finding on it. A persona that *starts* with a crown jewel reaches it without a
  finding: line 1146 calls its chain CRITICAL and nobody is raised. The hypothesis
  excludes it; the default personas (419) hold none.
* `HistoryKept` — `Spec => []HistoryExplains`. `FiredWhereRaised` (within a run a
  rule is on record for exactly what was raised) keeps `Provenance`, which
  describes the whole history and not only its end.
* `FewReruns`: no finding has more lines of history than there are steps between the
  analyst's rating and the file's (`FewClimbs`), and a run that exits 1 adds one: Phase 7
  re-runs the gate at most four times per finding. It is the safe half of `Converges`.
* `Implements` — `Spec => ImplementsContract`, the refinement. Composition and
  slice are the contract's least closed sets (`WalkableIsComposed`,
  `CarriersAreSliced`); whom R3 raises is whom the contract puts on a live chain,
  whichever branch of the loop was taken (`RaisedIsOnLiveChain`); a settled rating is a
  contented one (`ContentedIsSettled`) and contented ratings have a least
  (`LeastRating`), so with the two theorems above what is published is that least
  one. Every step but `Rewrite` is a stutter (`StepImplements`).

### The baseline: `BaselineRatchetProofs`

* `OnlyJudgedPersists` — `Spec => PersistedWasJudged`. The invariant `Passed`
  says that an audit that is `judged` with a summary that is not blocking has findings
  that draw no objection *as they now are*. It needs that a run which escalates
  nothing rewrites the findings to themselves, hence the second conjunct of
  `IInv`. The rules of Governance stay opaque.
* `TypeCorrect`; with `Dates` (nothing is dated later than the file it stands in),
  `Distinct` and `Stamped` it carries the two theorems that look into the rules:
* `NothingRotsUnseen` — `Spec => NothingRots`: Phase 8 carries `firstSeen` forward at
  a line, and the gate that let it write saw that date, or the finding's own.
* `Ratchet` — `Spec => RatchetHolds`. `DriftPairs` shows that the greedy drift
  assignment exists and pairs each entry with at most one finding; what
  an entry loses in severity has then been objected to by R4, by the sweep, or has a
  new reason.

`Ratchet` assumes `NoneZoneless` (no expiry in the remedies or the first baseline is
without its zone): the exception it raises lets an unjudged baseline through, which
is what `MCBaselineRatchet_NotLaundered` shows. `NothingRotsUnseen` excuses a gate that
raised in the property itself and assumes only `StampedStart`, that the first
baseline dates its entries. `NoneZoneless` holds in
`MCBaselineRatchet_Audits`, `StampedStart` there and in `MCBaselineRatchet_Faults`.

### Redaction: `RedactionPipelineProofs`

* `TypeCorrect`, and `ScanSettles`: after the overlap rule of `scan()` every match is
  taken, or some of it was taken by a match that came first.
* `OnlyCutMatchesStay` — `Spec => []LeftoverExplained`, from `ScansSettled` (every text
  is settled in that sense, redacted once, twice or not yet) and `VettedIsStripped`
  (stripping a file the check has read changes nothing).
* `VettedContentStays` — `Spec => []ContentOnlyUnvetted`. A passed check says
  stripping changes nothing, so a content field equals its stripped self; only the
  redactor changes files, and it runs only before a check; a crash after the check
  never leads behind it.
* `RedactionSettles`: what the redactor renames into place the check does not object to
  (`StripAtTwice`: redacting twice is redacting once). It is the safe half of
  `Completes`: only a file that landed or became readable since sends the phase back.
* `CleanDelivery` — `Spec => []DeliveredIsClean`, with `CleanInv`: what the gate has
  passed is clean while the rest is to do, then all of it, then the baseline.
* `NoSilentFiring` — `Spec => []FiringReported`: a firing of either gate is in the rows
  of the running one, then in Phase 7's marker, then in the finding, or it is `lost`
  (`FiringKept`). `fired` is never reset. `lost` is set in one case only: a gate that
  has scrubbed ends, cut off or unable to write its report, before its exit status
  tells anybody; `MCRedactionPipeline_EveryFiringReported` shows that this happens.
* `OwnHitsListed` — `Spec => []SelfLeaksListed`, with `OwnListed`; from
  `SnippetAssumption`, that a hit in an artifact of the audit quotes what it matched.

### Inventories: `EgressReconciliationProofs`, `CollectionReconciliationProofs`

* `TypeCorrect` (both), with `RowsOfTheCode`: whatever an agent wrote is a reading of
  something in the code.
* `EvidenceForTheCap` — `Spec => []CapNeedsEvidence`: rank 3 in a floor is traced back
  through rows and credentials to where it was described.
* `NoMissUnexplained` — `Spec => []MissesExplained`. A gate that is in the inventory
  raises the floor of its resource (`GateRaisesFloor`); a sink without a row passed the
  coverage gate, so an entry within the tolerance or a dismissal accounts for it
  (`UnrecordedIsOutOfSight`); `ReportOfTheInventory` says that the probe changes no
  subject, branch or rule.
* `AddingTakesNothingAway` — `Spec => GrowthIsMonotone`, through floors, coverings and
  deficits one after the other (`FloorGrows`, `DeficitGrows`, `WriteGrows`).
* `SidecarWarns` — `Spec => []IncompleteIsMarked`, with `Verdict` for
  the interval between the two writes; a restart there leads back to the
  gate, where the property claims nothing. It goes one way: no sidecar, then a complete
  inventory. A sidecar that could not be removed stays, as the code accepts.
* `SourceDecides` — `Spec => []SourceIsTheAuthority`: rules C1 and C5 on two claims that
  differ in `predicate_reads` only (`ClaimedTextIgnored`).
* `NoSilentGap` — `Spec => []GapsExplained`, if `NothingReadBeyond`; `TagsEarned` —
  `Spec => []TagsAreEarned`, if `NothingReadShort` and `BoundInItsStatement`. The tool
  finds a statement's end by brackets and chains. The hypotheses say of the code that
  is audited that this is right: no line of the next statement is taken, and what
  binds the caller stands within the lines read. They separate what the rules
  promise from what the heuristic may misread, and hold for the file of the run.

### Delta mode and fan-out: `DeltaModeProofs`, `DeepDivesProofs`

* `HighStays` — `Spec => HighIsNotForgotten`, from `VerdictIsCurrent`: between
  the gate's verdict and Phase 8 nothing the verdict was formed from changes.
* `TypeCorrect`, `LossHasACause`, `GhostHasACause` — `[]TypeOK`, `[]LossExplained`,
  `[]GhostExplained`. `AuditStands` says that from scoping to verdict an audit is about
  one tree and one baseline; `Adjacent` bounds the loop over the keystones from both
  sides without following its order.
* `OnlyACrashSkipsValidation` — `Spec => []UnvettedNeedsACrash`. Needs that
  what is marked or accepted is on disk (`OnDisk`): then a crash can accept only
  what was accepted, or what it records as orphaned.
* `TypeCorrect` — `[]TypeOK` with `Shape`: waiting pairs are exactly the queued ones, and
  what is in flight is finite and within the cap.
* `AcceptedForGood` — `Spec => AcceptedStays`. A split might meet a pair that is there
  already. `Lineage` excludes it: an id is a path of splits, every part is the child of
  one *deferred* pair, and two children with one id have one parent (`ParentIsOne`), which
  is running and so not deferred (`PartsAreFresh`).
* `UnexaminedHasAReason` — `Spec => []UnexaminedExplained`, with `Reached` (every file
  has an owner since the gate, every pair of a full partition is on the list, and at the
  end all are settled). Of the partitions whose scope holds the file, take one split
  the furthest: it has the answer, or its own split left the file out
  (`DeepestAnswers`); `Lineage` bounds how far that is.

### What is only model-checked

Liveness and `ENABLED` are beyond the prover: `Converges`, `Completes`,
`PhaseSettles`, `ScopingSettles` and `FanoutFinishes` stay with TLC. So do the four runs
that look for a counterexample.

## Not modelled, and why

* *Input by design:* parsing of capability strings, prose regular expressions,
  detectors' patterns, title similarity, timestamps, glob syntax beyond `*` and
  `**`, tokenising. The models take their results.
* *Baseline lifecycle:* gates 1–3 of 8.1 and the rotation of `history/`; an entry
  without a line (in `Governance`, in no run's initial states); the half-written
  rewrite of a run that dies in `write_text`.
* *Redaction:* exit 2 on no files, the scope guard on audit-owned paths, raw JSON
  escaping, the SBOM deliverable.
* *Egress and collections:* hint and suppression audits and every other INFO row
  that reports and does not judge.
* *Partition gate:* `--fail-on-multi`, `--allow-catch-all`, `paths_excluded`.
* *Orchestrator:* preflight, resolution of directories, rotation of runs.
* *Calibration report:* tallies over verdict files, a pure computation.
* *Discovery, keystone and scanner phases, deep-dive guides:* instructions whose
  results are input. *Installation, containers, CI, e2e oracle:* environment
  and test tooling without a protocol.

## Plan

Done: the modules above, in the order of the diagram, and the theorems. Left:

1. Of the remaining liveness, the part that is none: that every answer to the gate
   leaves fewer sites open (`PhaseSettles`, `ScopingSettles`), that between two
   crashes a pair moves through its states in one direction (`FanoutFinishes`).
2. Lemmas about the coverage gate and the validator that hold for all trees and rows.
3. Gates 1–3 of 8.1 and rotation, composed with RedactionPipeline's resumption.
4. Deletions without a range, and entries without a line, in DeltaMode's sweep.
