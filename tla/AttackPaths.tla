----------------------------- MODULE AttackPaths -----------------------------
(***************************************************************************)
(* compose-attack-paths.py as Phase 7 drives it (section 7.15): a run      *)
(* loads the findings file, applies R2, R1 to a fixpoint, then R3 persona  *)
(* by persona, and writes the file back with the computed severities;      *)
(* exit 1 because of escalations sends the rewritten file round again.     *)
(*                                                                         *)
(* severity, severityAsserted, history, rules and suppressedBy are the     *)
(* fields of the file the composer writes back; target, fired, todo,       *)
(* declined, uncited and chainSeverity live for one run.                   *)
(***************************************************************************)
EXTENDS CapabilityGraph, Sequences

VARIABLES
    corpus,             \* what the composer never rewrites
    severity,           \* the `severity` field of each finding
    severityAsserted,   \* `severity_asserted`, Unset until the first rewrite
    history,            \* `severity_history`
    rules,              \* `escalation_rules`
    suppressedBy,       \* `escalation_suppressed_by`, Nobody when absent
    phase,              \* where the run stands
    target,             \* the computed severity
    fired,              \* rules_fired
    todo,               \* personas the R3 loop has not reached
    declined,           \* suppressed_by: the first blocker met, per finding
    uncited,            \* uncited_unreachable_claims
    chainSeverity       \* persona_report[p].chain_severity, Unset when absent

fileVars == <<severity, severityAsserted, history, rules, suppressedBy>>
runVars  == <<target, fired, todo, declined, uncited, chainSeverity>>
vars     == <<corpus, fileVars, phase, runVars>>

Unset == 9          \* no Sev
Nobody == 0         \* no Finding
Rule == {"R1", "R2", "R3"}
Phases == {"R2", "R1", "R3", "ledger", "exit1", "published"}

MinOf(S) == CHOOSE x \in S : \A y \in S : x <= y
MaxOf(S) == CHOOSE x \in S : \A y \in S : y <= x
Higher(a, b) == IF a >= b THEN a ELSE b
-----------------------------------------------------------------------------
Init ==
    /\ corpus \in Corpora
    /\ severity = [f \in Finding |-> corpus[f].severity]
    /\ severityAsserted = [f \in Finding |-> Unset]
    /\ history = [f \in Finding |-> <<>>]
    /\ rules = [f \in Finding |-> {}]
    /\ suppressedBy = [f \in Finding |-> Nobody]
    /\ phase = "R2"
    /\ target = severity
    /\ fired = [f \in Finding |-> {}]
    /\ todo = Persona
    /\ declined = [f \in Finding |-> Nobody]
    /\ uncited = {}
    /\ chainSeverity = [p \in Persona |-> Unset]

(* R2, one pass: a finding is raised to the asserted severity of what its  *)
(* prose names, never to what that severity became a moment ago.           *)
R2FloorOneUp(f) ==      \* slip: a rung above what the prose names
    1 + MaxOf({severity[f]} \cup
              {severity[i] : i \in {g \in Finding : NamedBy(corpus, g, f)}})

R2Floor(f) == MaxOf({severity[f]} \cup
                    {severity[i] : i \in {g \in Finding : NamedBy(corpus, g, f)}})

ApplyR2 ==
    /\ phase = "R2"
    /\ target' = [f \in Finding |-> Higher(target[f], R2Floor(f))]
    /\ fired' = [f \in Finding |->
                   fired[f] \cup IF R2Floor(f) > target[f] THEN {"R2"} ELSE {}]
    /\ phase' = "R1"
    /\ UNCHANGED <<corpus, fileVars, todo, declined, uncited, chainSeverity>>

(* R1, one supply link of the fixpoint loop. *)
UndischargedEitherWay(i, j) ==  \* slip: a consumer raises its supplier too
    (Supplies(corpus, i, j) \/ Supplies(corpus, j, i)) /\ target[i] > target[j]

Undischarged(i, j) == Supplies(corpus, i, j) /\ target[i] > target[j]

ApplyR1(i, j) ==
    /\ phase = "R1"
    /\ Undischarged(i, j)
    /\ target' = [target EXCEPT ![j] = target[i]]
    /\ fired' = [fired EXCEPT ![j] = @ \cup {"R1"}]
    /\ UNCHANGED <<corpus, fileVars, phase, todo, declined, uncited,
                   chainSeverity>>

SettleR1AfterOnePass ==  \* slip: no fixpoint
    /\ phase = "R1"
    /\ phase' = "R3"
    /\ UNCHANGED <<corpus, fileVars, runVars>>

SettleR1 ==
    /\ phase = "R1"
    /\ ~\E i, j \in Finding : Undischarged(i, j)
    /\ phase' = "R3"
    /\ UNCHANGED <<corpus, fileVars, runVars>>

(* R3, one persona.  Personas come in the order the profile lists them,    *)
(* which nothing fixes.                                                    *)
ChainSeverityUnblocked(p) ==    \* slip: a chain that a cite cuts counts too
    IF Fires(corpus, p) THEN CRITICAL
    ELSE MaxOf({target[f] : f \in Path(corpus, p)})

ChainSeverity(p) ==
    IF Fires(corpus, p) /\ Blockers(corpus, p) = {} THEN CRITICAL
    ELSE MaxOf({target[f] : f \in Path(corpus, p)})

ComposePersona(p) ==
    LET raised  == R3Raises(corpus, p)
        spared  == R3Declines(corpus, p)
        blocker == MinOf(Blockers(corpus, p))
    IN  /\ phase = "R3"
        /\ p \in todo
        /\ todo' = todo \ {p}
        /\ target' = [f \in Finding |-> IF f \in raised THEN CRITICAL ELSE target[f]]
        /\ fired' = [f \in Finding |->
              fired[f] \cup IF f \in raised /\ target[f] < CRITICAL
                            THEN {"R3"} ELSE {}]
        /\ declined' = [f \in Finding |->
              IF f \in spared /\ target[f] < CRITICAL /\ declined[f] = Nobody
              THEN blocker ELSE declined[f]]
        /\ uncited' = uncited \cup
              IF Fires(corpus, p)
              THEN {f \in Carriers(corpus, p) : UncitedUnreachable(corpus, f)} ELSE {}
        /\ chainSeverity' = [chainSeverity EXCEPT ![p] =
              IF Path(corpus, p) = {} THEN @ ELSE ChainSeverity(p)]
        /\ UNCHANGED <<corpus, fileVars, phase>>

EndR3 ==
    /\ phase = "R3"
    /\ todo = {}
    /\ phase' = "ledger"
    /\ UNCHANGED <<corpus, fileVars, runVars>>

(* The ledger decides the exit code; the rewrite happens on every run. *)
Escalations == {f \in Finding : target[f] > severity[f]}

Suppressed(f) == declined[f] # Nobody /\ target[f] < CRITICAL

(* The first rewrite records the analyst's rating; later ones keep it. *)
AssertedStampLatest(f) == severity[f]   \* slip: each run stamps its own input

AssertedStamp(f) ==
    IF severityAsserted[f] = Unset THEN severity[f] ELSE severityAsserted[f]

Rewrite ==
    /\ phase = "ledger"
    /\ severity' = target
    /\ severityAsserted' = [f \in Finding |-> AssertedStamp(f)]
    /\ history' = [f \in Finding |->
         IF target[f] # severity[f]
         THEN Append(history[f], [severity |-> target[f], reason |-> fired[f]])
         ELSE history[f]]
    /\ rules' = [f \in Finding |-> IF fired[f] # {} THEN fired[f] ELSE rules[f]]
    /\ suppressedBy' = [f \in Finding |->
         IF Suppressed(f) THEN declined[f] ELSE suppressedBy[f]]
    /\ phase' = IF Escalations = {} THEN "published" ELSE "exit1"
    /\ UNCHANGED <<corpus, runVars>>

(* Phase 7 applies the rewrite and runs the gate again. *)
RerunAsReported ==      \* slip: the analysts' files again, not the rewritten one
    /\ phase = "exit1"
    /\ phase' = "R2"
    /\ severity' = [f \in Finding |-> corpus[f].severity]
    /\ severityAsserted' = [f \in Finding |-> Unset]
    /\ history' = [f \in Finding |-> <<>>]
    /\ rules' = [f \in Finding |-> {}]
    /\ suppressedBy' = [f \in Finding |-> Nobody]
    /\ target' = [f \in Finding |-> corpus[f].severity]
    /\ fired' = [f \in Finding |-> {}]
    /\ todo' = Persona
    /\ declined' = [f \in Finding |-> Nobody]
    /\ uncited' = {}
    /\ chainSeverity' = [p \in Persona |-> Unset]
    /\ UNCHANGED corpus

Rerun ==
    /\ phase = "exit1"
    /\ phase' = "R2"
    /\ target' = severity
    /\ fired' = [f \in Finding |-> {}]
    /\ todo' = Persona
    /\ declined' = [f \in Finding |-> Nobody]
    /\ uncited' = {}
    /\ chainSeverity' = [p \in Persona |-> Unset]
    /\ UNCHANGED <<corpus, fileVars>>

Finished == phase = "published" /\ UNCHANGED vars

Next ==
    \/ ApplyR2
    \/ \E i, j \in Finding : ApplyR1(i, j)
    \/ SettleR1
    \/ \E p \in Persona : ComposePersona(p)
    \/ EndR3
    \/ Rewrite
    \/ Rerun
    \/ Finished

Spec == Init /\ [][Next]_vars

(* The composer is a sequential program, and Phase 7 goes on until it has  *)
(* converged: steps are taken for ever or the file is published.  TLC finds *)
(* no deadlock, so that a step is possible until then.                     *)
FairSpec == Spec /\ ([]<>(phase = "published") \/ []<><<TRUE>>_vars)
-----------------------------------------------------------------------------
TypeOK ==
    /\ corpus \in Corpora
    /\ severity \in [Finding -> Sev]
    /\ severityAsserted \in [Finding -> Sev \cup {Unset}]
    /\ history \in [Finding -> Seq([severity : Sev, reason : SUBSET Rule])]
    /\ rules \in [Finding -> SUBSET Rule]
    /\ suppressedBy \in [Finding -> Finding \cup {Nobody}]
    /\ phase \in Phases
    /\ target \in [Finding -> Sev]
    /\ fired \in [Finding -> SUBSET Rule]
    /\ todo \in SUBSET Persona
    /\ declined \in [Finding -> Finding \cup {Nobody}]
    /\ uncited \in SUBSET Finding
    /\ chainSeverity \in [Persona -> Sev \cup {Unset}]
-----------------------------------------------------------------------------
(* A rating is settled when no rule would move it: every supplier and      *)
(* every finding named in chain prose is rated no higher than its          *)
(* consumer, and every carrier of an open chain is CRITICAL.               *)
Links == {l \in Finding \X Finding :
             Supplies(corpus, l[1], l[2]) \/ NamedBy(corpus, l[1], l[2])}
Carried == UNION {R3Raises(corpus, p) : p \in Persona}

Settled(r, links, carried) == /\ \A l \in links : r[l[1]] <= r[l[2]]
                              /\ \A f \in carried : r[f] = CRITICAL

(* Exit 0 means converged: the file a clean run leaves is settled, although *)
(* no run re-applies R1 after R3, nor R2 after either (lines 1046-1195).   *)
PublishedIsSettled ==
    phase = "published" => Settled(severity, Links, Carried)

(* The gate never rates a finding above what the rules demand: each run    *)
(* stays below every settled rating that respects the analyst's floor      *)
(* (over-escalation is what contributing_slice exists to stop).            *)
NoOverEscalation ==
    LET links   == Links
        carried == Carried
    IN  \A r \in [Finding -> Sev] :
          /\ \A f \in Finding : corpus[f].severity <= r[f]
          /\ Settled(r, links, carried)
          => \A f \in Finding : target[f] <= r[f]

(* Provenance survives any number of rewrites: severity_asserted keeps the *)
(* analyst's rating, severity_history climbs strictly from it to the       *)
(* current severity, and escalation_rules is what fired at the last climb. *)
HistoryExplains ==
    \A f \in Finding :
        LET rise == <<corpus[f].severity>> \o
                      [k \in 1..Len(history[f]) |-> history[f][k].severity]
        IN  /\ severityAsserted[f] \in {Unset, corpus[f].severity}
            /\ \A k \in 1..Len(history[f]) : /\ rise[k] < rise[k + 1]
                                             /\ history[f][k].reason # {}
            /\ rise[Len(rise)] = severity[f]
            /\ history[f] # <<>> => rules[f] = history[f][Len(history[f])].reason

(* The published summary agrees with the findings underneath it: a         *)
(* persona's chain severity is the highest rating on its path, although it *)
(* is computed before later personas raise findings on that path.          *)
ChainSeverityAgrees ==
    phase = "published" =>
        \A p \in Persona :
            chainSeverity[p] = IF Path(corpus, p) = {} THEN Unset
                               ELSE MaxOf({severity[f] : f \in Path(corpus, p)})

(* A declined escalation rests on a chain that is dead without any cited   *)
(* row anywhere in the graph, not only without those of the slice, and on  *)
(* a blocker that is cited and walkable itself (lines 1110-1131).          *)
SuppressionJustified ==
    \A f \in Finding : declined[f] # Nobody =>
        /\ SuppressionEvidence(corpus, declined[f])
        /\ \E p \in Unprivileged :
              LET uncitedRows == {g \in Tagged(corpus) : ~SuppressionEvidence(corpus, g)}
              IN  /\ {f, declined[f]} \subseteq Path(corpus, p)
                  /\ JewelsReached(corpus, Compose(corpus, uncitedRows, Holds[p]),
                                   Holds[p]) = {}

(* Re-running the gate ends: Phase 7 reaches an exit 0 on escalations.     *)
Converges == <>(phase = "published")

Contract == INSTANCE RatingContract WITH published <- phase = "published"

(* The loops, however ordered and however often re-run, implement the      *)
(* declarative contract: monotone, bounded, least.                         *)
ImplementsContract == Contract!ContractSpec
-----------------------------------------------------------------------------
(* Why a clean run leaves a settled file: the strengthening that the steps *)
(* preserve.  A floor, once reached, is never left because severities only *)
(* rise; R1's fixpoint is only known while R3 has raised nothing.          *)
OnlyRises == \A f \in Finding : /\ corpus[f].severity <= severity[f]
                               /\ severity[f] <= target[f]

R2Done == phase \in {"R1", "R3", "ledger"} =>
    \A i, j \in Finding : NamedBy(corpus, i, j) => severity[i] <= target[j]

R1Done == phase \in {"R3", "ledger"} /\ target = severity =>
    \A i, j \in Finding : Supplies(corpus, i, j) => severity[i] <= severity[j]

R3Done == phase \in {"R3", "ledger"} =>
    \A p \in Persona \ todo : \A f \in Finding :
        f \in R3Raises(corpus, p) => target[f] = CRITICAL

SettledByRun ==
    /\ OnlyRises /\ R2Done /\ R1Done /\ R3Done
    /\ phase \in {"R2", "R1"} => todo = Persona
    /\ phase = "ledger" => todo = {}
    /\ PublishedIsSettled
=============================================================================
