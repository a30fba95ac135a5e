------------------------ MODULE BaselineRatchetProofs ------------------------
(***************************************************************************)
(* Phase 8 reads a summary that may be missing or come from an earlier run *)
(* of the gate, and the gate judges severities before it raises them.      *)
(* Whatever the matching and the rules of Governance are, what it persists *)
(* was judged as it is persisted, unless the gate raised an exception.     *)
(***************************************************************************)
EXTENDS BaselineRatchet, Extremes

(* `judged` is only entered by a gate run that moved nothing (or raised),  *)
(* and left by whatever touches the findings, the code or the baseline.    *)
Passed ==
    phase = "judged" /\ summary # "blocking" =>
        \/ Objections(findings, full, Diff, run, run) = {}
        \/ Raises(findings)

IInv ==
    /\ findings = [i \in DOMAIN findings |-> findings[i]]
    /\ Passed

(* No audit has been judged in the initial state (an empty current/).      *)
LEMMA InitPassed == Init => IInv
  BY DEF Init, IInv, Passed

(* A gate run that escalates nothing, so that the audit goes on to Phase 8, *)
(* rewrites the findings to themselves.                                    *)
LEMMA CleanRunKeepsFindings ==
    ASSUME IInv, RunGate, phase' = "judged"
    PROVE  findings' = findings
  <1>1. Escalated = {}
    BY DEF RunGate
  <1>2. findings' = [i \in DOMAIN findings |-> findings[i]]
    BY <1>1 DEF RunGate
  <1> QED
    BY <1>2 DEF IInv

(* Every step keeps the verdict true: what would change the findings, the  *)
(* code, the day or the baseline under it also leaves `judged`.            *)
LEMMA NextPassed == IInv /\ [Next]_vars => IInv'
  <1> SUFFICES ASSUME IInv, [Next]_vars PROVE IInv'
    OBVIOUS
  <1>1. ASSUME NEW n \in Line, InsertAbove(n) PROVE IInv'
    BY <1>1 DEF IInv, Passed, InsertAbove, auditVars
  <1>2. ASSUME NEW i \in Issue, Mend(i) PROVE IInv'
    BY <1>2 DEF IInv, Passed, Mend, auditVars
  <1>3. ASSUME NEW reported, NEW rating, NEW stated, NEW carry, NEW chain, NEW form,
               StartAudit(reported, rating, stated, carry, chain, form)
        PROVE  IInv'
    <2>1. phase' = "gate"
      BY <1>3 DEF StartAudit
    <2>2. findings' = [i \in DOMAIN findings' |-> findings'[i]]
      BY <1>3 DEF StartAudit
    <2> QED
      BY <2>1, <2>2 DEF IInv, Passed
  <1>4. CASE RunGate
    <2>1. findings' = [i \in DOMAIN findings' |-> findings'[i]]
      BY <1>4 DEF RunGate
    <2>2. CASE phase' = "judged"
      <3>1. findings' = findings
        BY <1>4, <2>2, CleanRunKeepsFindings
      <3>2. Diff' = Diff
        BY <1>4 DEF RunGate, Diff
      <3>3. summary' # "blocking" => Objections(findings, full, Diff, run, run) = {}
        BY <1>4 DEF RunGate
      <3>4. full' = full /\ run' = run
        BY <1>4 DEF RunGate
      <3> QED
        BY <2>1, <3>1, <3>2, <3>3, <3>4 DEF IInv, Passed
    <2> QED
      BY <2>1, <2>2 DEF IInv, Passed
  <1>5. CASE GateRaises
    BY <1>5 DEF IInv, Passed, GateRaises
  <1>6. ASSUME NEW i \in DOMAIN findings, RecordReason(i) PROVE IInv'
    BY <1>6 DEF IInv, Passed, RecordReason
  <1>7. ASSUME NEW i \in DOMAIN findings, NEW lc \in Remedies, Remedy(i, lc)
        PROVE  IInv'
    BY <1>7 DEF IInv, Passed, Remedy
  <1>8. CASE SkipPhase8
    BY <1>8 DEF IInv, Passed, SkipPhase8, EndAudit
  <1>9. CASE WriteFull
    BY <1>9 DEF IInv, Passed, WriteFull
  <1>10. CASE WritePruned
    BY <1>10 DEF IInv, Passed, WritePruned, EndAudit
  <1>11. CASE Abort
    BY <1>11 DEF IInv, Passed, Abort, EndAudit
  <1>12. CASE FreshClone
    BY <1>12 DEF IInv, Passed, FreshClone, auditVars
  <1>13. CASE UNCHANGED vars
    BY <1>13 DEF IInv, Passed, vars, auditVars, Diff
  <1> QED
    BY <1>1, <1>2, <1>3, <1>4, <1>5, <1>6, <1>7, <1>8, <1>9, <1>10, <1>11,
       <1>12, <1>13 DEF Next

(* Phase 8 persists nothing the gate would object to, for any files, any   *)
(* titles, any tolerances and any number of audits and re-runs             *)
(* (phase-08-baseline.md 8.1).                                             *)
THEOREM OnlyJudgedPersists == Spec => PersistedWasJudged
  <1>1. IInv /\ [Next]_vars =>
          [full' # full /\ full' # NoBaseline =>
             \/ Objections(findings, full, Diff, run, run) = {}
             \/ Raises(findings)]_full
    <2> SUFFICES ASSUME IInv, [Next]_vars, full' # full, full' # NoBaseline
                 PROVE  \/ Objections(findings, full, Diff, run, run) = {}
                        \/ Raises(findings)
      OBVIOUS
    <2>1. CASE WriteFull
      BY <2>1 DEF IInv, Passed, WriteFull
    <2> QED
      BY <2>1 DEF Next, vars, auditVars, InsertAbove, Mend, StartAudit, RunGate,
                  GateRaises, RecordReason, Remedy, SkipPhase8, WritePruned,
                  Abort, FreshClone
  <1> QED
    BY <1>1, InitPassed, NextPassed, PTL DEF Spec, PersistedWasJudged
-----------------------------------------------------------------------------
(* Types. *)
Finding == [line : Line, severity : Sev, firstSeen : Nat,
            history : SUBSET HistoryEntry, lifecycle : Lifecycle]

LEMMA PartialFacts ==
    ASSUME NEW S, NEW T, NEW f
    PROVE  f \in Partial(S, T) <=> DOMAIN f \subseteq S /\ f \in [DOMAIN f -> T]
BY DEF Partial

LEMMA FindingAtFacts ==
    ASSUME NEW l \in {findings[i].line : i \in DOMAIN findings}
    PROVE  FindingAt(l) \in DOMAIN findings /\ findings[FindingAt(l)].line = l
BY DEF FindingAt

LEMMA CarriedEntryType ==
    ASSUME TypeOK, NEW l \in {findings[i].line : i \in DOMAIN findings}
    PROVE  CarriedEntry(l) \in Entry
<1> DEFINE f == findings[FindingAt(l)]
<1>1. FindingAt(l) \in Issue /\ f \in Finding /\ run \in Nat
  BY FindingAtFacts, InputAssumption DEF TypeOK, Finding
<1>2. l \in DOMAIN full.entries => full.entries[l] \in Entry
  BY DEF TypeOK
<1> QED
  BY <1>1, <1>2 DEF CarriedEntry, Entry, Finding

LEMMA OpenType == Open \in Lifecycle
BY DEF Open, Lifecycle

LEMMA TypeInit == Init => TypeOK
<1> SUFFICES ASSUME Init PROVE TypeOK
  OBVIOUS
<1>1. place \in Partial(Issue, Line)
  BY PartialFacts DEF Init
<1>2. full.created \in 0 .. MaxRuns /\ run = full.created
  BY BaselineAssumption DEF Init
<1>3. DOMAIN full.entries \subseteq Line /\ \A l \in DOMAIN full.entries : full.entries[l] \in Entry
  BY BaselineAssumption DEF Init
<1>4. DOMAIN findings = {}
  BY DEF Init
<1>5. DOMAIN oldest = DOMAIN full.entries /\ \A l \in DOMAIN oldest : oldest[l] \in Nat
  BY <1>3 DEF Init, Entry
<1> QED
  BY <1>1, <1>2, <1>3, <1>4, <1>5, InputAssumption DEF Init, TypeOK

LEMMA TypeStep == TypeOK /\ [Next]_vars => TypeOK'
<1> SUFFICES ASSUME TypeOK, [Next]_vars PROVE TypeOK'
  OBVIOUS
<1>1. ASSUME NEW n \in Line, InsertAbove(n) PROVE TypeOK'
  <2> DEFINE shift(x) == IF x >= n THEN x + 1 ELSE x
  <2>1. DOMAIN place \subseteq Issue /\ place \in [DOMAIN place -> Line]
    BY PartialFacts DEF TypeOK
  <2>2. place' = [i \in DOMAIN place |-> shift(place[i])]
        /\ \A i \in DOMAIN place : shift(place[i]) <= LastLine
    BY <1>1 DEF InsertAbove
  <2>3. \A i \in DOMAIN place : shift(place[i]) \in Line
    BY <2>1, <2>2, GovernanceAssumption DEF Line
  <2>4. place' \in Partial(Issue, Line)
    <3> HIDE DEF shift
    <3> QED
      BY <2>1, <2>2, <2>3, PartialFacts
  <2>5. edits' \subseteq Line
    BY <1>1 DEF InsertAbove
  <2> QED
    BY <1>1, <2>4, <2>5 DEF InsertAbove, TypeOK, auditVars
<1>2. ASSUME NEW i \in Issue, Mend(i) PROVE TypeOK'
  <2>1. DOMAIN place \subseteq Issue /\ place \in [DOMAIN place -> Line]
    BY PartialFacts DEF TypeOK
  <2>2. place' = [k \in DOMAIN place \ {i} |-> place[k]]
    BY <1>2 DEF Mend
  <2>3. place' \in Partial(Issue, Line)
    BY <2>1, <2>2, PartialFacts
  <2>4. edits' \subseteq Line
    BY <1>2, <2>1 DEF Mend, TypeOK
  <2> QED
    BY <1>2, <2>3, <2>4 DEF Mend, TypeOK, auditVars
<1>3. ASSUME NEW reported \in SUBSET DOMAIN place, NEW rating \in [reported -> Ratings],
             NEW stated \in [reported -> OwnDates],
             NEW carry \in BOOLEAN, NEW chain \in SUBSET (reported \cap Chainable),
             NEW form \in {"omitted", "path", "ranges"},
             StartAudit(reported, rating, stated, carry, chain, form)
      PROVE  TypeOK'
  <2>1. DOMAIN place \subseteq Issue /\ place \in [DOMAIN place -> Line]
    BY PartialFacts DEF TypeOK
  <2> DEFINE known(i) == carry /\ place[i] \in DOMAIN full.entries
             new(i) == [line      |-> place[i],
                        severity  |-> rating[i],
                        firstSeen |-> IF known(i) THEN full.entries[place[i]].firstSeen
                                                  ELSE stated[i],
                        history   |-> IF known(i) THEN full.entries[place[i]].history ELSE {},
                        lifecycle |-> IF known(i) THEN full.entries[place[i]].lifecycle ELSE Open]
  <2>2. findings' = [i \in reported |-> new(i)]
    BY <1>3 DEF StartAudit
  <2>3. ASSUME NEW i \in reported PROVE new(i) \in Finding
    <3>1. place[i] \in Line /\ rating[i] \in Sev /\ stated[i] \in Nat
      BY <2>1, InputAssumption
    <3>2. known(i) => full.entries[place[i]] \in Entry
      BY DEF TypeOK
    <3> QED
      BY <3>1, <3>2, OpenType DEF Finding, Entry
  <2>4. DOMAIN findings' \subseteq Issue /\ \A i \in DOMAIN findings' : findings'[i] \in Finding
    <3> HIDE DEF new
    <3> QED
      BY <2>1, <2>2, <2>3
  <2>5. run' \in 0 .. MaxRuns
    BY <1>3, InputAssumption DEF StartAudit, TypeOK
  <2>6. chained' \subseteq Issue
    BY <1>3, InputAssumption DEF StartAudit
  <2> QED
    BY <1>3, <2>4, <2>5, <2>6 DEF StartAudit, TypeOK, Finding
<1>4. CASE RunGate
  <2>1. DOMAIN findings' = DOMAIN findings
    BY <1>4 DEF RunGate
  <2>2. ASSUME NEW i \in DOMAIN findings PROVE findings'[i] \in Finding
    <3>1. findings[i] \in Finding /\ run \in Nat
      BY InputAssumption DEF TypeOK, Finding
    <3>2. [run |-> run, severity |-> CRITICAL, sound |-> FALSE] \in HistoryEntry
      BY <3>1 DEF HistoryEntry, Sev, CRITICAL
    <3> DEFINE raised == findings[i].history \cup {[run |-> run, severity |-> CRITICAL, sound |-> FALSE]}
               judged(k) == IF k \notin Escalated THEN findings[k]
                            ELSE [findings[k] EXCEPT
                                    !.severity = CRITICAL,
                                    !.history = @ \cup {[run |-> run, severity |-> CRITICAL,
                                                         sound |-> FALSE]}]
    <3>3. findings'[i] = judged(i)
      <4>1. findings' = [k \in DOMAIN findings |-> judged(k)]
        BY <1>4 DEF RunGate
      <4> HIDE DEF judged
      <4> QED
        BY <4>1
    <3>4. raised \in SUBSET HistoryEntry /\ CRITICAL \in Sev
      <4>1. findings[i].history \in SUBSET HistoryEntry /\ CRITICAL \in Sev
        BY <3>1 DEF Finding, Sev, CRITICAL
      <4> QED
        BY <3>2, <4>1
    <3> HIDE DEF raised
    <3>5. ASSUME NEW c \in Sev, NEW h \in SUBSET HistoryEntry
          PROVE  [findings[i] EXCEPT !.severity = c, !.history = h] \in Finding
      BY <3>1 DEF Finding
    <3>6. CASE i \in Escalated
      <4>1. findings'[i] = [findings[i] EXCEPT !.severity = CRITICAL, !.history = raised]
        BY <3>3, <3>6, Zenon DEF raised
      <4> QED
        BY <3>4, <3>5, <4>1
    <3>7. CASE i \notin Escalated
      BY <3>1, <3>3, <3>7
    <3> QED
      BY <3>6, <3>7
  <2> QED
    BY <1>4, <2>1, <2>2 DEF RunGate, TypeOK, Finding
<1>5. CASE GateRaises
  BY <1>5 DEF GateRaises, TypeOK
<1>6. ASSUME NEW i \in DOMAIN findings, RecordReason(i) PROVE TypeOK'
  <2>1. [run |-> run, severity |-> findings[i].severity, sound |-> TRUE] \in HistoryEntry
    BY InputAssumption DEF TypeOK, HistoryEntry
  <2>2. DOMAIN findings' = DOMAIN findings /\ \A k \in DOMAIN findings : findings'[k] \in Finding
    BY <1>6, <2>1 DEF RecordReason, TypeOK, Finding
  <2> QED
    BY <1>6, <2>2 DEF RecordReason, TypeOK, Finding
<1>7. ASSUME NEW i \in DOMAIN findings, NEW lc \in Remedies, Remedy(i, lc) PROVE TypeOK'
  <2>1. DOMAIN findings' = DOMAIN findings /\ \A k \in DOMAIN findings : findings'[k] \in Finding
    BY <1>7, InputAssumption DEF Remedy, TypeOK, Finding
  <2> QED
    BY <1>7, <2>1 DEF Remedy, TypeOK, Finding
<1>8. ASSUME EndAudit, UNCHANGED <<place, edits, full, run, oldest>>, pruned' \in {pruned, full}
      PROVE  TypeOK'
  <2>1. DOMAIN findings' = {}
    BY <1>8 DEF EndAudit
  <2> QED
    BY <1>8, <2>1 DEF EndAudit, TypeOK
<1>9. CASE SkipPhase8 \/ WritePruned \/ Abort
  BY <1>8, <1>9 DEF SkipPhase8, WritePruned, Abort
<1>10. CASE WriteFull
  <2> DEFINE lines == {findings[i].line : i \in DOMAIN findings}
  <2>1. /\ full' = [created |-> run, entries |-> [l \in lines |-> CarriedEntry(l)]]
        /\ oldest' = [l \in lines |->
              IF l \in DOMAIN full.entries /\ full.entries[l].issue = FindingAt(l)
              THEN oldest[l] ELSE run]
        /\ edits' = {} /\ phase' = "pruning"
        /\ UNCHANGED <<place, pruned, run, findings, chained, diffForm, summary>>
    BY <1>10 DEF WriteFull
  <2>2. lines \subseteq Line /\ \A l \in lines : CarriedEntry(l) \in Entry
    BY CarriedEntryType DEF TypeOK
  <2>3. run \in Nat
    BY InputAssumption DEF TypeOK
  <2> HIDE DEF lines
  <2>4. /\ full'.created \in Nat /\ DOMAIN full'.entries = lines
        /\ \A l \in lines : full'.entries[l] \in Entry
    BY <2>1, <2>2, <2>3
  <2>5. DOMAIN oldest' = lines /\ \A l \in lines : oldest'[l] \in Nat
    BY <2>1, <2>3 DEF TypeOK
  <2> QED
    BY <2>1, <2>2, <2>4, <2>5 DEF TypeOK
<1>11. CASE FreshClone
  <2>1. full'.created \in Nat /\ DOMAIN full'.entries = {} /\ DOMAIN oldest' = {}
    BY <1>11 DEF FreshClone, NoBaseline
  <2> QED
    BY <1>11, <2>1 DEF FreshClone, auditVars, TypeOK
<1>12. CASE UNCHANGED vars
  BY <1>12 DEF vars, auditVars, TypeOK
<1> QED
  BY <1>1, <1>2, <1>3, <1>4, <1>5, <1>6, <1>7, <1>9, <1>10, <1>11, <1>12 DEF Next

(* Every variable keeps its type: what is reported, raised, answered and   *)
(* carried forward is always a finding or an entry.                        *)
THEOREM TypeCorrect == Spec => []TypeOK
BY TypeInit, TypeStep, PTL DEF Spec
-----------------------------------------------------------------------------
(* The ratchet and the age rule. *)

(* No gate run raises: nobody writes an expiry without a time zone. *)
NoneZoneless ==
    /\ \A lc \in Remedies : lc.expiry # "zoneless"
    /\ \A b \in FirstBaselines : \A l \in DOMAIN b.entries :
          b.entries[l].lifecycle.expiry # "zoneless"

(* The first baseline dates its entries. *)
StampedStart ==
    \A b \in FirstBaselines : \A l \in DOMAIN b.entries : b.entries[l].firstSeen # 0

(* Nothing is dated later than the file it stands in, and the baseline an  *)
(* audit is judged by is of an earlier day.                                *)
Dates ==
    /\ full.created <= run
    /\ phase \in {"gate", "judged"} => full.created < run
    /\ \A l \in DOMAIN full.entries :
          /\ full.entries[l].firstSeen <= oldest[l] /\ oldest[l] <= full.created
          /\ \A h \in full.entries[l].history : h.run <= full.created
    /\ \A i \in DOMAIN findings : \A h \in findings[i].history : h.run <= run

(* Two issues are never at one line, in the code or in the findings. *)
Distinct ==
    /\ \A i, k \in DOMAIN place : place[i] = place[k] => i = k
    /\ \A i, k \in DOMAIN findings : findings[i].line = findings[k].line => i = k

Zoned ==
    /\ \A i \in DOMAIN findings : findings[i].lifecycle.expiry # "zoneless"
    /\ \A l \in DOMAIN full.entries : full.entries[l].lifecycle.expiry # "zoneless"

Stamped == \A l \in DOMAIN full.entries : full.entries[l].firstSeen # 0

(* What the gate and the people leave of a finding: its line; and its      *)
(* history only grows, by an entry of the current run.                     *)
Kept(f, g) ==
    g.line = f.line /\ \A h \in g.history : h \in f.history \/ h.run = run

LEMMA GateKeeps ==
    ASSUME TypeOK, RunGate
    PROVE  /\ DOMAIN findings' = DOMAIN findings
           /\ \A i \in DOMAIN findings : /\ Kept(findings[i], findings'[i])
                                         /\ findings'[i].lifecycle = findings[i].lifecycle
<1> DEFINE judged(k) == IF k \notin Escalated THEN findings[k]
                        ELSE [findings[k] EXCEPT
                                !.severity = CRITICAL,
                                !.history = @ \cup {[run |-> run, severity |-> CRITICAL,
                                                     sound |-> FALSE]}]
<1>1. findings' = [k \in DOMAIN findings |-> judged(k)]
  BY DEF RunGate
<1>2. ASSUME NEW i \in DOMAIN findings
      PROVE  Kept(findings[i], judged(i)) /\ judged(i).lifecycle = findings[i].lifecycle
  <2> DEFINE h == [run |-> run, severity |-> CRITICAL, sound |-> FALSE]
             f == findings[i]
  <2>1. f \in Finding
    BY DEF TypeOK, Finding
  <2>2. h.run = run
    OBVIOUS
  <2> HIDE DEF h
  <2>3. judged(i) = IF i \notin Escalated THEN f
                    ELSE [f EXCEPT !.severity = CRITICAL, !.history = @ \cup {h}]
    BY DEF h
  <2> HIDE DEF f, judged
  <2>4. CASE i \in Escalated
    <3> DEFINE g == [f EXCEPT !.severity = CRITICAL, !.history = @ \cup {h}]
    <3>1. g.line = f.line /\ g.lifecycle = f.lifecycle /\ g.history = f.history \cup {h}
      BY <2>1 DEF Finding
    <3> HIDE DEF g
    <3> QED
      BY <2>2, <2>3, <2>4, <3>1 DEF Kept, f, g
  <2>5. CASE i \notin Escalated
    BY <2>3, <2>5 DEF Kept, f
  <2> QED
    BY <2>4, <2>5
<1> HIDE DEF judged
<1> QED
  BY <1>1, <1>2

LEMMA ReasonKeeps ==
    ASSUME TypeOK, NEW i \in DOMAIN findings, RecordReason(i)
    PROVE  /\ DOMAIN findings' = DOMAIN findings
           /\ \A k \in DOMAIN findings : /\ Kept(findings[k], findings'[k])
                                         /\ findings'[k].lifecycle = findings[k].lifecycle
<1> DEFINE h == [run |-> run, severity |-> findings[i].severity, sound |-> TRUE]
<1>1. h.run = run
  OBVIOUS
<1>2. findings' = [findings EXCEPT ![i].history = @ \cup {h}]
  BY DEF RecordReason
<1>3. \A k \in DOMAIN findings : findings[k] \in Finding
  BY DEF TypeOK, Finding
<1> HIDE DEF h
<1> QED
  BY <1>1, <1>2, <1>3 DEF Kept, Finding

LEMMA RemedyKeeps ==
    ASSUME TypeOK, NEW i \in DOMAIN findings, NEW lc \in Remedies, Remedy(i, lc)
    PROVE  /\ DOMAIN findings' = DOMAIN findings
           /\ \A k \in DOMAIN findings :
                 /\ Kept(findings[k], findings'[k])
                 /\ findings'[k].lifecycle = IF k = i THEN lc ELSE findings[k].lifecycle
<1>1. \A k \in DOMAIN findings : findings[k] \in Finding
  BY DEF TypeOK, Finding
<1> QED
  BY <1>1 DEF Remedy, Kept, Finding

(* What an audit reports: a finding it carried over has the history and    *)
(* the lifecycle of its entry, any other has neither.                      *)
FindingsOf(reported) ==
    /\ DOMAIN findings' = reported
    /\ \A i \in reported :
          /\ findings'[i].line = place[i]
          /\ \/ /\ place[i] \in DOMAIN full.entries
                /\ findings'[i].history = full.entries[place[i]].history
                /\ findings'[i].lifecycle = full.entries[place[i]].lifecycle
             \/ findings'[i].history = {} /\ findings'[i].lifecycle = Open

LEMMA Reported ==
    ASSUME NEW reported, NEW rating, NEW stated, NEW carry, NEW chain, NEW form,
           StartAudit(reported, rating, stated, carry, chain, form)
    PROVE  FindingsOf(reported)
<1> DEFINE known(i) == carry /\ place[i] \in DOMAIN full.entries
           new(i) == [line      |-> place[i],
                      severity  |-> rating[i],
                      firstSeen |-> IF known(i) THEN full.entries[place[i]].firstSeen
                                                ELSE stated[i],
                      history   |-> IF known(i) THEN full.entries[place[i]].history ELSE {},
                      lifecycle |-> IF known(i) THEN full.entries[place[i]].lifecycle ELSE Open]
<1>1. findings' = [i \in reported |-> new(i)]
  BY DEF StartAudit
<1>2. ASSUME NEW i \in reported
      PROVE  /\ new(i).line = place[i]
             /\ \/ /\ place[i] \in DOMAIN full.entries
                   /\ new(i).history = full.entries[place[i]].history
                   /\ new(i).lifecycle = full.entries[place[i]].lifecycle
                \/ new(i).history = {} /\ new(i).lifecycle = Open
  OBVIOUS
<1> HIDE DEF new
<1> QED
  BY <1>1, <1>2 DEF FindingsOf

(* What Phase 8 makes of the findings. *)
LEMMA Written ==
    ASSUME TypeOK, WriteFull
    PROVE  LET lines == {findings[i].line : i \in DOMAIN findings}
           IN  /\ full'.created = run /\ DOMAIN full'.entries = lines
               /\ DOMAIN oldest' = lines
               /\ \A l \in lines :
                     /\ full'.entries[l] = CarriedEntry(l)
                     /\ oldest'[l] = IF l \in DOMAIN full.entries
                                        /\ full.entries[l].issue = FindingAt(l)
                                     THEN oldest[l] ELSE run
<1> DEFINE lines == {findings[i].line : i \in DOMAIN findings}
<1>1. /\ full' = [created |-> run, entries |-> [l \in lines |-> CarriedEntry(l)]]
      /\ oldest' = [l \in lines |->
            IF l \in DOMAIN full.entries /\ full.entries[l].issue = FindingAt(l)
            THEN oldest[l] ELSE run]
  BY DEF WriteFull
<1> HIDE DEF lines
<1>2. /\ full'.created = run /\ DOMAIN full'.entries = lines
      /\ DOMAIN oldest' = lines
      /\ \A l \in lines :
            /\ full'.entries[l] = CarriedEntry(l)
            /\ oldest'[l] = IF l \in DOMAIN full.entries
                               /\ full.entries[l].issue = FindingAt(l)
                            THEN oldest[l] ELSE run
  BY <1>1
<1> QED
  BY <1>2 DEF lines

DatedInv == TypeOK /\ Dates /\ Distinct

LEMMA DatedInit == Init => DatedInv
<1> SUFFICES ASSUME Init PROVE DatedInv
  OBVIOUS
<1>1. TypeOK
  BY TypeInit
<1>2. \A l \in DOMAIN full.entries :
         /\ full.entries[l].firstSeen <= full.created
         /\ \A h \in full.entries[l].history : h.run <= full.created
  BY BaselineAssumption DEF Init
<1>3. full.created \in Nat /\ DOMAIN findings = {}
  BY <1>1 DEF TypeOK, Init
<1>4. \A l \in DOMAIN full.entries : full.entries[l].firstSeen \in Nat
  BY <1>1 DEF TypeOK, Entry
<1>5. Dates
  BY <1>2, <1>3, <1>4 DEF Init, Dates
<1>6. Distinct
  BY <1>3 DEF Init, Distinct
<1> QED
  BY <1>1, <1>5, <1>6 DEF DatedInv

LEMMA DatedStep == DatedInv /\ [Next]_vars => DatedInv'
<1> SUFFICES ASSUME DatedInv, [Next]_vars PROVE DatedInv'
  OBVIOUS
<1> USE DEF DatedInv
<1>t. TypeOK'
  BY TypeStep
<1>n. run \in Nat /\ full.created \in Nat
  BY InputAssumption DEF TypeOK
<1>1. ASSUME NEW n \in Line, InsertAbove(n) PROVE DatedInv'
  <2> DEFINE shift(x) == IF x >= n THEN x + 1 ELSE x
  <2>1. place' = [i \in DOMAIN place |-> shift(place[i])]
    BY <1>1 DEF InsertAbove
  <2>2. place \in [DOMAIN place -> Line]
    BY PartialFacts DEF TypeOK
  <2>3. \A x, y \in Line : shift(x) = shift(y) => x = y
    BY DEF Line
  <2> HIDE DEF shift
  <2>4. \A i, k \in DOMAIN place' : place'[i] = place'[k] => i = k
    BY <2>1, <2>2, <2>3 DEF Distinct
  <2> QED
    BY <1>1, <1>t, <2>4 DEF InsertAbove, auditVars, Dates, Distinct
<1>2. ASSUME NEW i \in Issue, Mend(i) PROVE DatedInv'
  <2>1. \A j, k \in DOMAIN place' : place'[j] = place'[k] => j = k
    BY <1>2 DEF Mend, Distinct
  <2> QED
    BY <1>2, <1>t, <2>1 DEF Mend, auditVars, Dates, Distinct
<1>3. ASSUME NEW reported \in SUBSET DOMAIN place, NEW rating \in [reported -> Ratings],
             NEW stated \in [reported -> OwnDates],
             NEW carry \in BOOLEAN, NEW chain, NEW form,
             StartAudit(reported, rating, stated, carry, chain, form)
      PROVE  DatedInv'
  <2>0. FindingsOf(reported)
    BY <1>3, Reported
  <2>1. run' = run + 1 /\ UNCHANGED <<place, full, oldest>>
    BY <1>3 DEF StartAudit
  <2>2. Distinct'
    <3>1. \A i \in DOMAIN findings' : i \in DOMAIN place /\ findings'[i].line = place[i]
      BY <2>0 DEF FindingsOf
    <3> QED
      BY <2>1, <3>1 DEF Distinct
  <2>3. \A i \in DOMAIN findings' : \A h \in findings'[i].history : h.run <= run'
    <3> SUFFICES ASSUME NEW i \in DOMAIN findings', NEW h \in findings'[i].history
                 PROVE  h.run <= run'
      OBVIOUS
    <3>1. \/ /\ place[i] \in DOMAIN full.entries
             /\ findings'[i].history = full.entries[place[i]].history
          \/ findings'[i].history = {}
      BY <2>0 DEF FindingsOf
    <3>2. /\ place[i] \in DOMAIN full.entries /\ h \in full.entries[place[i]].history
      BY <3>1
    <3>3. h.run \in Nat
      BY <3>2 DEF TypeOK, Entry, HistoryEntry
    <3> QED
      BY <1>n, <2>1, <3>2, <3>3 DEF Dates
  <2>4. Dates'
    BY <1>n, <2>1, <2>3 DEF Dates
  <2> QED
    BY <1>t, <2>2, <2>4
<1>4. ASSUME DOMAIN findings' = DOMAIN findings,
             \A i \in DOMAIN findings : Kept(findings[i], findings'[i]),
             UNCHANGED <<place, full, run, oldest>>,
             phase \in {"gate", "judged"}
      PROVE  DatedInv'
  <2>1. \A i \in DOMAIN findings' : \A h \in findings'[i].history : h.run <= run'
    BY <1>4, <1>n DEF Kept, Dates
  <2>2. Distinct'
    BY <1>4 DEF Kept, Distinct
  <2>3. Dates'
    BY <1>4, <2>1 DEF Dates
  <2> QED
    BY <1>t, <2>2, <2>3
<1>5. CASE RunGate
  <2>1. UNCHANGED <<place, full, run, oldest>> /\ phase \in {"gate", "judged"}
    BY <1>5 DEF RunGate
  <2> QED
    BY <1>4, <1>5, <2>1, GateKeeps
<1>6. CASE GateRaises
  BY <1>6, <1>t DEF GateRaises, Dates, Distinct
<1>7. ASSUME NEW i \in DOMAIN findings, RecordReason(i) PROVE DatedInv'
  <2>1. UNCHANGED <<place, full, run, oldest>> /\ phase \in {"gate", "judged"}
    BY <1>7 DEF RecordReason
  <2> QED
    BY <1>4, <1>7, <2>1, ReasonKeeps
<1>8. ASSUME NEW i \in DOMAIN findings, NEW lc \in Remedies, Remedy(i, lc) PROVE DatedInv'
  <2>1. UNCHANGED <<place, full, run, oldest>> /\ phase \in {"gate", "judged"}
    BY <1>8 DEF Remedy
  <2> QED
    BY <1>4, <1>8, <2>1, RemedyKeeps
<1>9. CASE SkipPhase8 \/ WritePruned \/ Abort
  <2>1. findings' = <<>> /\ phase' = "idle" /\ UNCHANGED <<place, full, run, oldest>>
    BY <1>9 DEF SkipPhase8, WritePruned, Abort, EndAudit
  <2>2. DOMAIN findings' = {}
    BY <2>1
  <2> QED
    BY <1>t, <2>1, <2>2 DEF Dates, Distinct
<1>10. CASE WriteFull
  <2> DEFINE lines == {findings[i].line : i \in DOMAIN findings}
  <2>1. UNCHANGED <<place, run, findings>> /\ phase' = "pruning" /\ phase = "judged"
    BY <1>10 DEF WriteFull
  <2>2. /\ full'.created = run /\ DOMAIN full'.entries = lines /\ DOMAIN oldest' = lines
        /\ \A l \in lines :
              /\ full'.entries[l] = CarriedEntry(l)
              /\ oldest'[l] = IF l \in DOMAIN full.entries
                                 /\ full.entries[l].issue = FindingAt(l)
                              THEN oldest[l] ELSE run
    BY <1>10, Written
  <2>3. ASSUME NEW l \in lines
        PROVE  /\ full'.entries[l].firstSeen <= oldest'[l] /\ oldest'[l] <= run
               /\ \A h \in full'.entries[l].history : h.run <= run
    <3> DEFINE f == findings[FindingAt(l)]
               p == full.entries[l]
    <3>1. FindingAt(l) \in DOMAIN findings
      BY FindingAtFacts
    <3>2. \A h \in f.history : h.run <= run
      BY <3>1 DEF Dates
    <3>3. CASE l \in DOMAIN full.entries
      <4>1. /\ p.firstSeen \in Nat /\ oldest[l] \in Nat
            /\ p.firstSeen <= oldest[l] /\ oldest[l] <= full.created /\ full.created <= run
            /\ \A h \in p.history : h.run \in Nat /\ h.run <= full.created
        BY <3>3 DEF TypeOK, Dates, Entry, HistoryEntry
      <4>2. CarriedEntry(l).firstSeen = p.firstSeen
            /\ CarriedEntry(l).history = p.history \cup f.history
        BY <3>3 DEF CarriedEntry
      <4> HIDE DEF f, p, lines
      <4> QED
        BY <1>n, <2>2, <2>3, <3>2, <4>1, <4>2
    <3>4. CASE l \notin DOMAIN full.entries
      <4>1. CarriedEntry(l).firstSeen = run /\ CarriedEntry(l).history = f.history
        BY <3>4 DEF CarriedEntry
      <4> HIDE DEF f, lines
      <4> QED
        BY <1>n, <2>2, <2>3, <3>2, <3>4, <4>1
    <3> QED
      BY <3>3, <3>4
  <2>4. Dates'
    <3> HIDE DEF lines
    <3> QED
      BY <1>n, <2>1, <2>2, <2>3 DEF Dates
  <2>5. Distinct'
    BY <2>1 DEF Distinct
  <2> QED
    BY <1>t, <2>4, <2>5
<1>11. CASE FreshClone
  <2>1. DOMAIN full'.entries = {} /\ full'.created = 0 /\ phase' = "idle"
        /\ UNCHANGED <<place, run, findings>>
    BY <1>11 DEF FreshClone, NoBaseline, auditVars
  <2> QED
    BY <1>n, <1>t, <2>1 DEF Dates, Distinct
<1>12. CASE UNCHANGED vars
  BY <1>12, <1>t DEF vars, auditVars, Dates, Distinct
<1> QED
  BY <1>1, <1>2, <1>3, <1>5, <1>6, <1>7, <1>8, <1>9, <1>10, <1>11, <1>12 DEF Next

LEMMA DatedAlways == Spec => []DatedInv
BY DatedInit, DatedStep, PTL DEF Spec

LEMMA ZonedStep ==
    ASSUME NoneZoneless, TypeOK, Zoned, [Next]_vars PROVE Zoned'
<1>o. Open.expiry # "zoneless"
  BY DEF Open
<1>1. ASSUME NEW n \in Line, InsertAbove(n) PROVE Zoned'
  BY <1>1 DEF InsertAbove, auditVars, Zoned
<1>2. ASSUME NEW i \in Issue, Mend(i) PROVE Zoned'
  BY <1>2 DEF Mend, auditVars, Zoned
<1>3. ASSUME NEW reported \in SUBSET DOMAIN place, NEW rating \in [reported -> Ratings],
             NEW stated \in [reported -> OwnDates],
             NEW carry \in BOOLEAN, NEW chain, NEW form,
             StartAudit(reported, rating, stated, carry, chain, form)
      PROVE  Zoned'
  <2>1. full' = full
    BY <1>3 DEF StartAudit
  <2>2. \A i \in DOMAIN findings' :
           \/ /\ place[i] \in DOMAIN full.entries
              /\ findings'[i].lifecycle = full.entries[place[i]].lifecycle
           \/ findings'[i].lifecycle = Open
    BY <1>3, Reported DEF FindingsOf
  <2> QED
    BY <1>o, <2>1, <2>2 DEF Zoned
<1>4. CASE RunGate
  <2>1. full' = full
    BY <1>4 DEF RunGate
  <2> QED
    BY <1>4, <2>1, GateKeeps DEF Zoned
<1>5. CASE GateRaises
  BY <1>5 DEF GateRaises, Zoned
<1>6. ASSUME NEW i \in DOMAIN findings, RecordReason(i) PROVE Zoned'
  <2>1. full' = full
    BY <1>6 DEF RecordReason
  <2> QED
    BY <1>6, <2>1, ReasonKeeps DEF Zoned
<1>7. ASSUME NEW i \in DOMAIN findings, NEW lc \in Remedies, Remedy(i, lc) PROVE Zoned'
  <2>1. full' = full
    BY <1>7 DEF Remedy
  <2>2. lc.expiry # "zoneless"
    BY DEF NoneZoneless
  <2>3. \A k \in DOMAIN findings' : k \in DOMAIN findings /\
           findings'[k].lifecycle = IF k = i THEN lc ELSE findings[k].lifecycle
    BY <1>7, RemedyKeeps
  <2> QED
    BY <2>1, <2>2, <2>3 DEF Zoned
<1>8. CASE SkipPhase8 \/ WritePruned \/ Abort
  <2>1. findings' = <<>> /\ full' = full
    BY <1>8 DEF SkipPhase8, WritePruned, Abort, EndAudit
  <2>2. DOMAIN findings' = {}
    BY <2>1
  <2> QED
    BY <2>1, <2>2 DEF Zoned
<1>9. CASE WriteFull
  <2>1. findings' = findings
    BY <1>9 DEF WriteFull
  <2>2. ASSUME NEW l \in DOMAIN full'.entries
        PROVE  full'.entries[l].lifecycle.expiry # "zoneless"
    <3>1. l \in {findings[i].line : i \in DOMAIN findings} /\ full'.entries[l] = CarriedEntry(l)
      BY <1>9, <2>2, Written
    <3>2. FindingAt(l) \in DOMAIN findings
      BY <3>1, FindingAtFacts
    <3>3. CarriedEntry(l).lifecycle = findings[FindingAt(l)].lifecycle
          \/ (l \in DOMAIN full.entries /\ CarriedEntry(l).lifecycle = full.entries[l].lifecycle)
      BY DEF CarriedEntry
    <3> QED
      BY <3>1, <3>2, <3>3 DEF Zoned
  <2> QED
    BY <2>1, <2>2 DEF Zoned
<1>10. CASE FreshClone
  <2>1. findings' = findings /\ DOMAIN full'.entries = {}
    BY <1>10 DEF FreshClone, NoBaseline, auditVars
  <2> QED
    BY <2>1 DEF Zoned
<1>11. CASE UNCHANGED vars
  BY <1>11 DEF vars, auditVars, Zoned
<1> QED
  BY <1>1, <1>2, <1>3, <1>4, <1>5, <1>6, <1>7, <1>8, <1>9, <1>10, <1>11 DEF Next

(* Where every expiry names its zone, what Phase 8 writes draws no objection. *)
ZonedInv == DatedInv /\ IInv /\ Zoned

LEMMA ZonedAlways == ASSUME NoneZoneless PROVE Spec => []ZonedInv
<1>1. Init => ZonedInv
  <2> SUFFICES ASSUME Init PROVE Zoned
    BY DatedInit, InitPassed DEF ZonedInv
  <2>1. DOMAIN findings = {} /\ full \in FirstBaselines
    BY DEF Init
  <2> QED
    BY <2>1 DEF Zoned, NoneZoneless
<1>2. ZonedInv /\ [Next]_vars => ZonedInv'
  BY DatedStep, NextPassed, ZonedStep DEF ZonedInv, DatedInv
<1> QED
  BY <1>1, <1>2, PTL DEF Spec

LEMMA NoObjections ==
    ASSUME ZonedInv, WriteFull
    PROVE  /\ \A i \in DOMAIN findings : /\ ~UnjustifiedDowngrade(findings, full, i, run)
                                         /\ ~TooOld(findings, full, i, run)
           /\ \A l \in Vanished(findings, full) : Explained(full, l, Diff)
<1>1. ~Raises(findings)
  BY DEF ZonedInv, Zoned, Raises
<1>2. Objections(findings, full, Diff, run, run) = {}
  BY <1>1 DEF ZonedInv, IInv, Passed, WriteFull
<1> QED
  BY <1>2 DEF Objections

LEMMA NotTooOld ==
    ASSUME Objections(findings, full, Diff, run, run) = {}
    PROVE  \A i \in DOMAIN findings : ~TooOld(findings, full, i, run)
BY DEF Objections

(* A claim at the very line of an entry. *)
LEMMA ExactClaim ==
    ASSUME NEW i \in DOMAIN findings, findings[i].line \in DOMAIN full.entries
    PROVE  Claims(findings, full)[i] = findings[i].line
BY DEF Claims, Exact

AgeStep ==
    full' # full => \A l \in DOMAIN full'.entries :
        LET e     == full'.entries[l]
            own   == findings[FindingAt(l)].firstSeen
            since == IF own # 0 THEN own ELSE oldest'[l]
        IN  /\ e.severity >= HIGH /\ e.issue \notin Heuristic
            /\ run - since > MaxAge
            => \/ e.lifecycle.fixCommit
               \/ Accepted(e.lifecycle, run)
               \/ Raises(findings)

LEMMA AgeKept ==
    ASSUME DatedInv, IInv, Stamped, WriteFull PROVE AgeStep
<1> DEFINE lines == {findings[i].line : i \in DOMAIN findings}
<1>1. /\ full'.created = run /\ DOMAIN full'.entries = lines
      /\ \A l \in lines :
            /\ full'.entries[l] = CarriedEntry(l)
            /\ oldest'[l] = IF l \in DOMAIN full.entries
                               /\ full.entries[l].issue = FindingAt(l)
                            THEN oldest[l] ELSE run
  BY Written DEF DatedInv
<1>2. TypeOK /\ Dates /\ run \in Nat /\ MaxAge \in Nat
  BY InputAssumption, GovernanceAssumption DEF DatedInv, TypeOK
<1> DEFINE since(l) == IF findings[FindingAt(l)].firstSeen # 0
                       THEN findings[FindingAt(l)].firstSeen ELSE oldest'[l]
<1> SUFFICES ASSUME NEW l \in lines,
                    CarriedEntry(l).severity >= HIGH,
                    CarriedEntry(l).issue \notin Heuristic,
                    run - since(l) > MaxAge, ~Raises(findings)
             PROVE  \/ CarriedEntry(l).lifecycle.fixCommit
                    \/ Accepted(CarriedEntry(l).lifecycle, run)
  <2> HIDE DEF lines
  <2> QED
    BY <1>1 DEF AgeStep
<1> DEFINE i == FindingAt(l)
           f == findings[i]
           p == full.entries[l]
<1>3. i \in DOMAIN findings /\ f.line = l
  BY FindingAtFacts
<1>4. f \in Finding
  BY <1>2, <1>3 DEF TypeOK, Finding
<1>5. ~TooOld(findings, full, i, run)
  <2>1. Objections(findings, full, Diff, run, run) = {}
    BY DEF IInv, Passed, WriteFull
  <2> HIDE DEF i, f, p, since, lines
  <2> QED
    BY <1>3, <2>1, NotTooOld
<1>6. /\ CarriedEntry(l).severity = f.severity /\ CarriedEntry(l).issue = i
      /\ CarriedEntry(l).lifecycle =
           IF l \in DOMAIN full.entries /\ f.lifecycle = Open THEN p.lifecycle ELSE f.lifecycle
  BY DEF CarriedEntry
<1>7. FirstSeen(findings, full, i) # 0 /\ run - FirstSeen(findings, full, i) > MaxAge
  <2>1. CASE f.firstSeen # 0
    <3>1. FirstSeen(findings, full, i) = f.firstSeen /\ since(l) = f.firstSeen
      BY <2>1 DEF FirstSeen
    <3> HIDE DEF f, since
    <3> QED
      BY <2>1, <3>1
  <2>2. CASE f.firstSeen = 0
    <3>1. since(l) = oldest'[l]
      BY <2>2
    <3>2. l \in DOMAIN full.entries /\ since(l) = oldest[l]
      <4> HIDE DEF lines, since
      <4> QED
        BY <1>1, <1>2, <3>1
    <3>3. Claims(findings, full)[i] = l /\ l # NoLine
      <4>1. l \in Line
        BY <1>2, <3>2 DEF TypeOK
      <4> QED
        BY <1>3, <3>2, <4>1, ExactClaim DEF Line, NoLine
    <3>4. p.firstSeen # 0 /\ p.firstSeen \in Nat /\ oldest[l] \in Nat /\ p.firstSeen <= oldest[l]
      BY <1>2, <3>2 DEF Stamped, Dates, TypeOK, Entry
    <3>5. FirstSeen(findings, full, i) = p.firstSeen
      BY <2>2, <3>3, <3>4 DEF FirstSeen
    <3> HIDE DEF f, p, since
    <3> QED
      BY <1>2, <3>2, <3>4, <3>5
  <2> QED
    BY <2>1, <2>2
<1>8. f.lifecycle.fixCommit \/ Accepted(f.lifecycle, run)
  <2> HIDE DEF f, since
  <2> QED
    BY <1>5, <1>6, <1>7 DEF TooOld, f
<1>9. f.lifecycle # Open
  BY <1>8 DEF Open, Accepted
<1> QED
  BY <1>6, <1>8, <1>9

(* Nothing HIGH and older than the age limit is written to the baseline    *)
(* without a fix or a live, owned acceptance, for any files and any number *)
(* of audits: Phase 8 carries first_seen_at forward, and the gate that let *)
(* it write saw that date, or the one the finding states of itself (L1).   *)
(* It needs the first baseline to date its entries; a gate that raises an  *)
(* exception lets all else through.                                        *)
THEOREM NothingRotsUnseen ==
    ASSUME StampedStart PROVE Spec => NothingRots
<1> DEFINE AgeInv == DatedInv /\ IInv /\ Stamped
<1>1. Init => AgeInv
  <2> SUFFICES ASSUME Init PROVE Stamped
    BY DatedInit, InitPassed
  <2>1. full \in FirstBaselines
    BY DEF Init
  <2> QED
    BY <2>1 DEF StampedStart, Stamped
<1>2. ASSUME AgeInv, [Next]_vars PROVE Stamped'
  <2>1. CASE WriteFull
    <3>1. ASSUME NEW l \in DOMAIN full'.entries PROVE full'.entries[l].firstSeen # 0
      <4>1. full'.entries[l] = CarriedEntry(l)
        BY <1>2, <2>1, <3>1, Written DEF DatedInv
      <4>2. run # 0
        BY <1>2, <2>1, InputAssumption DEF DatedInv, TypeOK, Dates, WriteFull
      <4> QED
        BY <1>2, <4>1, <4>2 DEF CarriedEntry, Stamped
    <3> QED
      BY <3>1 DEF Stamped
  <2>2. CASE FreshClone
    <3>1. DOMAIN full'.entries = {}
      BY <2>2 DEF FreshClone, NoBaseline
    <3> QED
      BY <3>1 DEF Stamped
  <2>3. CASE ~WriteFull /\ ~FreshClone
    <3>1. UNCHANGED full
      BY <1>2, <2>3 DEF Next, vars, auditVars, InsertAbove, Mend, StartAudit, RunGate,
            GateRaises, RecordReason, Remedy, SkipPhase8, WritePruned, Abort
    <3> QED
      BY <1>2, <3>1 DEF Stamped
  <2> QED
    BY <2>1, <2>2, <2>3
<1>3. AgeInv /\ [Next]_vars => AgeInv'
  BY <1>2, DatedStep, NextPassed
<1>4. ASSUME AgeInv, [Next]_vars PROVE AgeStep
  <2>1. CASE WriteFull
    BY <1>4, <2>1, AgeKept
  <2>2. CASE FreshClone
    <3>1. DOMAIN full'.entries = {}
      BY <2>2 DEF FreshClone, NoBaseline
    <3> QED
      BY <3>1 DEF AgeStep
  <2>3. CASE ~WriteFull /\ ~FreshClone
    <3>1. UNCHANGED full
      BY <1>4, <2>3 DEF Next, vars, auditVars, InsertAbove, Mend, StartAudit, RunGate,
            GateRaises, RecordReason, Remedy, SkipPhase8, WritePruned, Abort
    <3> QED
      BY <3>1 DEF AgeStep
  <2> QED
    BY <2>1, <2>2, <2>3
<1>5. AgeInv /\ [Next]_vars => [AgeStep]_full
  BY <1>4
<1> QED
  BY <1>1, <1>3, <1>5, PTL DEF Spec, NothingRots, AgeStep
-----------------------------------------------------------------------------
(* The drift pass pairs what it may pair, and nothing else: it is a greedy *)
(* pass over finitely many candidates in a strict order.                   *)
LEMMA DriftPairs ==
    ASSUME TypeOK
    PROVE  DriftAssign(findings, full) \in SUBSET DriftCandidates(findings, full)
<1> DEFINE C == DriftCandidates(findings, full)
           sim(x) == Alike[x[1]][full.entries[x[2]].issue]
           off(x) == Dist(findings[x[1]].line, x[2])
           ahead(x, y) == Ahead(findings, full, x, y)
           R == {x \in C \X C : ahead(x[1], x[2])}
           Q == {x \in R : Contend(x[2], x[1])}
<1>1. \A x \in C : /\ x[1] \in Nat /\ x[2] \in Nat /\ sim(x) \in Nat /\ off(x) \in Int
                   /\ x = <<x[1], x[2]>>
  <2> SUFFICES ASSUME NEW x \in C
               PROVE  /\ x[1] \in Nat /\ x[2] \in Nat /\ sim(x) \in Nat /\ off(x) \in Int
                      /\ x = <<x[1], x[2]>>
    OBVIOUS
  <2>1. x[1] \in DOMAIN findings /\ x[2] \in DOMAIN full.entries /\ x = <<x[1], x[2]>>
    BY DEF DriftCandidates
  <2>2. x[1] \in Issue /\ x[2] \in Line
    BY <2>1 DEF TypeOK
  <2>3. full.entries[x[2]].issue \in Issue /\ findings[x[1]].line \in Line
    BY <2>1 DEF TypeOK, Entry
  <2> QED
    BY <2>1, <2>2, <2>3, GovernanceAssumption DEF Line, Dist
<1>2. \A x, y \in C : ahead(x, y) <=>
         \/ sim(x) > sim(y)
         \/ sim(x) = sim(y) /\ off(x) < off(y)
         \/ sim(x) = sim(y) /\ off(x) = off(y) /\ x[1] < y[1]
         \/ sim(x) = sim(y) /\ off(x) = off(y) /\ x[1] = y[1] /\ x[2] < y[2]
  BY DEF Ahead
<1>3. IsFiniteSet(C)
  <2>1. IsFiniteSet(Issue) /\ IsFiniteSet(Line)
    BY GovernanceAssumption, FS_Interval DEF Line
  <2>2. IsFiniteSet(Issue \X Line)
    BY <2>1, FS_Product
  <2>3. C \subseteq Issue \X Line
    BY DEF DriftCandidates, TypeOK
  <2> QED
    BY <2>2, <2>3, FS_Subset
<1>4. StrictOrder(R, C)
  <2>1. R \subseteq C \X C
    OBVIOUS
  <2> HIDE DEF C, sim, off, ahead
  <2>2. \A x \in C : ~ahead(x, x)
    BY <1>1, <1>2
  <2>3. \A x, y, z \in C : ahead(x, y) /\ ahead(y, z) => ahead(x, z)
    BY <1>1, <1>2
  <2>4. \A x, y \in C : <<x, y>> \in R <=> ahead(x, y)
    OBVIOUS
  <2> HIDE DEF R
  <2> QED
    BY <2>1, <2>2, <2>3, <2>4 DEF StrictOrder
<1>5. PICK M \in SUBSET C : Greedy(M, C, Q)
  <2>1. Q \in SUBSET R
    OBVIOUS
  <2> HIDE DEF C, R, Q
  <2> QED
    BY <1>3, <1>4, <2>1, GreedyPass
<1>6. \A c \in C : c \in M <=> ~\E d \in M : Contend(c, d) /\ ahead(d, c)
  <2> HIDE DEF ahead, C
  <2>1. \A c \in C, d \in M : <<d, c>> \in Q <=> Contend(c, d) /\ ahead(d, c)
    OBVIOUS
  <2> HIDE DEF Q
  <2> QED
    BY <1>5, <2>1 DEF Greedy
<1> DEFINE Stable(K) == \A c \in C : c \in K <=> ~\E d \in K : Contend(c, d) /\ ahead(d, c)
<1>7. DriftAssign(findings, full) = CHOOSE K \in SUBSET C : Stable(K)
  BY DEF DriftAssign
<1>8. M \in SUBSET C /\ Stable(M)
  BY <1>6
<1> HIDE DEF C, Stable
<1> QED
  <2>1. (CHOOSE K \in SUBSET C : Stable(K)) \in SUBSET C
    BY <1>8
  <2> QED
    BY <1>7, <2>1 DEF C

(* A claim is the finding's own line, or a drift candidate of it. *)
LEMMA ClaimFacts ==
    ASSUME TypeOK, NEW i \in DOMAIN findings,
           Claims(findings, full)[i] # NoLine,
           Claims(findings, full)[i] # findings[i].line
    PROVE  /\ findings[i].line \notin DOMAIN full.entries
           /\ Dist(findings[i].line, Claims(findings, full)[i]) <= DriftTolerance
<1> DEFINE drift == DriftAssign(findings, full)
<1>1. drift \in SUBSET DriftCandidates(findings, full)
  BY DriftPairs
<1> HIDE DEF drift
<1>2. Claims(findings, full)[i] = IF Exact(findings, full, i) THEN findings[i].line
           ELSE IF \E c \in drift : c[1] = i
                THEN (CHOOSE c \in drift : c[1] = i)[2] ELSE NoLine
  BY DEF Claims, drift
<1>3. ~Exact(findings, full, i) /\ \E c \in drift : c[1] = i
  BY <1>2
<1>4. PICK c \in drift : c[1] = i /\ Claims(findings, full)[i] = c[2]
  BY <1>2, <1>3
<1> QED
  BY <1>1, <1>3, <1>4 DEF DriftCandidates, Exact

(* The reason R4 accepts for a lower severity is one the entry did not     *)
(* have: what stands in it is of an earlier run.                           *)
LEMMA NewReason ==
    ASSUME ZonedInv, WriteFull, NEW i \in DOMAIN findings,
           NEW l \in DOMAIN full.entries, Claims(findings, full)[i] = l
    PROVE  \/ findings[i].severity >= full.entries[l].severity
           \/ \E h \in findings[i].history \ full.entries[l].history :
                 h.sound /\ h.severity = findings[i].severity
<1> DEFINE f == findings[i]
           e == full.entries[l]
<1>1. TypeOK /\ Dates /\ phase = "judged"
  BY DEF ZonedInv, DatedInv, WriteFull
<1>2. l \in Line /\ e \in Entry /\ f \in Finding /\ run \in Nat /\ full.created \in Nat
  BY <1>1, InputAssumption DEF TypeOK, Finding
<1>3. ~UnjustifiedDowngrade(findings, full, i, run)
  BY NoObjections
<1>4. f.severity >= e.severity \/ Justified(f, e, run)
  <2>1. l # NoLine /\ f.severity \in Nat /\ e.severity \in Nat
    BY <1>2 DEF Line, NoLine, Entry, Finding, Sev
  <2> HIDE DEF f, e
  <2>2. UnjustifiedDowngrade(findings, full, i, run) <=>
           l # NoLine /\ f.severity < e.severity /\ ~Justified(f, e, run)
    BY DEF UnjustifiedDowngrade, f, e
  <2> QED
    BY <1>3, <2>1, <2>2
<1>5. ASSUME Justified(f, e, run)
      PROVE  \E h \in f.history \ e.history : h.sound /\ h.severity = f.severity
  <2>1. PICK h \in f.history : /\ h.sound /\ h.severity = f.severity
                               /\ h.run = run \/ h.run \notin {x.run : x \in e.history}
    BY <1>5, Zenon DEF Justified
  <2>2. \A x \in e.history : x.run \in Nat /\ x.run < run
    <3>1. \A x \in e.history : x.run \in Nat /\ x.run <= full.created
      BY <1>1, <1>2 DEF Dates, Entry, HistoryEntry
    <3>2. full.created < run
      BY <1>1 DEF Dates
    <3> HIDE DEF e
    <3> QED
      BY <1>2, <3>1, <3>2
  <2>3. h \notin e.history
    <3> HIDE DEF e
    <3> QED
      BY <1>2, <2>1, <2>2
  <2> QED
    BY <2>1, <2>3, Zenon
<1> QED
  BY <1>4, <1>5

LEMMA RatchetStep ==
    ASSUME ZonedInv, WriteFull, NEW l \in DOMAIN full.entries
    PROVE  LET e == full.entries[l]
           IN  \/ /\ l \in DOMAIN full'.entries
                  /\ Licensed(e, full'.entries[l])
               \/ /\ l \notin DOMAIN full'.entries
                  /\ \/ e.severity < HIGH
                     \/ diffForm = "path" /\ edits # {}
                     \/ /\ diffForm = "ranges"
                        /\ \E x \in edits : e.lined => Dist(x, l) <= RangeTolerance
                     \/ \E k \in DOMAIN full'.entries :
                          /\ k \notin DOMAIN full.entries
                          /\ Dist(k, l) <= DriftTolerance
                          /\ Licensed(e, full'.entries[k])
<1> DEFINE lines == {findings[i].line : i \in DOMAIN findings}
           e == full.entries[l]
<1>1. DOMAIN full'.entries = lines /\ \A k \in lines : full'.entries[k] = CarriedEntry(k)
  BY Written DEF ZonedInv, DatedInv
<1>2. TypeOK /\ Distinct
  BY DEF ZonedInv, DatedInv
<1>3. \A k \in lines : /\ FindingAt(k) \in DOMAIN findings /\ findings[FindingAt(k)].line = k
                       /\ CarriedEntry(k).severity = findings[FindingAt(k)].severity
  <2> SUFFICES ASSUME NEW k \in lines
               PROVE  /\ FindingAt(k) \in DOMAIN findings /\ findings[FindingAt(k)].line = k
                      /\ CarriedEntry(k).severity = findings[FindingAt(k)].severity
    OBVIOUS
  <2> QED
    BY FindingAtFacts DEF CarriedEntry
<1>4. ASSUME l \in lines PROVE Licensed(e, CarriedEntry(l))
  <2> DEFINE f == findings[FindingAt(l)]
  <2>1. Claims(findings, full)[FindingAt(l)] = l
    BY <1>3, <1>4, ExactClaim
  <2>2. f.severity >= e.severity \/ \E h \in f.history \ e.history : h.sound /\ h.severity = f.severity
    BY <1>3, <1>4, <2>1, NewReason
  <2>3. CarriedEntry(l).severity = f.severity /\ CarriedEntry(l).history = e.history \cup f.history
    BY DEF CarriedEntry
  <2> HIDE DEF e, f
  <2> QED
    BY <2>2, <2>3 DEF Licensed
<1>5. ASSUME NEW i \in DOMAIN findings, Claims(findings, full)[i] = l, findings[i].line # l
      PROVE  \E k \in lines : /\ k \notin DOMAIN full.entries
                              /\ Dist(k, l) <= DriftTolerance
                              /\ Licensed(e, CarriedEntry(k))
  <2> DEFINE k == findings[i].line
             f == findings[i]
  <2>1. l # NoLine
    BY <1>2 DEF TypeOK, Line, NoLine
  <2>2. k \notin DOMAIN full.entries /\ Dist(k, l) <= DriftTolerance
    BY <1>2, <1>5, <2>1, ClaimFacts
  <2>3. k \in lines /\ FindingAt(k) = i
    BY <1>2, <1>3 DEF Distinct
  <2>4. f.severity >= e.severity \/ \E h \in f.history \ e.history : h.sound /\ h.severity = f.severity
    BY <1>5, NewReason
  <2>5. CarriedEntry(k).severity = f.severity /\ CarriedEntry(k).history = f.history
    <3> HIDE DEF k
    <3> QED
      BY <2>2, <2>3 DEF CarriedEntry
  <2>6. Licensed(e, CarriedEntry(k))
    <3> HIDE DEF e, f, k
    <3> QED
      BY <2>4, <2>5 DEF Licensed
  <2> HIDE DEF k, lines, e
  <2> QED
    BY <2>2, <2>3, <2>6
<1>6. ASSUME l \notin lines, e.severity >= HIGH, \A i \in DOMAIN findings : Claims(findings, full)[i] # l
      PROVE  \/ diffForm = "path" /\ edits # {}
             \/ diffForm = "ranges" /\ \E x \in edits : e.lined => Dist(x, l) <= RangeTolerance
  <2>1. l \in Vanished(findings, full)
    BY <1>6 DEF Vanished
  <2>2. Explained(full, l, Diff)
    BY <2>1, NoObjections
  <2>3. diffForm \in {"omitted", "path", "ranges"}
    BY <1>2 DEF TypeOK
  <2>4. /\ diffForm # "omitted" /\ edits # {}
        /\ diffForm = "path" \/ ~e.lined \/ \E x \in edits : Dist(x, l) <= RangeTolerance
    BY <2>2 DEF Explained, Diff
  <2> HIDE DEF e
  <2> QED
    BY <2>3, <2>4
<1>7. e.severity < HIGH \/ e.severity >= HIGH
  BY <1>2 DEF TypeOK, Entry, Sev, HIGH
<1>8. CASE l \in lines
  <2> HIDE DEF lines
  <2> QED
    BY <1>1, <1>4, <1>8
<1>9. CASE l \notin lines /\ \E i \in DOMAIN findings : Claims(findings, full)[i] = l
  <2>1. PICK i \in DOMAIN findings : Claims(findings, full)[i] = l
    BY <1>9
  <2>2. findings[i].line # l
    BY <1>9
  <2>3. PICK k \in lines : /\ k \notin DOMAIN full.entries
                           /\ Dist(k, l) <= DriftTolerance
                           /\ Licensed(e, CarriedEntry(k))
    BY <1>5, <2>1, <2>2
  <2> HIDE DEF lines
  <2> QED
    BY <1>1, <1>9, <2>3
<1>10. CASE l \notin lines /\ \A i \in DOMAIN findings : Claims(findings, full)[i] # l
  <2> HIDE DEF lines
  <2> QED
    BY <1>1, <1>6, <1>7, <1>10
<1> QED
  BY <1>8, <1>9, <1>10

(* The severity ratchet, over any number of audits, aborted audits and     *)
(* re-runs: an entry of the new baseline keeps its severity or has a new   *)
(* reason for the lower one, and a HIGH entry leaves only with a change    *)
(* near it or with a drifted entry at its severity (R4 and the             *)
(* disappearance sweep, phase-08-baseline.md 8.1).  It needs every expiry  *)
(* to name its zone.                                                       *)
THEOREM Ratchet == ASSUME NoneZoneless PROVE Spec => RatchetHolds
<1> DEFINE Step == full' # full /\ full' # NoBaseline => \A l \in DOMAIN full.entries :
          LET e == full.entries[l]
          IN  \/ /\ l \in DOMAIN full'.entries
                 /\ Licensed(e, full'.entries[l])
              \/ /\ l \notin DOMAIN full'.entries
                 /\ \/ e.severity < HIGH
                    \/ diffForm = "path" /\ edits # {}
                    \/ /\ diffForm = "ranges"
                       /\ \E x \in edits : e.lined => Dist(x, l) <= RangeTolerance
                    \/ \E k \in DOMAIN full'.entries :
                         /\ k \notin DOMAIN full.entries
                         /\ Dist(k, l) <= DriftTolerance
                         /\ Licensed(e, full'.entries[k])
<1>1. ASSUME ZonedInv, [Next]_vars PROVE Step
  <2>1. CASE WriteFull
    BY <1>1, <2>1, RatchetStep
  <2>2. CASE ~WriteFull
    BY <1>1, <2>2 DEF Next, vars, auditVars, InsertAbove, Mend, StartAudit, RunGate,
          GateRaises, RecordReason, Remedy, SkipPhase8, WritePruned, Abort, FreshClone
  <2> QED
    BY <2>1, <2>2
<1>2. ZonedInv /\ [Next]_vars => [Step]_full
  BY <1>1
<1> QED
  BY <1>2, ZonedAlways, PTL DEF Spec, RatchetHolds
=============================================================================
