-------------------------- MODULE AttackPathsProofs --------------------------
(***************************************************************************)
(* What TLC checks of the severity gate on three findings, proved for      *)
(* every corpus, capability vocabulary and set of personas: the type, that *)
(* what is published is settled and no more than settled, that what is     *)
(* withheld rests on evidence, the summary, the provenance, and that the   *)
(* composer implements RatingContract.                                     *)
(***************************************************************************)
EXTENDS AttackPaths, Extremes, SequenceTheorems

(* A non-empty set of severities has a highest one. *)
LEMMA MaxOfSev ==
    ASSUME NEW S \in SUBSET Sev, S # {}
    PROVE  MaxOf(S) \in S /\ \A y \in S : y <= MaxOf(S)
<1>1. \E x \in S : \A y \in S : y <= x
  <2>1. CASE 4 \in S  BY <2>1 DEF Sev
  <2>2. CASE 4 \notin S /\ 3 \in S  BY <2>2 DEF Sev
  <2>3. CASE 4 \notin S /\ 3 \notin S /\ 2 \in S  BY <2>3 DEF Sev
  <2>4. CASE 4 \notin S /\ 3 \notin S /\ 2 \notin S /\ 1 \in S
    BY <2>4 DEF Sev
  <2>5. CASE 4 \notin S /\ 3 \notin S /\ 2 \notin S /\ 1 \notin S
    <3>1. \A y \in S : y = 0  BY <2>5 DEF Sev
    <3>2. QED  BY <3>1
  <2>6. QED  BY <2>1, <2>2, <2>3, <2>4, <2>5 DEF Sev
<1>2. QED  BY <1>1 DEF MaxOf

(* A non-empty set of findings has a first one in file order. *)
LEMMA MinOfFindings ==
    ASSUME NEW S \in SUBSET Finding, S # {}
    PROVE  MinOf(S) \in S
<1> DEFINE Below == OpToRel(<, Nat)
<1>1. S \subseteq Nat  BY LexiconAssumption DEF Finding
<1>2. IsWellFoundedOn(Below, Nat)  BY NatLessThanWellFounded
<1>3. \A a, b \in Nat : a < b => <<a, b>> \in Below  BY DEF OpToRel
<1> HIDE DEF Below
<1>4. PICK x \in S : \A y \in S : ~(<<y, x>> \in Below)
  BY <1>1, <1>2, WFMin
<1>5. ASSUME NEW y \in S PROVE x <= y
  <2>1. x \in Nat /\ y \in Nat  BY <1>1
  <2>2. ~(y < x)  BY <1>3, <1>4, <2>1
  <2>3. QED  BY <2>1, <2>2
<1>6. QED  BY <1>4, <1>5 DEF MinOf

LEMMA BlockersAreFindings ==
    ASSUME NEW C, NEW p
    PROVE  /\ Blockers(C, p) \in SUBSET Finding
           /\ Carriers(C, p) \in SUBSET Finding
           /\ Path(C, p) \in SUBSET Finding
<1>1. Tagged(C) \subseteq Finding  BY DEF Tagged
<1>2. \A S, h : Compose(C, S, h) \subseteq S  BY DEF Compose
<1>3. \A q, h, j : ContributingSlice(C, q, h, j) \subseteq q
  BY DEF ContributingSlice
<1>4. Path(C, p) \subseteq Finding  BY <1>1, <1>2 DEF Path
<1>5. FullSlice(C, p) \subseteq Finding  BY <1>3, <1>4 DEF FullSlice
<1>6. SurvivorPath(C, p) \subseteq Finding  BY <1>1, <1>2 DEF SurvivorPath
<1>7. QED  BY <1>3, <1>4, <1>5, <1>6 DEF Blockers, Citing, Carriers

LEMMA AssertedIsSev ==
    ASSUME NEW C \in Corpora, NEW f \in Finding
    PROVE  C[f].severity \in Sev
<1>1. C \in [Finding -> Row]  BY CorporaAssumption
<1>2. C[f] \in Row  BY <1>1
<1>3. QED  BY <1>2 DEF Row

LEMMA R2FloorIsSev ==
    ASSUME TypeOK, NEW f \in Finding
    PROVE  /\ R2Floor(f) \in Sev
           /\ severity[f] <= R2Floor(f)
           /\ \A i \in Finding : NamedBy(corpus, i, f) => severity[i] <= R2Floor(f)
           /\ \/ R2Floor(f) = severity[f]
              \/ \E i \in Finding : NamedBy(corpus, i, f) /\ R2Floor(f) = severity[i]
<1> DEFINE Named == {g \in Finding : NamedBy(corpus, g, f)}
           S == {severity[f]} \cup {severity[i] : i \in Named}
<1>1. S \in SUBSET Sev /\ S # {}  BY DEF TypeOK
<1>2. MaxOf(S) \in S /\ \A y \in S : y <= MaxOf(S)  BY <1>1, MaxOfSev
<1>3. R2Floor(f) = MaxOf(S)  BY DEF R2Floor
<1>4. severity[f] \in S /\ \A i \in Named : severity[i] \in S  OBVIOUS
<1>5. QED  BY <1>1, <1>2, <1>3, <1>4

LEMMA ChainSeverityIsSev ==
    ASSUME TypeOK, NEW p \in Persona, Path(corpus, p) # {}
    PROVE  ChainSeverity(p) \in Sev
<1> DEFINE S == {target[f] : f \in Path(corpus, p)}
<1>1. S \in SUBSET Sev /\ S # {}  BY BlockersAreFindings DEF TypeOK
<1>2. MaxOf(S) \in Sev  BY <1>1, MaxOfSev
<1>3. QED  BY <1>2 DEF ChainSeverity, CRITICAL, Sev
-----------------------------------------------------------------------------
(* The state keeps its shape through every rule, rewrite and re-run, for   *)
(* every corpus and lexicon.                                               *)
LEMMA TypeInit == Init => TypeOK
BY AssertedIsSev DEF Init, TypeOK, Phases

LEMMA TypeStep == TypeOK /\ [Next]_vars => TypeOK'
<1> SUFFICES ASSUME TypeOK, [Next]_vars PROVE TypeOK'
  OBVIOUS
<1>1. CASE ApplyR2
  <2>1. target' \in [Finding -> Sev]
    <3>1. \A f \in Finding : Higher(target[f], R2Floor(f)) \in Sev
      BY R2FloorIsSev DEF TypeOK, Higher
    <3>2. QED  BY <1>1, <3>1 DEF ApplyR2
  <2>2. fired' \in [Finding -> SUBSET Rule]
    BY <1>1 DEF ApplyR2, TypeOK, Rule
  <2>3. QED  BY <1>1, <2>1, <2>2 DEF ApplyR2, TypeOK, fileVars, Phases
<1>2. CASE \E i, j \in Finding : ApplyR1(i, j)
  <2>1. PICK i, j \in Finding : ApplyR1(i, j)  BY <1>2
  <2>2. target' \in [Finding -> Sev]  BY <2>1 DEF ApplyR1, TypeOK
  <2>3. fired' \in [Finding -> SUBSET Rule]
    BY <2>1 DEF ApplyR1, TypeOK, Rule
  <2>4. QED  BY <2>1, <2>2, <2>3 DEF ApplyR1, TypeOK, fileVars
<1>3. CASE SettleR1
  BY <1>3 DEF SettleR1, TypeOK, fileVars, runVars, Phases
<1>4. CASE \E p \in Persona : ComposePersona(p)
  <2>1. PICK p \in Persona : ComposePersona(p)  BY <1>4
  <2>2. target' \in [Finding -> Sev]
    BY <2>1 DEF ComposePersona, TypeOK, CRITICAL, Sev
  <2>3. fired' \in [Finding -> SUBSET Rule]
    BY <2>1 DEF ComposePersona, TypeOK, Rule
  <2>4. declined' \in [Finding -> Finding \cup {Nobody}]
    <3>1. \A f \in Finding : f \in R3Declines(corpus, p)
                            => MinOf(Blockers(corpus, p)) \in Finding
      BY BlockersAreFindings, MinOfFindings DEF R3Declines
    <3>2. QED  BY <2>1, <3>1 DEF ComposePersona, TypeOK
  <2>5. uncited' \in SUBSET Finding
    BY <2>1, BlockersAreFindings DEF ComposePersona, TypeOK
  <2>6. chainSeverity' \in [Persona -> Sev \cup {Unset}]
    <3>1. Path(corpus, p) # {} => ChainSeverity(p) \in Sev
      BY ChainSeverityIsSev
    <3>2. chainSeverity' = [chainSeverity EXCEPT ![p] =
             IF Path(corpus, p) = {} THEN @ ELSE ChainSeverity(p)]
      BY <2>1 DEF ComposePersona
    <3>3. QED  BY <3>1, <3>2 DEF TypeOK
  <2>7. todo' \in SUBSET Persona  BY <2>1 DEF ComposePersona, TypeOK
  <2>8. QED
    BY <2>1, <2>2, <2>3, <2>4, <2>5, <2>6, <2>7
    DEF ComposePersona, TypeOK, fileVars
<1>5. CASE EndR3
  BY <1>5 DEF EndR3, TypeOK, fileVars, runVars, Phases
<1>6. CASE Rewrite
  <2>1. severityAsserted' \in [Finding -> Sev \cup {Unset}]
    BY <1>6 DEF Rewrite, TypeOK, AssertedStamp
  <2>2. history' \in [Finding -> Seq([severity : Sev, reason : SUBSET Rule])]
    <3> DEFINE Entry == [severity : Sev, reason : SUBSET Rule]
               entry(f) == [severity |-> target[f], reason |-> fired[f]]
    <3>1. \A f \in Finding : entry(f) \in Entry  BY DEF TypeOK
    <3>2. \A f \in Finding : history[f] \in Seq(Entry)  BY DEF TypeOK
    <3>3. history' = [f \in Finding |->
             IF target[f] # severity[f] THEN Append(history[f], entry(f))
                                        ELSE history[f]]
      BY <1>6 DEF Rewrite
    <3> HIDE DEF Entry, entry
    <3>4. \A f \in Finding : Append(history[f], entry(f)) \in Seq(Entry)
      BY <3>1, <3>2, AppendProperties
    <3>5. history' \in [Finding -> Seq(Entry)]  BY <3>2, <3>3, <3>4
    <3>6. QED  BY <3>5 DEF Entry
  <2>3. rules' \in [Finding -> SUBSET Rule]  BY <1>6 DEF Rewrite, TypeOK
  <2>4. suppressedBy' \in [Finding -> Finding \cup {Nobody}]
    BY <1>6 DEF Rewrite, TypeOK, Suppressed
  <2>5. phase' \in Phases  BY <1>6 DEF Rewrite, Phases
  <2>6. QED
    BY <1>6, <2>1, <2>2, <2>3, <2>4, <2>5 DEF Rewrite, TypeOK, runVars
<1>7. CASE Rerun
  BY <1>7 DEF Rerun, TypeOK, fileVars, Phases
<1>8. CASE UNCHANGED vars
  BY <1>8 DEF vars, fileVars, runVars, TypeOK
<1>9. QED
  BY <1>1, <1>2, <1>3, <1>4, <1>5, <1>6, <1>7, <1>8 DEF Next, Finished

(* The type invariant of the severity gate. *)
THEOREM TypeCorrect == Spec => []TypeOK
<1>1. QED  BY TypeInit, TypeStep, PTL DEF Spec
-----------------------------------------------------------------------------
LEMMA CarriersRaised ==
    ASSUME NEW C, NEW p
    PROVE  R3Raises(C, p) \in SUBSET Finding
BY BlockersAreFindings DEF R3Raises

(* Both kinds of floor at once, in the form the last step needs. *)
LEMMA SettledFromParts ==
    ASSUME NEW r,
           \A i, j \in Finding : Supplies(corpus, i, j) => r[i] <= r[j],
           \A i, j \in Finding : NamedBy(corpus, i, j) => r[i] <= r[j],
           \A p \in Persona : \A f \in Finding :
               f \in R3Raises(corpus, p) => r[f] = CRITICAL
    PROVE  Settled(r, Links, Carried)
<1>1. \A l \in Links : r[l[1]] <= r[l[2]]  BY DEF Links
<1>2. \A f \in Carried : r[f] = CRITICAL  BY CarriersRaised DEF Carried
<1>3. QED  BY <1>1, <1>2 DEF Settled

(* Raising targets keeps what is known of them. *)
LEMMA RisesPreserved ==
    ASSUME TypeOK, TypeOK', OnlyRises, UNCHANGED <<corpus, severity>>,
           \A f \in Finding : target[f] <= target'[f]
    PROVE  OnlyRises'
<1> SUFFICES ASSUME NEW f \in Finding
             PROVE  /\ corpus[f].severity <= severity[f]
                    /\ severity[f] <= target'[f]
  BY DEF OnlyRises
<1>1. severity[f] \in 0..4 /\ target[f] \in 0..4 /\ target'[f] \in 0..4
  BY DEF TypeOK, Sev
<1>2. /\ corpus[f].severity <= severity[f]
      /\ severity[f] <= target[f] /\ target[f] <= target'[f]
  BY DEF OnlyRises
<1>3. QED  BY <1>1, <1>2

LEMMA R2Preserved ==
    ASSUME TypeOK, TypeOK', R2Done, UNCHANGED <<corpus, severity>>,
           phase \in {"R1", "R3", "ledger"},
           \A f \in Finding : target[f] <= target'[f]
    PROVE  R2Done'
<1> SUFFICES ASSUME NEW i \in Finding, NEW j \in Finding, NamedBy(corpus, i, j)
             PROVE  severity[i] <= target'[j]
  BY DEF R2Done
<1>1. severity[i] \in 0..4 /\ target[j] \in 0..4 /\ target'[j] \in 0..4
  BY DEF TypeOK, Sev
<1>2. severity[i] <= target[j] /\ target[j] <= target'[j]  BY DEF R2Done
<1>3. QED  BY <1>1, <1>2

LEMMA SettledInit == Init => SettledByRun
<1> SUFFICES ASSUME Init PROVE SettledByRun
  OBVIOUS
<1>1. \A f \in Finding : corpus[f].severity \in Sev
  BY AssertedIsSev DEF Init
<1>2. OnlyRises  BY <1>1 DEF Init, OnlyRises, Sev
<1>3. QED
  BY <1>2 DEF Init, SettledByRun, R2Done, R1Done, R3Done, PublishedIsSettled

LEMMA SettledStep ==
    TypeOK /\ SettledByRun /\ [Next]_vars => SettledByRun'
<1> SUFFICES ASSUME TypeOK, SettledByRun, [Next]_vars PROVE SettledByRun'
  OBVIOUS
<1> USE DEF SettledByRun
<1>a. /\ \A f \in Finding : /\ severity[f] \in Sev /\ target[f] \in Sev
                            /\ corpus[f].severity \in Sev
      /\ TypeOK'
  BY AssertedIsSev, TypeStep DEF TypeOK
<1>1. CASE ApplyR2
  <2>1. /\ UNCHANGED <<corpus, severity, todo>>
        /\ phase = "R2" /\ phase' = "R1"
        /\ \A f \in Finding : target'[f] = Higher(target[f], R2Floor(f))
    BY <1>1 DEF ApplyR2, fileVars
  <2>2. OnlyRises'
    BY <1>a, <2>1, R2FloorIsSev DEF OnlyRises, Higher, Sev
  <2>3. R2Done'
    BY <1>a, <2>1, R2FloorIsSev DEF R2Done, Higher, Sev
  <2>4. QED
    BY <2>1, <2>2, <2>3 DEF R1Done, R3Done, PublishedIsSettled
<1>2. CASE \E i, j \in Finding : ApplyR1(i, j)
  <2>1. PICK i, j \in Finding : ApplyR1(i, j)  BY <1>2
  <2>2. /\ UNCHANGED <<corpus, severity, todo, phase>>
        /\ phase = "R1"
        /\ target[i] > target[j]
        /\ \A f \in Finding : target'[f] = IF f = j THEN target[i] ELSE target[f]
    BY <2>1 DEF ApplyR1, fileVars, Undischarged, TypeOK
  <2>3. \A f \in Finding : target[f] <= target'[f]
    BY <1>a, <2>2 DEF Sev
  <2>4. OnlyRises'  BY <1>a, <2>2, <2>3, RisesPreserved
  <2>5. R2Done'  BY <1>a, <2>2, <2>3, R2Preserved
  <2>6. QED
    BY <2>2, <2>4, <2>5 DEF R1Done, R3Done, PublishedIsSettled
<1>3. CASE SettleR1
  <2>1. /\ UNCHANGED <<corpus, severity, target, todo>>
        /\ phase = "R1" /\ phase' = "R3"
        /\ \A i, j \in Finding : Supplies(corpus, i, j) => ~(target[i] > target[j])
    BY <1>3 DEF SettleR1, fileVars, runVars, Undischarged
  <2>2. OnlyRises' /\ R2Done'  BY <2>1 DEF OnlyRises, R2Done
  <2>3. R1Done'  BY <1>a, <2>1 DEF R1Done, Sev
  <2>4. R3Done'
    BY <2>1 DEF R3Done
  <2>5. QED  BY <2>1, <2>2, <2>3, <2>4 DEF PublishedIsSettled
<1>4. CASE \E p \in Persona : ComposePersona(p)
  <2>1. PICK p \in Persona : ComposePersona(p)  BY <1>4
  <2>2. /\ UNCHANGED <<corpus, severity, phase>>
        /\ phase = "R3" /\ todo' = todo \ {p}
        /\ \A f \in Finding :
             target'[f] = IF f \in R3Raises(corpus, p) THEN CRITICAL ELSE target[f]
    BY <2>1 DEF ComposePersona, fileVars
  <2>3. \A f \in Finding : target[f] <= target'[f]
    BY <1>a, <2>2 DEF Sev, CRITICAL
  <2>4. OnlyRises'  BY <1>a, <2>2, <2>3, RisesPreserved
  <2>5. R2Done'  BY <1>a, <2>2, <2>3, R2Preserved
  <2>6. R1Done'
    <3> SUFFICES ASSUME target' = severity PROVE target = severity
      BY <2>2 DEF R1Done
    <3>1. \A f \in Finding : severity[f] <= target[f] /\ target[f] <= severity[f]
      BY <2>2, <2>3 DEF OnlyRises
    <3>2. \A f \in Finding : target[f] = severity[f]
      BY <1>a, <3>1 DEF Sev
    <3>3. QED  BY <3>2 DEF TypeOK
  <2>7. R3Done'
    <3>1. \A f \in Finding : f \in R3Raises(corpus, p) => target'[f] = CRITICAL
      BY <2>2
    <3>2. \A q \in Persona \ todo : \A f \in Finding :
            f \in R3Raises(corpus, q) => target'[f] = CRITICAL
      BY <2>2 DEF R3Done
    <3>3. QED  BY <2>2, <3>1, <3>2 DEF R3Done
  <2>8. QED  BY <2>2, <2>4, <2>5, <2>6, <2>7 DEF PublishedIsSettled
<1>5. CASE EndR3
  BY <1>5 DEF EndR3, fileVars, runVars, OnlyRises, R2Done, R1Done, R3Done,
              PublishedIsSettled
<1>6. CASE Rewrite
  <2>1. /\ UNCHANGED <<corpus, target, todo>>
        /\ severity' = target /\ phase = "ledger" /\ todo = {}
        /\ phase' = IF Escalations = {} THEN "published" ELSE "exit1"
    BY <1>6 DEF Rewrite, runVars
  <2>2. OnlyRises'
    <3> SUFFICES ASSUME NEW f \in Finding
                 PROVE  corpus[f].severity <= target[f] /\ target[f] <= target[f]
      BY <2>1 DEF OnlyRises
    <3>1. corpus[f].severity <= severity[f] /\ severity[f] <= target[f]
      BY DEF OnlyRises
    <3>2. QED  BY <1>a, <3>1 DEF Sev
  <2>3. ASSUME phase' = "published" PROVE Settled(severity, Links, Carried)'
    <3>1. \A f \in Finding : ~(target[f] > severity[f])
      BY <2>1, <2>3 DEF Escalations
    <3>2. \A f \in Finding : target[f] = severity[f]
      BY <1>a, <3>1 DEF OnlyRises, Sev
    <3>3. target = severity  BY <3>2 DEF TypeOK
    <3>4. \A i, j \in Finding : Supplies(corpus, i, j) => target[i] <= target[j]
      BY <2>1, <3>3 DEF R1Done
    <3>5. \A i, j \in Finding : NamedBy(corpus, i, j) => target[i] <= target[j]
      BY <2>1, <3>3 DEF R2Done
    <3>6. \A p \in Persona : \A f \in Finding :
            f \in R3Raises(corpus, p) => target[f] = CRITICAL
      BY <2>1 DEF R3Done
    <3>7. Settled(target, Links, Carried)
      BY <3>4, <3>5, <3>6, SettledFromParts
    <3>8. QED  BY <2>1, <3>7 DEF Settled, Links, Carried
  <2>4. PublishedIsSettled'  BY <2>3 DEF PublishedIsSettled
  <2>5. phase' \in {"published", "exit1"}  BY <2>1
  <2>6. QED  BY <2>2, <2>4, <2>5 DEF R2Done, R1Done, R3Done
<1>7. CASE Rerun
  <2>1. /\ UNCHANGED <<corpus, severity>>
        /\ target' = severity /\ phase' = "R2" /\ todo' = Persona
    BY <1>7 DEF Rerun, fileVars
  <2>2. OnlyRises'  BY <1>a, <2>1 DEF OnlyRises, Sev
  <2>3. QED
    BY <2>1, <2>2 DEF R2Done, R1Done, R3Done, PublishedIsSettled
<1>8. CASE UNCHANGED vars
  BY <1>8 DEF vars, fileVars, runVars, OnlyRises, R2Done, R1Done, R3Done,
              PublishedIsSettled, Links, Carried
<1>9. QED
  BY <1>1, <1>2, <1>3, <1>4, <1>5, <1>6, <1>7, <1>8 DEF Next, Finished

(* A file the gate exits 0 on satisfies every floor of R1, R2 and R3 at    *)
(* once, for every corpus, although no run re-applies a rule after a later *)
(* one has raised something.                                               *)
THEOREM PublishedSettled == Spec => []PublishedIsSettled
<1>1. TypeOK /\ SettledByRun => PublishedIsSettled  BY DEF SettledByRun
<1>2. QED
  BY <1>1, SettledInit, SettledStep, TypeCorrect, PTL DEF Spec
-----------------------------------------------------------------------------
(* What a settled rating r that respects the analyst demands of f. *)
LEMMA SettledGives ==
    ASSUME NEW r, Settled(r, Links, Carried)
    PROVE  /\ \A i, j \in Finding :
                 Supplies(corpus, i, j) \/ NamedBy(corpus, i, j) => r[i] <= r[j]
           /\ \A p \in Persona : \A f \in Finding :
                 f \in R3Raises(corpus, p) => r[f] = CRITICAL
<1>1. ASSUME NEW i \in Finding, NEW j \in Finding,
             Supplies(corpus, i, j) \/ NamedBy(corpus, i, j)
      PROVE  r[i] <= r[j]
  <2>1. <<i, j>> \in Links  BY <1>1 DEF Links
  <2>2. QED  BY <2>1 DEF Settled
<1>2. \A p \in Persona : \A f \in Finding :
         f \in R3Raises(corpus, p) => f \in Carried
  BY DEF Carried
<1>3. QED  BY <1>1, <1>2 DEF Settled

LEMMA BoundedStep ==
    TypeOK /\ OnlyRises /\ NoOverEscalation /\ [Next]_vars => NoOverEscalation'
<1> SUFFICES ASSUME TypeOK, OnlyRises, NoOverEscalation, [Next]_vars
             PROVE  NoOverEscalation'
  OBVIOUS
<1>1. UNCHANGED corpus
  BY DEF Next, Finished, vars, ApplyR2, ApplyR1, SettleR1, ComposePersona, EndR3, Rewrite,
         Rerun
<1>2. SUFFICES ASSUME NEW r \in [Finding -> Sev],
                      \A f \in Finding : corpus[f].severity <= r[f],
                      Settled(r, Links, Carried),
                      NEW f \in Finding
               PROVE  target'[f] <= r[f]
  BY <1>1 DEF NoOverEscalation, Links, Carried
<1>3. /\ \A g \in Finding : target[g] <= r[g]
      /\ \A g \in Finding : /\ severity[g] \in 0..4 /\ target[g] \in 0..4
                            /\ r[g] \in 0..4
  BY <1>2 DEF NoOverEscalation, TypeOK, Sev
<1>4. \A g \in Finding : severity[g] <= r[g]
  BY <1>3 DEF OnlyRises
<1>5. CASE ApplyR2
  <2>1. target'[f] = Higher(target[f], R2Floor(f))  BY <1>5 DEF ApplyR2
  <2>2. R2Floor(f) <= r[f]
    <3>1. CASE R2Floor(f) = severity[f]  BY <1>4, <3>1
    <3>2. ASSUME NEW i \in Finding, NamedBy(corpus, i, f), R2Floor(f) = severity[i]
          PROVE  R2Floor(f) <= r[f]
      <4>1. severity[i] <= r[i] /\ r[i] <= r[f]
        BY <1>2, <1>4, <3>2, SettledGives
      <4>2. QED  BY <1>3, <3>2, <4>1
    <3>3. QED  BY <3>1, <3>2, R2FloorIsSev
  <2>3. QED  BY <1>3, <2>1, <2>2 DEF Higher
<1>6. CASE \E i, j \in Finding : ApplyR1(i, j)
  <2>1. PICK i, j \in Finding : ApplyR1(i, j)  BY <1>6
  <2>2. /\ Supplies(corpus, i, j)
        /\ target'[f] = IF f = j THEN target[i] ELSE target[f]
    BY <2>1 DEF ApplyR1, Undischarged, TypeOK
  <2>3. target[i] <= r[i] /\ r[i] <= r[j]
    BY <1>2, <1>3, <2>2, SettledGives
  <2>4. QED  BY <1>3, <2>2, <2>3
<1>7. CASE \E p \in Persona : ComposePersona(p)
  <2>1. PICK p \in Persona : ComposePersona(p)  BY <1>7
  <2>2. target'[f] = IF f \in R3Raises(corpus, p) THEN CRITICAL ELSE target[f]
    BY <2>1 DEF ComposePersona
  <2>3. f \in R3Raises(corpus, p) => r[f] = CRITICAL
    BY <1>2, SettledGives
  <2>4. QED  BY <1>3, <2>2, <2>3 DEF CRITICAL
<1>8. CASE Rerun
  BY <1>4, <1>8 DEF Rerun
<1>9. CASE SettleR1 \/ EndR3 \/ Rewrite \/ UNCHANGED vars
  <2>1. target' = target
    BY <1>9 DEF SettleR1, EndR3, Rewrite, vars, runVars
  <2>2. QED  BY <1>3, <2>1
<1>10. QED
  BY <1>5, <1>6, <1>7, <1>8, <1>9 DEF Next, Finished

(* The other direction: no run ever rates a finding above any settled      *)
(* rating, so what is published is the least one.                          *)
THEOREM NeverOverEscalates == Spec => []NoOverEscalation
<1>1. Init => NoOverEscalation
  BY DEF Init, NoOverEscalation
<1>2. SettledByRun => OnlyRises  BY DEF SettledByRun
<1>3. QED
  BY <1>1, <1>2, BoundedStep, SettledInit, SettledStep, TypeCorrect, PTL DEF Spec
-----------------------------------------------------------------------------
(* What the composer's loops compute.  compose takes findings until none is *)
(* left to take: as many passes as there are findings reach the least set   *)
(* of findings that contains whatever it enables.                           *)
Enabled(C, S, held0, W) ==
    {f \in S : \A need \in C[f].pre : SatisfiedBy(need, HeldAfter(C, W, held0))}

LEMMA SizeOfFindings ==
    ASSUME NEW S \in SUBSET Finding
    PROVE  IsFiniteSet(S) /\ Cardinality(S) <= N
<1>1. IsFiniteSet(Finding) /\ Cardinality(Finding) = N
  BY LexiconAssumption, FS_Interval DEF Finding
<1> QED
  BY <1>1, FS_Subset

(* A loop of as many passes as there are findings. *)
LEMMA LoopIsLeast ==
    ASSUME NEW S \in SUBSET Finding, NEW G, Growing(G, S), NEW walk,
           walk = CHOOSE g : g = [n \in 0..N |-> IF n = 0 THEN {} ELSE G[g[n - 1]]]
    PROVE  /\ walk[N] \in SUBSET S /\ G[walk[N]] = walk[N]
           /\ \A W \in SUBSET S : G[W] \subseteq W => walk[N] \subseteq W
<1>1. Iterates(walk, G, N)
  <2>1. N \in Nat
    BY LexiconAssumption
  <2>2. \E g : Iterates(g, G, N)
    BY <2>1, IterationExists DEF Growing
  <2> QED
    BY <2>2 DEF Iterates
<1>2. IsFiniteSet(S) /\ Cardinality(S) <= N /\ N \in Nat
  BY SizeOfFindings, LexiconAssumption
<1>3. Growing(G, S)
  OBVIOUS
<1> QED
  BY ONLY <1>1, <1>2, <1>3, LeastFixpoint

LEMMA ComposeIsLeast ==
    ASSUME NEW C, NEW S \in SUBSET Finding, NEW held0
    PROVE  /\ Compose(C, S, held0) \in SUBSET S
           /\ Enabled(C, S, held0, Compose(C, S, held0)) \subseteq Compose(C, S, held0)
           /\ \A W \in SUBSET S :
                Enabled(C, S, held0, W) \subseteq W => Compose(C, S, held0) \subseteq W
<1> DEFINE grow == [walked \in SUBSET S |->
                      walked \cup {f \in S : \A need \in C[f].pre :
                                     SatisfiedBy(need, HeldAfter(C, walked, held0))}]
           walk == CHOOSE g : g = [n \in 0..N |-> IF n = 0 THEN {} ELSE grow[g[n - 1]]]
<1>1. Compose(C, S, held0) = S \cap walk[N]
  BY DEF Compose
<1>2. \A W \in SUBSET S : grow[W] = W \cup Enabled(C, S, held0, W)
  BY DEF Enabled
<1>3. grow \in [SUBSET S -> SUBSET S]
  BY DEF Enabled
<1> HIDE DEF grow
<1>4. Growing(grow, S)
  <2>1. \A V, W \in SUBSET S : V \subseteq W => Enabled(C, S, held0, V) \subseteq Enabled(C, S, held0, W)
    BY DEF Enabled, SatisfiedBy, HeldAfter
  <2> QED
    BY <1>2, <1>3, <2>1 DEF Growing
<1>5. /\ walk[N] \in SUBSET S /\ grow[walk[N]] = walk[N]
      /\ \A W \in SUBSET S : grow[W] \subseteq W => walk[N] \subseteq W
  BY <1>4, LoopIsLeast
<1> HIDE DEF walk
<1>6. Compose(C, S, held0) = walk[N] /\ grow[walk[N]] \subseteq walk[N]
  BY <1>1, <1>5
<1>7. \A W \in SUBSET S : grow[W] \subseteq W <=> Enabled(C, S, held0, W) \subseteq W
  BY <1>2
<1> QED
  BY <1>5, <1>6, <1>7

(* contributing_slice walks back from the jewels to the least set of findings *)
(* that contains whatever supplies a jewel or one of its members.             *)
Contributing(C, path, held0, jewels, W) ==
    {f \in path : \E have \in C[f].post :
        \E need \in StillNeeded(C, W, held0, jewels) : Satisfies(have, need)}

LEMMA SliceIsLeast ==
    ASSUME NEW C, NEW path \in SUBSET Finding, NEW held0, NEW jewels
    PROVE  LET slice == ContributingSlice(C, path, held0, jewels)
           IN  /\ slice \in SUBSET path
               /\ Contributing(C, path, held0, jewels, slice) \subseteq slice
               /\ \A W \in SUBSET path :
                    Contributing(C, path, held0, jewels, W) \subseteq W => slice \subseteq W
<1> DEFINE grow == [contrib \in SUBSET path |->
                      contrib \cup {f \in path : \E have \in C[f].post :
                        \E need \in StillNeeded(C, contrib, held0, jewels) :
                           Satisfies(have, need)}]
           slice == CHOOSE g : g = [n \in 0..N |-> IF n = 0 THEN {} ELSE grow[g[n - 1]]]
<1>1. ContributingSlice(C, path, held0, jewels) = path \cap slice[N]
  BY DEF ContributingSlice
<1>2. \A W \in SUBSET path : grow[W] = W \cup Contributing(C, path, held0, jewels, W)
  BY DEF Contributing
<1>3. grow \in [SUBSET path -> SUBSET path]
  BY DEF Contributing
<1> HIDE DEF grow
<1>4. Growing(grow, path)
  <2>1. \A V, W \in SUBSET path : V \subseteq W =>
          StillNeeded(C, V, held0, jewels) \subseteq StillNeeded(C, W, held0, jewels)
    BY DEF StillNeeded
  <2>2. \A V, W \in SUBSET path : V \subseteq W =>
          Contributing(C, path, held0, jewels, V) \subseteq Contributing(C, path, held0, jewels, W)
    BY <2>1 DEF Contributing
  <2> QED
    BY <1>2, <1>3, <2>2 DEF Growing
<1>5. /\ slice[N] \in SUBSET path /\ grow[slice[N]] = slice[N]
      /\ \A W \in SUBSET path : grow[W] \subseteq W => slice[N] \subseteq W
  BY <1>4, LoopIsLeast
<1> HIDE DEF slice
<1>6. ContributingSlice(C, path, held0, jewels) = slice[N] /\ grow[slice[N]] \subseteq slice[N]
  BY <1>1, <1>5
<1>7. \A W \in SUBSET path :
        grow[W] \subseteq W <=> Contributing(C, path, held0, jewels, W) \subseteq W
  BY <1>2
<1> QED
  BY <1>5, <1>6, <1>7

(* Fewer findings to walk, fewer walked. *)
LEMMA ComposeMonotone ==
    ASSUME NEW C, NEW S \in SUBSET Finding, NEW R \in SUBSET S, NEW held0
    PROVE  /\ Compose(C, R, held0) \subseteq Compose(C, S, held0)
           /\ JewelsReached(C, Compose(C, R, held0), held0)
                \subseteq JewelsReached(C, Compose(C, S, held0), held0)
<1> DEFINE W == R \cap Compose(C, S, held0)
<1>1. R \in SUBSET Finding
  OBVIOUS
<1>2. Enabled(C, R, held0, W) \subseteq W
  <2>1. Enabled(C, R, held0, W) \subseteq Enabled(C, S, held0, Compose(C, S, held0))
    BY DEF Enabled, SatisfiedBy, HeldAfter
  <2>2. Enabled(C, R, held0, W) \subseteq R
    BY DEF Enabled
  <2> QED
    BY <2>1, <2>2, ComposeIsLeast
<1>3. Compose(C, R, held0) \subseteq W
  BY <1>1, <1>2, ComposeIsLeast
<1> QED
  BY <1>3 DEF JewelsReached, HeldAfter
-----------------------------------------------------------------------------
UncitedRows(C) == {g \in Tagged(C) : ~SuppressionEvidence(C, g)}

Justified(C, f, b) ==
    /\ SuppressionEvidence(C, b)
    /\ \E p \in Unprivileged :
         /\ {f, b} \subseteq Path(C, p)
         /\ JewelsReached(C, Compose(C, UncitedRows(C), Holds[p]), Holds[p]) = {}

LEMMA DeclineFacts ==
    ASSUME NEW C, NEW p, NEW f \in R3Declines(C, p)
    PROVE  Justified(C, f, MinOf(Blockers(C, p)))
<1> DEFINE b == MinOf(Blockers(C, p))
<1>1. /\ Fires(C, p) /\ Blockers(C, p) # {} /\ f \in Carriers(C, p)
  BY DEF R3Declines
<1>2. Blockers(C, p) = Citing(C, p) /\ SurvivorJewels(C, p) = {}
  BY <1>1 DEF Blockers
<1>3. b \in Citing(C, p)
  BY <1>1, <1>2, BlockersAreFindings, MinOfFindings
<1>4. FullSlice(C, p) \subseteq Path(C, p)
  BY BlockersAreFindings, SliceIsLeast DEF FullSlice
<1>5. f \in FullSlice(C, p)
  BY <1>1 DEF Carriers
<1>6. b \in FullSlice(C, p) /\ SuppressionEvidence(C, b)
  BY <1>3 DEF Citing
<1>7. UncitedRows(C) \in SUBSET (Tagged(C) \ Citing(C, p))
      /\ Tagged(C) \ Citing(C, p) \in SUBSET Finding
  BY DEF UncitedRows, Citing, Tagged
<1>8. JewelsReached(C, Compose(C, UncitedRows(C), Holds[p]), Holds[p])
        \subseteq SurvivorJewels(C, p)
  BY <1>7, ComposeMonotone DEF SurvivorJewels, SurvivorPath
<1> QED
  BY <1>1, <1>2, <1>4, <1>5, <1>6, <1>8 DEF Justified, Fires

(* A rating is withheld only where the chain is dead without any cited row,  *)
(* by a cited blocker that can itself be walked: a run that declines an      *)
(* escalation has checked more routes than the slice it looked at.           *)
THEOREM WithheldOnEvidence == Spec => []SuppressionJustified
<1> DEFINE J == \A f \in Finding : declined[f] # Nobody => Justified(corpus, f, declined[f])
<1>1. J <=> SuppressionJustified
  BY DEF SuppressionJustified, Justified, UncitedRows
<1>2. Init => J
  BY DEF Init
<1>3. ASSUME J, [Next]_vars PROVE J'
  <2>1. UNCHANGED corpus
    BY <1>3 DEF Next, Finished, vars, ApplyR2, ApplyR1, SettleR1, ComposePersona, EndR3, Rewrite, Rerun
  <2>2. CASE UNCHANGED declined
    BY <1>3, <2>1, <2>2 DEF Justified, UncitedRows
  <2>3. CASE Rerun
    BY <2>3 DEF Rerun
  <2>4. CASE \E p \in Persona : ComposePersona(p)
    <3>1. PICK p \in Persona : ComposePersona(p)
      BY <2>4
    <3>2. \A f \in Finding :
            \/ declined'[f] = declined[f]
            \/ f \in R3Declines(corpus, p) /\ declined'[f] = MinOf(Blockers(corpus, p))
      BY <3>1 DEF ComposePersona
    <3>3. \A f \in Finding : declined'[f] # Nobody => Justified(corpus, f, declined'[f])
      BY <1>3, <3>2, DeclineFacts
    <3> QED
      BY <2>1, <3>3 DEF Justified, UncitedRows
  <2> QED
    BY <1>3, <2>2, <2>3, <2>4
    DEF Next, Finished, vars, runVars, ApplyR2, ApplyR1, SettleR1, EndR3, Rewrite
<1>4. J /\ [Next]_vars => J'
  BY <1>3
<1> HIDE DEF J
<1> QED
  BY <1>1, <1>2, <1>4, PTL DEF Spec
-----------------------------------------------------------------------------
(* A persona that starts with a crown jewel reaches it without a finding:    *)
(* its chain is reported as CRITICAL and raises nobody.                      *)
NoJewelHeld == \A p \in Unprivileged : \A c \in Holds[p] : ~IsJewel(c)

(* A jewel that the persona did not bring along has somebody who supplies it. *)
LEMMA SomebodySupplies ==
    ASSUME NEW C, NEW path \in SUBSET Finding, NEW held0,
           \A c \in held0 : ~IsJewel(c), JewelsReached(C, path, held0) # {}
    PROVE  ContributingSlice(C, path, held0, JewelsReached(C, path, held0)) # {}
<1> DEFINE jewels == JewelsReached(C, path, held0)
           slice == ContributingSlice(C, path, held0, jewels)
<1>1. PICK c \in jewels : TRUE
  OBVIOUS
<1>2. c \in HeldAfter(C, path, held0) /\ IsJewel(c)
  BY DEF JewelsReached
<1>3. PICK f \in path : c \in C[f].post
  BY <1>2 DEF HeldAfter
<1>4. f \in Contributing(C, path, held0, jewels, slice)
  <2>1. Satisfies(c, c) /\ c \in StillNeeded(C, slice, held0, jewels)
    BY <1>1 DEF Satisfies, StillNeeded
  <2> QED
    BY <1>3, <2>1 DEF Contributing
<1> QED
  BY <1>4, SliceIsLeast

LEMMA SurvivorsWalked ==
    ASSUME NEW C, NEW p
    PROVE  /\ Path(C, p) \in SUBSET Finding /\ SurvivorPath(C, p) \in SUBSET Path(C, p)
           /\ FullSlice(C, p) \in SUBSET Path(C, p)
           /\ Carriers(C, p) \in SUBSET Path(C, p)
<1>1. Tagged(C) \in SUBSET Finding /\ Tagged(C) \ Citing(C, p) \in SUBSET Tagged(C)
  BY DEF Tagged
<1>2. Path(C, p) \in SUBSET Finding /\ SurvivorPath(C, p) \in SUBSET Path(C, p)
  BY <1>1, BlockersAreFindings, ComposeMonotone DEF Path, SurvivorPath
<1>3. FullSlice(C, p) \in SUBSET Path(C, p)
  BY <1>2, SliceIsLeast DEF FullSlice
<1>4. ContributingSlice(C, SurvivorPath(C, p), Holds[p], SurvivorJewels(C, p))
        \in SUBSET SurvivorPath(C, p)
  BY <1>2, SliceIsLeast
<1> QED
  BY <1>2, <1>3, <1>4 DEF Carriers

LEMMA LiveChainIsCarried ==
    ASSUME NoJewelHeld, NEW C, NEW p, Fires(C, p), Blockers(C, p) = {}
    PROVE  R3Raises(C, p) # {} /\ R3Raises(C, p) \subseteq Path(C, p)
<1>1. \A c \in Holds[p] : ~IsJewel(c)
  BY DEF NoJewelHeld, Fires
<1>2. CASE Citing(C, p) = {}
  <2>1. FullSlice(C, p) # {}
    BY <1>1, SomebodySupplies, SurvivorsWalked DEF Fires, FullSlice
  <2> QED
    BY <1>2, <2>1, SurvivorsWalked DEF R3Raises, Carriers
<1>3. CASE Citing(C, p) # {}
  <2>1. SurvivorJewels(C, p) # {}
    BY <1>3 DEF Blockers
  <2>2. SurvivorPath(C, p) \in SUBSET Finding
    BY SurvivorsWalked
  <2>3. ContributingSlice(C, SurvivorPath(C, p), Holds[p], SurvivorJewels(C, p)) # {}
    BY <1>1, <2>1, <2>2, SomebodySupplies DEF SurvivorJewels
  <2> QED
    BY <1>3, <2>3, SurvivorsWalked DEF R3Raises, Carriers
<1> QED
  BY <1>2, <1>3

HighestOnPath(p) == MaxOf({severity[f] : f \in Path(corpus, p)})

ChainOfRun ==
    /\ \A p \in Persona : Path(corpus, p) = {} => chainSeverity[p] = Unset
    /\ phase \in {"R3", "ledger"} /\ target = severity =>
         \A p \in Persona \ todo :
            Path(corpus, p) # {} => chainSeverity[p] = HighestOnPath(p)
    /\ phase = "published" =>
         \A p \in Persona : Path(corpus, p) # {} => chainSeverity[p] = HighestOnPath(p)

LEMMA ChainStep ==
    ASSUME NoJewelHeld, TypeOK, SettledByRun, ChainOfRun, [Next]_vars
    PROVE  ChainOfRun'
<1> USE DEF ChainOfRun
<1>a. UNCHANGED corpus
  BY DEF Next, Finished, vars, ApplyR2, ApplyR1, SettleR1, ComposePersona, EndR3, Rewrite, Rerun
<1>1. CASE ApplyR2 \/ \E i, j \in Finding : ApplyR1(i, j)
  BY <1>a, <1>1 DEF ApplyR2, ApplyR1
<1>2. CASE SettleR1
  <2>1. UNCHANGED <<todo, chainSeverity>> /\ phase = "R1" /\ phase' = "R3"
    BY <1>2 DEF SettleR1, runVars
  <2>2. Persona \ todo' = {}
    BY <2>1 DEF SettledByRun
  <2> QED
    BY <1>a, <2>1, <2>2
<1>3. CASE \E p \in Persona : ComposePersona(p)
  <2>1. PICK p \in Persona : ComposePersona(p)
    BY <1>3
  <2>2. /\ UNCHANGED <<severity, phase>> /\ phase = "R3" /\ p \in todo /\ todo' = todo \ {p}
        /\ target' = [f \in Finding |-> IF f \in R3Raises(corpus, p) THEN CRITICAL ELSE target[f]]
        /\ chainSeverity' = [chainSeverity EXCEPT ![p] =
              IF Path(corpus, p) = {} THEN @ ELSE ChainSeverity(p)]
    BY <2>1 DEF ComposePersona, fileVars
  <2>3. chainSeverity' \in [Persona -> Sev \cup {Unset}]
        /\ \A q \in Persona : q # p => chainSeverity'[q] = chainSeverity[q]
        /\ chainSeverity'[p] = IF Path(corpus, p) = {} THEN chainSeverity[p] ELSE ChainSeverity(p)
    BY <2>1, <2>2, TypeStep DEF TypeOK
  <2>4. ASSUME target' = severity, Path(corpus, p) # {}
        PROVE  target = severity /\ ChainSeverity(p) = HighestOnPath(p)
    <3>1. \A f \in Finding : severity[f] \in 0..4 /\ target[f] \in 0..4
      BY DEF TypeOK, Sev
    <3>2. \A f \in Finding : target[f] = severity[f]
      BY <2>2, <2>4, <3>1 DEF SettledByRun, OnlyRises, CRITICAL
    <3>3. target = severity
      BY <3>2 DEF TypeOK
    <3>4. CASE Fires(corpus, p) /\ Blockers(corpus, p) = {}
      <4>1. PICK f \in R3Raises(corpus, p) : f \in Path(corpus, p)
        BY <3>4, LiveChainIsCarried
      <4>2. f \in Finding
        BY <4>1, SurvivorsWalked
      <4>3. severity[f] = CRITICAL
        BY <2>2, <2>4, <4>2
      <4> DEFINE S == {severity[g] : g \in Path(corpus, p)}
      <4>4. S \in SUBSET Sev /\ CRITICAL \in S
        BY <4>1, <4>3, SurvivorsWalked DEF TypeOK
      <4> HIDE DEF S
      <4>5. MaxOf(S) \in S /\ CRITICAL <= MaxOf(S)
        BY <4>4, MaxOfSev
      <4>6. MaxOf(S) = CRITICAL
        <5>1. \A m \in Sev : CRITICAL <= m => m = CRITICAL
          BY DEF Sev, CRITICAL
        <5> QED
          BY <4>4, <4>5, <5>1
      <4> QED
        BY <3>3, <3>4, <4>6 DEF ChainSeverity, HighestOnPath, S
    <3>5. CASE ~(Fires(corpus, p) /\ Blockers(corpus, p) = {})
      BY <3>3, <3>5 DEF ChainSeverity, HighestOnPath
    <3> QED
      BY <3>3, <3>4, <3>5
  <2>5. ASSUME target' = severity PROVE target = severity
    <3>1. \A f \in Finding : severity[f] \in 0..4 /\ target[f] \in 0..4
      BY DEF TypeOK, Sev
    <3>2. \A f \in Finding : target[f] = severity[f]
      BY <2>2, <2>5, <3>1 DEF SettledByRun, OnlyRises, CRITICAL
    <3> QED
      BY <3>2 DEF TypeOK
  <2>6. \A q : HighestOnPath(q)' = HighestOnPath(q)
    BY <1>a, <2>2 DEF HighestOnPath
  <2> QED
    BY <1>a, <2>2, <2>3, <2>4, <2>5, <2>6
<1>4. CASE EndR3
  <2>1. UNCHANGED <<todo, chainSeverity, severity, target>> /\ phase = "R3" /\ phase' = "ledger"
    BY <1>4 DEF EndR3, runVars, fileVars
  <2> QED
    BY <1>a, <2>1 DEF HighestOnPath
<1>5. CASE Rewrite
  <2>1. /\ UNCHANGED <<todo, chainSeverity, target>> /\ phase = "ledger" /\ severity' = target
        /\ phase' = IF Escalations = {} THEN "published" ELSE "exit1"
    BY <1>5 DEF Rewrite, runVars
  <2>2. ASSUME phase' = "published" PROVE target = severity /\ todo = {}
    <3>1. \A f \in Finding : ~(target[f] > severity[f])
      BY <2>1, <2>2 DEF Escalations
    <3>2. \A f \in Finding : severity[f] \in 0..4 /\ target[f] \in 0..4
      BY DEF TypeOK, Sev
    <3>3. \A f \in Finding : target[f] = severity[f]
      BY <3>1, <3>2 DEF SettledByRun, OnlyRises
    <3>4. target = severity
      BY <3>3 DEF TypeOK
    <3> QED
      BY <2>1, <3>4 DEF SettledByRun
  <2>3. phase' \notin {"R3", "ledger"}
    BY <2>1
  <2> QED
    BY <1>a, <2>1, <2>2, <2>3 DEF HighestOnPath
<1>6. CASE Rerun
  <2>1. phase' = "R2" /\ chainSeverity' = [p \in Persona |-> Unset]
    BY <1>6 DEF Rerun
  <2> QED
    BY <1>a, <2>1
<1>7. CASE UNCHANGED vars
  BY <1>a, <1>7 DEF vars, fileVars, runVars, HighestOnPath
<1> QED
  BY <1>1, <1>2, <1>3, <1>4, <1>5, <1>6, <1>7 DEF Next, Finished

(* The published summary never disagrees with the findings under it, though  *)
(* each line of it is computed before later personas raise findings, unless  *)
(* an unprivileged persona starts with a crown jewel.                        *)
THEOREM SummaryAgrees == ASSUME NoJewelHeld PROVE Spec => []ChainSeverityAgrees
<1>1. Init => ChainOfRun
  BY DEF Init, ChainOfRun
<1>2. TypeOK /\ SettledByRun /\ ChainOfRun /\ [Next]_vars => ChainOfRun'
  BY ChainStep
<1>3. ChainOfRun => ChainSeverityAgrees
  BY DEF ChainOfRun, ChainSeverityAgrees, HighestOnPath
<1> QED
  BY <1>1, <1>2, <1>3, SettledInit, SettledStep, TypeCorrect, PTL DEF Spec
-----------------------------------------------------------------------------
Entry == [severity : Sev, reason : SUBSET Rule]

\* The ratings a finding went through, from the asserted one.
Rise(first, h) == <<first>> \o [k \in 1..Len(h) |-> h[k].severity]

LEMMA RiseFacts ==
    ASSUME NEW first \in Sev, NEW h \in Seq(Entry)
    PROVE  /\ Len(h) \in Nat /\ Len(Rise(first, h)) = Len(h) + 1
           /\ Rise(first, h)[1] = first
           /\ \A k \in 1..Len(h) : Rise(first, h)[k + 1] = h[k].severity
<1> DEFINE tail == [k \in 1..Len(h) |-> h[k].severity]
<1>1. Len(h) \in Nat /\ \A k \in 1..Len(h) : h[k] \in Entry
  OBVIOUS
<1>2. \A k \in 1..Len(h) : h[k].severity \in Sev
  BY <1>1 DEF Entry
<1>3. tail \in Seq(Sev) /\ Len(tail) = Len(h) /\ \A k \in 1..Len(h) : tail[k] = h[k].severity
  BY <1>1, <1>2
<1> HIDE DEF tail
<1>4. Rise(first, h) = <<first>> \o tail
  BY DEF Rise, tail
<1>5. <<first>> \in Seq(Sev) /\ Len(<<first>>) = 1 /\ <<first>>[1] = first
  OBVIOUS
<1>6. Len(Rise(first, h)) = Len(h) + 1
      /\ \A k \in 1..(Len(h) + 1) :
           Rise(first, h)[k] = IF k = 1 THEN first ELSE tail[k - 1]
  BY <1>1, <1>3, <1>4, <1>5, ConcatProperties
<1> QED
  BY <1>1, <1>3, <1>6

\* One finding's provenance: what HistoryExplains says of it.
Explained(first, h, now, why) ==
    /\ \A k \in 1..Len(h) : Rise(first, h)[k] < Rise(first, h)[k + 1] /\ h[k].reason # {}
    /\ Rise(first, h)[Len(h) + 1] = now
    /\ h # <<>> => why = h[Len(h)].reason

LEMMA ExplainedClimbs ==
    ASSUME NEW first \in Sev, NEW h \in Seq(Entry), NEW now, NEW why,
           Explained(first, h, now, why),
           NEW e \in Entry, now < e.severity, e.reason # {}
    PROVE  Explained(first, Append(h, e), e.severity, e.reason)
<1> DEFINE g == Append(h, e)
<1>1. /\ Len(h) \in Nat /\ g \in Seq(Entry) /\ Len(g) = Len(h) + 1 /\ g[Len(h) + 1] = e
      /\ \A k \in 1..Len(h) : g[k] = h[k]
  BY AppendProperties
<1> HIDE DEF g
<1>2. \A k \in 1..Len(h) : Rise(first, g)[k + 1] = Rise(first, h)[k + 1]
  BY <1>1, RiseFacts
<1>3. Rise(first, g)[1] = Rise(first, h)[1]
  BY <1>1, RiseFacts
<1>4. \A k \in 1..(Len(h) + 1) : Rise(first, g)[k] = Rise(first, h)[k]
  <2> SUFFICES ASSUME NEW k \in 1..(Len(h) + 1), k # 1
               PROVE  Rise(first, g)[k] = Rise(first, h)[k]
    BY <1>3
  <2>1. k - 1 \in 1..Len(h) /\ (k - 1) + 1 = k
    BY <1>1
  <2> QED
    BY <1>2, <2>1
<1>5. Len(h) + 1 \in 1..Len(g)
  BY <1>1
<1>6. Rise(first, g)[Len(g) + 1] = e.severity
  BY <1>1, <1>5, RiseFacts
<1>7. ASSUME NEW k \in 1..Len(g)
      PROVE  Rise(first, g)[k] < Rise(first, g)[k + 1] /\ g[k].reason # {}
  <2>1. CASE k \in 1..Len(h)
    <3>1. k + 1 \in 1..(Len(h) + 1) /\ k \in 1..(Len(h) + 1)
      BY <1>1, <2>1
    <3> QED
      BY <1>1, <1>4, <2>1, <3>1 DEF Explained
  <2>2. CASE k \notin 1..Len(h)
    <3>1. k = Len(h) + 1 /\ k \in 1..(Len(h) + 1)
      BY <1>1, <2>2
    <3>2. Rise(first, g)[k] = now
      BY <1>4, <3>1 DEF Explained
    <3>3. Rise(first, g)[k + 1] = e.severity
      BY <1>1, <1>6, <3>1
    <3> QED
      BY <1>1, <3>1, <3>2, <3>3
  <2> QED
    BY <2>1, <2>2
<1>8. Explained(first, g, e.severity, e.reason)
  BY <1>1, <1>6, <1>7 DEF Explained
<1> QED
  BY <1>8 DEF g

(* Within a run a rule is on record for exactly what was raised. *)
FiredWhereRaised ==
    phase \in {"R2", "R1", "R3", "ledger"} =>
        \A f \in Finding : fired[f] # {} <=> target[f] > severity[f]

Provenance ==
    \A f \in Finding :
        /\ severityAsserted[f] \in {Unset, corpus[f].severity}
        /\ severityAsserted[f] = Unset => history[f] = <<>>
        /\ Explained(corpus[f].severity, history[f], severity[f], rules[f])

LEMMA FiredStep ==
    ASSUME TypeOK, OnlyRises, FiredWhereRaised, [Next]_vars
    PROVE  FiredWhereRaised'
<1> USE DEF FiredWhereRaised
<1>a. \A f \in Finding : /\ severity[f] \in 0..4 /\ target[f] \in 0..4
                         /\ severity[f] <= target[f]
  BY DEF TypeOK, Sev, OnlyRises
<1>1. CASE ApplyR2
  <2> SUFFICES ASSUME NEW f \in Finding
               PROVE  fired'[f] # {} <=> target'[f] > severity'[f]
    OBVIOUS
  <2>1. /\ phase = "R2" /\ severity' = severity
        /\ target'[f] = Higher(target[f], R2Floor(f))
        /\ fired'[f] = fired[f] \cup IF R2Floor(f) > target[f] THEN {"R2"} ELSE {}
    BY <1>1 DEF ApplyR2, fileVars
  <2>2. R2Floor(f) \in 0..4
    BY R2FloorIsSev DEF Sev
  <2>3. fired[f] # {} <=> target[f] > severity[f]
    BY <2>1
  <2>4. CASE R2Floor(f) > target[f]
    <3>1. fired'[f] # {} /\ target'[f] = R2Floor(f)
      BY <1>a, <2>1, <2>2, <2>4 DEF Higher
    <3> QED
      BY <1>a, <2>1, <2>2, <2>4, <3>1
  <2>5. CASE ~(R2Floor(f) > target[f])
    <3>1. fired'[f] = fired[f] /\ target'[f] = target[f]
      BY <1>a, <2>1, <2>2, <2>5 DEF Higher
    <3> QED
      BY <2>1, <2>3, <3>1
  <2> QED
    BY <2>4, <2>5
<1>2. CASE \E i, j \in Finding : ApplyR1(i, j)
  <2>1. PICK i, j \in Finding : ApplyR1(i, j)
    BY <1>2
  <2>2. /\ phase = "R1" /\ UNCHANGED severity /\ target[i] > target[j]
        /\ \A f \in Finding : target'[f] = IF f = j THEN target[i] ELSE target[f]
        /\ \A f \in Finding : fired'[f] = IF f = j THEN fired[j] \cup {"R1"} ELSE fired[f]
    BY <2>1 DEF ApplyR1, fileVars, Undischarged, TypeOK
  <2> SUFFICES ASSUME NEW f \in Finding
               PROVE  fired'[f] # {} <=> target'[f] > severity[f]
    BY <2>2
  <2>3. CASE f = j
    <3>1. fired'[f] # {} /\ target'[f] = target[i]
      BY <2>2, <2>3
    <3> QED
      BY <1>a, <2>2, <2>3, <3>1
  <2>4. CASE f # j
    BY <2>2, <2>4
  <2> QED
    BY <2>3, <2>4
<1>3. CASE SettleR1 \/ EndR3
  BY <1>3 DEF SettleR1, EndR3, runVars, fileVars
<1>4. CASE \E p \in Persona : ComposePersona(p)
  <2>1. PICK p \in Persona : ComposePersona(p)
    BY <1>4
  <2> SUFFICES ASSUME NEW f \in Finding
               PROVE  fired'[f] # {} <=> target'[f] > severity'[f]
    OBVIOUS
  <2>2. /\ phase = "R3" /\ severity' = severity
        /\ target'[f] = IF f \in R3Raises(corpus, p) THEN CRITICAL ELSE target[f]
        /\ fired'[f] = fired[f] \cup IF f \in R3Raises(corpus, p) /\ target[f] < CRITICAL
                                     THEN {"R3"} ELSE {}
    BY <2>1 DEF ComposePersona, fileVars
  <2>3. fired[f] # {} <=> target[f] > severity[f]
    BY <2>2
  <2>4. CASE f \in R3Raises(corpus, p) /\ target[f] < CRITICAL
    <3>1. fired'[f] # {} /\ target'[f] = CRITICAL
      BY <2>2, <2>4
    <3> QED
      BY <1>a, <2>2, <2>4, <3>1 DEF CRITICAL
  <2>5. CASE ~(f \in R3Raises(corpus, p) /\ target[f] < CRITICAL)
    <3>1. fired'[f] = fired[f]
      BY <2>2, <2>5
    <3>2. target'[f] = target[f]
      BY <1>a, <2>2, <2>5 DEF CRITICAL
    <3> QED
      BY <2>2, <2>3, <3>1, <3>2
  <2> QED
    BY <2>4, <2>5
<1>5. CASE Rewrite
  <2>1. phase' \in {"published", "exit1"}
    BY <1>5 DEF Rewrite
  <2> QED
    BY <2>1
<1>6. CASE Rerun
  <2> SUFFICES ASSUME NEW f \in Finding
               PROVE  fired'[f] # {} <=> target'[f] > severity'[f]
    OBVIOUS
  <2>1. fired'[f] = {} /\ target'[f] = severity[f] /\ severity'[f] = severity[f]
    BY <1>6 DEF Rerun, fileVars
  <2> QED
    BY <1>a, <2>1
<1>7. CASE UNCHANGED vars
  BY <1>7 DEF vars, runVars, fileVars
<1> QED
  BY <1>1, <1>2, <1>3, <1>4, <1>5, <1>6, <1>7 DEF Next, Finished

LEMMA ProvenanceStep ==
    ASSUME TypeOK, OnlyRises, FiredWhereRaised, Provenance, [Next]_vars
    PROVE  Provenance'
<1>a. UNCHANGED corpus
  BY DEF Next, Finished, vars, ApplyR2, ApplyR1, SettleR1, ComposePersona, EndR3, Rewrite, Rerun
<1>1. CASE UNCHANGED fileVars
  BY <1>a, <1>1 DEF fileVars, Provenance
<1>2. CASE Rewrite
  <2> SUFFICES ASSUME NEW f \in Finding
               PROVE  /\ severityAsserted'[f] \in {Unset, corpus[f].severity}
                      /\ severityAsserted'[f] = Unset => history'[f] = <<>>
                      /\ Explained(corpus[f].severity, history'[f], severity'[f], rules'[f])
    BY <1>a DEF Provenance
  <2> DEFINE first == corpus[f].severity
             e == [severity |-> target[f], reason |-> fired[f]]
  <2>1. /\ phase = "ledger"
        /\ severity'[f] = target[f]
        /\ severityAsserted'[f] = IF severityAsserted[f] = Unset THEN severity[f]
                                                                 ELSE severityAsserted[f]
        /\ history'[f] = IF target[f] # severity[f] THEN Append(history[f], e) ELSE history[f]
        /\ rules'[f] = IF fired[f] # {} THEN fired[f] ELSE rules[f]
    BY <1>2 DEF Rewrite, AssertedStamp
  <2>2. /\ first \in Sev /\ severity[f] \in 0..4 /\ target[f] \in 0..4
        /\ fired[f] \in SUBSET Rule /\ history[f] \in Seq(Entry)
        /\ severity[f] <= target[f] /\ (fired[f] # {} <=> target[f] > severity[f])
    BY <2>1, AssertedIsSev DEF TypeOK, Sev, OnlyRises, FiredWhereRaised, Entry
  <2>3. /\ severityAsserted[f] \in {Unset, first}
        /\ severityAsserted[f] = Unset => history[f] = <<>>
        /\ Explained(first, history[f], severity[f], rules[f])
    BY DEF Provenance
  <2>4. history[f] = <<>> => severity[f] = first
    <3> SUFFICES ASSUME history[f] = <<>> PROVE severity[f] = first
      OBVIOUS
    <3>1. Len(history[f]) + 1 = 1
      OBVIOUS
    <3> HIDE DEF first
    <3>2. Rise(first, history[f])[1] = first
      BY <2>2, RiseFacts
    <3> QED
      BY <2>3, <3>1, <3>2 DEF Explained
  <2>5. severityAsserted'[f] = first
    BY <2>1, <2>3, <2>4
  <2>6. first # Unset
    BY <2>2 DEF Sev, Unset
  <2>7. CASE target[f] = severity[f]
    <3>1. fired[f] = {}
      BY <2>2, <2>7
    <3> QED
      BY <2>1, <2>3, <2>5, <2>6, <2>7, <3>1
  <2>8. CASE target[f] # severity[f]
    <3>1. severity[f] < target[f] /\ fired[f] # {}
      BY <2>2, <2>8
    <3>2. e \in Entry /\ e.severity = target[f] /\ e.reason = fired[f]
      BY <2>2 DEF Entry, Sev
    <3> HIDE DEF e, first
    <3>3. Explained(first, Append(history[f], e), e.severity, e.reason)
      BY <2>2, <2>3, <3>1, <3>2, ExplainedClimbs
    <3>4. history'[f] = Append(history[f], e) /\ severity'[f] = e.severity /\ rules'[f] = e.reason
      BY <2>1, <2>8, <3>1, <3>2
    <3>5. Explained(first, history'[f], severity'[f], rules'[f])
      BY <3>3, <3>4
    <3> QED
      BY <2>5, <2>6, <3>5 DEF first
  <2> QED
    BY <2>7, <2>8
<1> QED
  BY <1>1, <1>2
  DEF Next, Finished, vars, ApplyR2, ApplyR1, SettleR1, ComposePersona, EndR3, Rerun

LEMMA ProvenanceExplains ==
    ASSUME TypeOK, Provenance PROVE HistoryExplains
<1> SUFFICES ASSUME NEW f \in Finding
             PROVE  LET rise == Rise(corpus[f].severity, history[f])
                    IN  /\ severityAsserted[f] \in {Unset, corpus[f].severity}
                        /\ \A k \in 1..Len(history[f]) : /\ rise[k] < rise[k + 1]
                                                         /\ history[f][k].reason # {}
                        /\ rise[Len(rise)] = severity[f]
                        /\ history[f] # <<>> => rules[f] = history[f][Len(history[f])].reason
  BY DEF HistoryExplains, Rise
<1>1. corpus[f].severity \in Sev /\ history[f] \in Seq(Entry)
  BY AssertedIsSev DEF TypeOK, Entry
<1>2. Len(Rise(corpus[f].severity, history[f])) = Len(history[f]) + 1
  BY <1>1, RiseFacts
<1> QED
  BY <1>2 DEF Provenance, Explained

(* Provenance survives any number of rewrites and re-runs: the asserted      *)
(* rating is kept, the history climbs strictly from it to the rating the     *)
(* file shows, no climb goes without the rules that fired, and those of the  *)
(* last one are the ones on record.                                          *)
THEOREM HistoryKept == Spec => []HistoryExplains
<1>1. Init => FiredWhereRaised /\ Provenance
  <2> SUFFICES ASSUME Init PROVE FiredWhereRaised /\ Provenance
    OBVIOUS
  <2>1. ASSUME NEW f \in Finding
        PROVE  /\ corpus[f].severity \in Sev /\ severity[f] = corpus[f].severity
               /\ target[f] = severity[f] /\ fired[f] = {}
               /\ history[f] = <<>> /\ severityAsserted[f] = Unset
    BY AssertedIsSev DEF Init
  <2>2. FiredWhereRaised
    <3>1. \A x \in Sev : ~(x > x)
      BY DEF Sev
    <3> QED
      BY <2>1, <3>1 DEF FiredWhereRaised
  <2>3. ASSUME NEW f \in Finding
        PROVE  Explained(corpus[f].severity, <<>>, corpus[f].severity, rules[f])
    <3>a. <<>> \in Seq(Entry) /\ corpus[f].severity \in Sev
      BY <2>1
    <3>1. Rise(corpus[f].severity, <<>>)[1] = corpus[f].severity
      BY ONLY <3>a, RiseFacts
    <3>2. Len(<<>>) = 0
      OBVIOUS
    <3> QED
      BY <3>1, <3>2 DEF Explained
  <2> QED
    BY <2>1, <2>2, <2>3 DEF Provenance
<1>2. TypeOK /\ OnlyRises /\ FiredWhereRaised /\ Provenance /\ [Next]_vars
        => FiredWhereRaised' /\ Provenance'
  BY FiredStep, ProvenanceStep
<1>3. TypeOK /\ Provenance => HistoryExplains
  BY ProvenanceExplains
<1>4. SettledByRun => OnlyRises
  BY DEF SettledByRun
<1> QED
  BY <1>1, <1>2, <1>3, <1>4, SettledInit, SettledStep, TypeCorrect, PTL DEF Spec
-----------------------------------------------------------------------------
(* Every line of a finding's history stands for a step up the scale. *)
FewClimbs == \A f \in Finding : corpus[f].severity + Len(history[f]) <= severity[f]

LEMMA ClimbsStep ==
    ASSUME TypeOK, OnlyRises, FewClimbs, [Next]_vars PROVE FewClimbs'
<1>a. UNCHANGED corpus
  BY DEF Next, Finished, vars, ApplyR2, ApplyR1, SettleR1, ComposePersona, EndR3, Rewrite, Rerun
<1>1. CASE UNCHANGED fileVars
  BY <1>a, <1>1 DEF fileVars, FewClimbs
<1>2. CASE Rewrite
  <2> SUFFICES ASSUME NEW f \in Finding
               PROVE  corpus[f].severity + Len(history'[f]) <= severity'[f]
    BY <1>a DEF FewClimbs
  <2> DEFINE e == [severity |-> target[f], reason |-> fired[f]]
  <2>1. /\ phase = "ledger" /\ severity'[f] = target[f]
        /\ history'[f] = IF target[f] # severity[f] THEN Append(history[f], e) ELSE history[f]
    BY <1>2 DEF Rewrite
  <2>a. corpus[f].severity \in 0..4 /\ severity[f] \in 0..4 /\ target[f] \in 0..4
    BY AssertedIsSev DEF TypeOK, Sev
  <2>b. history[f] \in Seq(Entry) /\ e \in Entry
    BY DEF TypeOK, Entry
  <2>2. /\ corpus[f].severity \in Int /\ severity[f] \in Int /\ target[f] \in Int
        /\ severity[f] <= target[f] /\ history[f] \in Seq(Entry) /\ e \in Entry
    BY <2>a, <2>b DEF OnlyRises
  <2> HIDE DEF e
  <2>3. Len(history[f]) \in Nat /\ Len(Append(history[f], e)) = Len(history[f]) + 1
    BY <2>2
  <2>4. corpus[f].severity + Len(history[f]) <= severity[f]
    BY DEF FewClimbs
  <2>5. CASE target[f] = severity[f]
    BY <2>1, <2>4, <2>5
  <2>6. CASE target[f] # severity[f]
    <3>1. history'[f] = Append(history[f], e)
      BY <2>1, <2>6
    <3> QED
      BY <2>1, <2>2, <2>3, <2>4, <2>6, <3>1
  <2> QED
    BY <2>5, <2>6
<1> QED
  BY <1>1, <1>2
  DEF Next, Finished, vars, ApplyR2, ApplyR1, SettleR1, ComposePersona, EndR3, Rerun

(* The safe half of Converges: a run that does not publish adds a line to    *)
(* the history of some finding, and no finding has more lines than there are *)
(* steps between the analyst's rating and the file's, so Phase 7 re-runs the *)
(* gate at most four times for a finding (phase-07-synthesis.md:705-711).    *)
THEOREM FewReruns ==
    /\ Spec => []FewClimbs
    /\ Spec => [][phase = "ledger" /\ phase' = "exit1" =>
                     \E f \in Finding : Len(history'[f]) = Len(history[f]) + 1]_vars
<1>1. Init => FewClimbs
  <2> SUFFICES ASSUME Init, NEW f \in Finding
               PROVE  corpus[f].severity + Len(history[f]) <= severity[f]
    BY DEF FewClimbs
  <2>1. severity[f] = corpus[f].severity /\ history[f] = <<>> /\ corpus[f].severity \in Int
    BY AssertedIsSev DEF Init, Sev
  <2>2. Len(history[f]) = 0
    BY <2>1
  <2> QED
    BY <2>1, <2>2
<1>2. TypeOK /\ OnlyRises /\ FewClimbs /\ [Next]_vars => FewClimbs'
  BY ClimbsStep
<1>3. SettledByRun => OnlyRises
  BY DEF SettledByRun
<1>4. TypeOK /\ [Next]_vars
        => [phase = "ledger" /\ phase' = "exit1" =>
              \E f \in Finding : Len(history'[f]) = Len(history[f]) + 1]_vars
  <2> SUFFICES ASSUME TypeOK, [Next]_vars, phase = "ledger", phase' = "exit1"
               PROVE  \E f \in Finding : Len(history'[f]) = Len(history[f]) + 1
    OBVIOUS
  <2>1. Rewrite
    BY DEF Next, Finished, vars, runVars, ApplyR2, ApplyR1, SettleR1, ComposePersona, EndR3, Rerun
  <2>2. PICK f \in Finding : target[f] > severity[f]
    BY <2>1 DEF Rewrite, Escalations
  <2>3. target[f] # severity[f]
    <3>1. target[f] \in 0..4 /\ severity[f] \in 0..4
      BY DEF TypeOK, Sev
    <3> QED
      BY <2>2, <3>1
  <2> DEFINE e == [severity |-> target[f], reason |-> fired[f]]
  <2>4. history'[f] = Append(history[f], e)
    BY <2>1, <2>3 DEF Rewrite
  <2>5. history[f] \in Seq(Entry) /\ e \in Entry
    BY DEF TypeOK, Entry
  <2> HIDE DEF e
  <2> QED
    BY <2>4, <2>5
<1> QED
  BY <1>1, <1>2, <1>3, <1>4, SettledInit, SettledStep, TypeCorrect, PTL DEF Spec
-----------------------------------------------------------------------------
(* The contract speaks of the same graph. *)
LEMMA SameGraph ==
    /\ Contract!Finding = Finding /\ Contract!Sev = Sev /\ Contract!CRITICAL = CRITICAL
    /\ \A have, need : Contract!Satisfies(have, need) <=> Satisfies(have, need)
    /\ \A need, held : Contract!SatisfiedBy(need, held) <=> SatisfiedBy(need, held)
    /\ \A C, W, held0 : /\ Contract!HeldAfter(C, W, held0) = HeldAfter(C, W, held0)
                        /\ Contract!JewelsReached(C, W, held0) = JewelsReached(C, W, held0)
    /\ \A C : Contract!Tagged(C) = Tagged(C)
    /\ \A C, f : Contract!SuppressionEvidence(C, f) <=> SuppressionEvidence(C, f)
    /\ \A C, i, j : /\ Contract!Supplies(C, i, j) <=> Supplies(C, i, j)
                    /\ Contract!NamedBy(C, i, j) <=> NamedBy(C, i, j)
<1>1. /\ Contract!Finding = Finding /\ Contract!Sev = Sev /\ Contract!CRITICAL = CRITICAL
  BY DEF Contract!Finding, Finding, Contract!Sev, Sev, Contract!CRITICAL, CRITICAL
<1>2. \A have, need : Contract!Satisfies(have, need) <=> Satisfies(have, need)
  BY DEF Contract!Satisfies, Satisfies
<1>3. \A need, held : Contract!SatisfiedBy(need, held) <=> SatisfiedBy(need, held)
  BY <1>2 DEF Contract!SatisfiedBy, SatisfiedBy
<1>4. \A c : Contract!IsJewel(c) <=> IsJewel(c)
  BY DEF Contract!IsJewel, IsJewel
<1>5. \A C, W, held0 : Contract!HeldAfter(C, W, held0) = HeldAfter(C, W, held0)
  BY DEF Contract!HeldAfter, HeldAfter
<1>6. \A C, W, held0 : Contract!JewelsReached(C, W, held0) = JewelsReached(C, W, held0)
  BY <1>4, <1>5 DEF Contract!JewelsReached, JewelsReached
<1>7. \A C : Contract!Tagged(C) = Tagged(C)
  BY <1>1 DEF Contract!Tagged, Tagged, Contract!InGraph, InGraph
<1>8. \A C, f : Contract!SuppressionEvidence(C, f) <=> SuppressionEvidence(C, f)
  BY DEF Contract!SuppressionEvidence, SuppressionEvidence
<1>9. \A C, i, j : /\ Contract!Supplies(C, i, j) <=> Supplies(C, i, j)
                   /\ Contract!NamedBy(C, i, j) <=> NamedBy(C, i, j)
  BY <1>3 DEF Contract!Supplies, Supplies, Contract!NamedBy, NamedBy, Contract!InGraph, InGraph
<1> QED
  BY <1>1, <1>2, <1>3, <1>5, <1>6, <1>7, <1>8, <1>9

LEMMA LeastOf ==
    ASSUME NEW family, NEW w \in family, \A v \in family : w \subseteq v
    PROVE  Contract!Least(family) = w
BY DEF Contract!Least

(* The passes of compose reach what the contract calls walkable. *)
LEMMA WalkableIsComposed ==
    ASSUME NEW C, NEW S \in SUBSET Finding, NEW held0
    PROVE  Contract!WalkableFrom(C, S, held0) = Compose(C, S, held0)
<1> DEFINE family == {w \in SUBSET S :
                        \A f \in S : (\A need \in C[f].pre :
                                         Contract!SatisfiedBy(need, Contract!HeldAfter(C, w, held0)))
                                     => f \in w}
<1>1. \A w \in SUBSET S : w \in family <=> Enabled(C, S, held0, w) \subseteq w
  BY SameGraph DEF Enabled
<1>2. Contract!WalkableFrom(C, S, held0) = Contract!Least(family)
  BY DEF Contract!WalkableFrom
<1>3. family \in SUBSET SUBSET S
  OBVIOUS
<1> HIDE DEF family
<1>4. Compose(C, S, held0) \in family
  BY <1>1, ComposeIsLeast
<1>5. \A v \in family : Compose(C, S, held0) \subseteq v
  BY <1>1, <1>3, ComposeIsLeast
<1> QED
  BY <1>2, <1>4, <1>5, LeastOf

SliceFor(C, S, held0) ==
    ContributingSlice(C, Compose(C, S, held0), held0,
                      JewelsReached(C, Compose(C, S, held0), held0))

(* And those of contributing_slice the carriers. *)
LEMMA CarriersAreSliced ==
    ASSUME NEW C \in Corpora, NEW S \in SUBSET Finding, NEW held0 \in SUBSET Capability
    PROVE  Contract!CarriersOf(C, S, held0) = SliceFor(C, S, held0)
<1> DEFINE path == Compose(C, S, held0)
           jewels == JewelsReached(C, path, held0)
           slice == ContributingSlice(C, path, held0, jewels)
           family == {w \in SUBSET path :
                        \A f \in path :
                           (\E have \in C[f].post, need \in Capability :
                               /\ Contract!Satisfies(have, need)
                               /\ \/ need \in jewels
                                  \/ /\ ~Contract!SatisfiedBy(need, held0)
                                     /\ \E g \in w : need \in C[g].pre)
                           => f \in w}
<1>1. path \in SUBSET Finding
  BY ComposeIsLeast
<1>2. \A f \in Finding : C[f].pre \subseteq Capability /\ C[f].post \subseteq Capability
  <2>1. \A f \in Finding : C[f] \in Row
    BY CorporaAssumption
  <2> QED
    BY <2>1 DEF Row
<1>3. jewels \subseteq Capability
  BY <1>1, <1>2 DEF JewelsReached, HeldAfter
<1>4. Contract!CarriersOf(C, S, held0) = Contract!Least(family)
  <2>1. Contract!WalkableFrom(C, S, held0) = path
    BY WalkableIsComposed
  <2>2. Contract!JewelsReached(C, path, held0) = jewels
    BY SameGraph
  <2> HIDE DEF path, jewels
  <2> QED
    BY <2>1, <2>2 DEF Contract!CarriersOf
<1> HIDE DEF path, jewels
<1>5. ASSUME NEW w \in SUBSET path
      PROVE  w \in family <=> Contributing(C, path, held0, jewels, w) \subseteq w
  <2> DEFINE Sought(need) == /\ need \in Capability
                             /\ \/ need \in jewels
                                \/ ~SatisfiedBy(need, held0) /\ \E g \in w : need \in C[g].pre
  <2>1. \A need : need \in StillNeeded(C, w, held0, jewels) <=> Sought(need)
    <3>1. w \in SUBSET Finding
      BY <1>1
    <3> QED
      BY <1>2, <1>3, <3>1 DEF StillNeeded
  <2>2. w \in family <=> \A f \in path : (\E have \in C[f].post : \E need \in Capability :
                                             Satisfies(have, need) /\ Sought(need)) => f \in w
    BY SameGraph
  <2> HIDE DEF Sought
  <2>3. Contributing(C, path, held0, jewels, w) \subseteq w
          <=> \A f \in path : (\E have \in C[f].post : \E need :
                                  Satisfies(have, need) /\ Sought(need)) => f \in w
    BY <2>1 DEF Contributing
  <2>4. \A need : Sought(need) => need \in Capability
    BY DEF Sought
  <2> HIDE DEF family
  <2> QED
    BY <2>2, <2>3, <2>4
<1>6. family \in SUBSET SUBSET path
  OBVIOUS
<1> HIDE DEF family
<1>7. /\ slice \in SUBSET path
      /\ Contributing(C, path, held0, jewels, slice) \subseteq slice
      /\ \A W \in SUBSET path :
           Contributing(C, path, held0, jewels, W) \subseteq W => slice \subseteq W
  BY <1>1, SliceIsLeast
<1> HIDE DEF slice
<1>8. slice \in family /\ \A v \in family : slice \subseteq v
  BY <1>5, <1>6, <1>7
<1>9. Contract!CarriersOf(C, S, held0) = slice
  BY <1>4, <1>8, LeastOf
<1> QED
  BY <1>9 DEF SliceFor, slice, path, jewels

(* No jewel, no chain. *)
LEMMA NoJewelNoSlice ==
    ASSUME NEW C, NEW S \in SUBSET Finding, NEW held0,
           JewelsReached(C, Compose(C, S, held0), held0) = {}
    PROVE  SliceFor(C, S, held0) = {}
<1> DEFINE path == Compose(C, S, held0)
<1>1. path \in SUBSET Finding
  BY ComposeIsLeast
<1> HIDE DEF path
<1>2. Contributing(C, path, held0, {}, {}) \subseteq {}
  BY DEF Contributing, StillNeeded
<1>3. ContributingSlice(C, path, held0, {}) \subseteq {}
  BY <1>1, <1>2, SliceIsLeast
<1> QED
  BY <1>3 DEF SliceFor, path

(* Whom R3 raises for a persona is whom the contract puts on a live chain:   *)
(* dropping the cited carriers and slicing what is left comes to the same    *)
(* whichever of the loop's branches was taken.                               *)
LEMMA RaisedIsOnLiveChain ==
    ASSUME NEW C \in Corpora, NEW p \in Unprivileged
    PROVE  Contract!OnLiveChain(C, p) = R3Raises(C, p)
<1> DEFINE held == Holds[p]
           live == Tagged(C) \ Citing(C, p)
<1>1. /\ Tagged(C) \in SUBSET Finding /\ live \in SUBSET Finding
      /\ held \in SUBSET Capability
  BY LexiconAssumption DEF Tagged
<1>2. FullSlice(C, p) = SliceFor(C, Tagged(C), held)
  BY DEF FullSlice, SliceFor, Path
<1>3. ContributingSlice(C, SurvivorPath(C, p), held, SurvivorJewels(C, p)) = SliceFor(C, live, held)
  BY DEF SurvivorPath, SurvivorJewels, SliceFor
<1>4. Contract!OnLiveChain(C, p) = SliceFor(C, live, held)
  <2>1. Contract!CarriersOf(C, Tagged(C), held) = FullSlice(C, p)
    BY <1>1, <1>2, CarriersAreSliced
  <2>2. {f \in FullSlice(C, p) : Contract!SuppressionEvidence(C, f)} = Citing(C, p)
    BY SameGraph DEF Citing
  <2>3. Contract!Tagged(C) = Tagged(C)
    BY SameGraph
  <2>4. Contract!CarriersOf(C, live, held) = SliceFor(C, live, held)
    BY <1>1, CarriersAreSliced
  <2>5. Contract!OnLiveChain(C, p) =
          Contract!CarriersOf(C, Tagged(C) \ {f \in FullSlice(C, p) : Contract!SuppressionEvidence(C, f)}, held)
    BY ONLY <2>1, <2>3 DEF Contract!OnLiveChain
  <2> QED
    BY <2>2, <2>4, <2>5
<1>5. CASE ~Fires(C, p)
  <2>1. Path(C, p) # {} => JewelsReached(C, Path(C, p), held) = {}
    BY <1>5 DEF Fires
  <2>2. FullSlice(C, p) = {}
    <3>1. CASE Path(C, p) = {}
      BY <3>1, SurvivorsWalked
    <3>2. CASE Path(C, p) # {}
      BY <1>1, <1>2, <2>1, <3>2, NoJewelNoSlice DEF Path
    <3> QED
      BY <3>1, <3>2
  <2>3. live = Tagged(C)
    BY <2>2 DEF Citing
  <2> HIDE DEF live
  <2> QED
    BY <1>2, <1>4, <1>5, <2>2, <2>3 DEF R3Raises
<1>6. CASE Fires(C, p) /\ Citing(C, p) = {}
  <2>1. Blockers(C, p) = {} /\ live = Tagged(C)
    BY <1>6 DEF Blockers
  <2> HIDE DEF live
  <2> QED
    BY <1>2, <1>4, <1>6, <2>1 DEF R3Raises, Carriers
<1>7. CASE Fires(C, p) /\ Citing(C, p) # {} /\ SurvivorJewels(C, p) # {}
  <2>1. Blockers(C, p) = {}
    BY <1>7 DEF Blockers
  <2> HIDE DEF live
  <2> QED
    BY <1>3, <1>4, <1>7, <2>1 DEF R3Raises, Carriers
<1>8. CASE Fires(C, p) /\ Citing(C, p) # {} /\ SurvivorJewels(C, p) = {}
  <2>1. R3Raises(C, p) = {}
    BY <1>8 DEF Blockers, R3Raises
  <2>2. SliceFor(C, live, held) = {}
    BY <1>1, <1>8, NoJewelNoSlice DEF SurvivorJewels, SurvivorPath
  <2> QED
    BY <1>4, <2>1, <2>2
<1> QED
  BY <1>5, <1>6, <1>7, <1>8

(* What the run calls settled and within the analyst's floor, the contract   *)
(* calls contented.                                                          *)
LEMMA ContentedIsSettled ==
    ASSUME corpus \in Corpora, NEW r
    PROVE  r \in Contract!Contented(corpus)
             <=> /\ r \in [Finding -> Sev]
                 /\ \A f \in Finding : corpus[f].severity <= r[f]
                 /\ Settled(r, Links, Carried)
<1>1. Contract!Ties(corpus) = Links
  BY SameGraph DEF Contract!Ties, Links
<1>2. Contract!Forced(corpus) = Carried
  <2>1. \A p \in Persona \ Unprivileged : R3Raises(corpus, p) = {}
    BY DEF R3Raises, Fires
  <2>2. Carried = UNION {R3Raises(corpus, p) : p \in Unprivileged}
    BY <2>1, LexiconAssumption DEF Carried
  <2>3. \A p \in Unprivileged : Contract!OnLiveChain(corpus, p) = R3Raises(corpus, p)
    BY RaisedIsOnLiveChain
  <2> QED
    BY <2>2, <2>3 DEF Contract!Forced
<1>3. Contract!Finding = Finding /\ Contract!Sev = Sev /\ Contract!CRITICAL = CRITICAL
  BY SameGraph
<1> QED
  BY <1>1, <1>2, <1>3 DEF Contract!Contented, Settled

(* There is a least contented rating: everything CRITICAL is contented, and  *)
(* the lowest any contented rating gives each finding is contented again.    *)
LEMMA LeastRating ==
    ASSUME corpus \in Corpora
    PROVE  /\ Contract!ComputedSeverity(corpus) \in Contract!Contented(corpus)
           /\ \A q \in Contract!Contented(corpus) : \A f \in Finding :
                Contract!ComputedSeverity(corpus)[f] <= q[f]
<1> DEFINE All == Contract!Contented(corpus)
           Lowest(r) == \A q \in All : \A f \in Finding : r[f] <= q[f]
           at(f) == {r[f] : r \in All}
           low(f) == CHOOSE s \in at(f) : \A t \in at(f) : s <= t
           m == [f \in Finding |-> low(f)]
<1>1. \A r : r \in All <=> /\ r \in [Finding -> Sev]
                           /\ \A f \in Finding : corpus[f].severity <= r[f]
                           /\ Settled(r, Links, Carried)
  BY ContentedIsSettled
<1> HIDE DEF All
<1>2. \A f \in Finding : corpus[f].severity \in Sev
  BY AssertedIsSev
<1>3. All # {}
  <2> DEFINE top == [f \in Finding |-> CRITICAL]
  <2>1. top \in [Finding -> Sev] /\ \A f \in Finding : corpus[f].severity <= top[f]
    BY <1>2 DEF Sev, CRITICAL
  <2>2. Settled(top, Links, Carried)
    <3>1. Carried \subseteq Finding
      BY CarriersRaised DEF Carried
    <3>2. \A l \in Links : l[1] \in Finding /\ l[2] \in Finding
      BY DEF Links
    <3>3. CRITICAL <= CRITICAL
      BY DEF CRITICAL
    <3> QED
      BY <3>1, <3>2, <3>3 DEF Settled
  <2> HIDE DEF top
  <2> QED
    BY <1>1, <2>1, <2>2
<1>4. ASSUME NEW f \in Finding
      PROVE  low(f) \in at(f) /\ \A t \in at(f) : low(f) <= t
  <2>1. at(f) \in SUBSET Nat /\ at(f) # {}
    BY <1>1, <1>3 DEF Sev
  <2> HIDE DEF at
  <2>2. \E s \in at(f) : \A t \in at(f) : s <= t
    BY <2>1, LeastElement
  <2> QED
    BY <2>2
<1>5. \A f \in Finding : \E r \in All : m[f] = r[f]
  BY <1>4
<1>6. Lowest(m)
  BY <1>4
<1>7. DOMAIN m = Finding /\ m = [f \in Finding |-> m[f]]
  OBVIOUS
<1> HIDE DEF low, at, m
<1>8. m \in [Finding -> Sev] /\ \A f \in Finding : corpus[f].severity <= m[f]
  <2>1. \A f \in Finding : m[f] \in Sev /\ corpus[f].severity <= m[f]
    BY <1>1, <1>5
  <2> QED
    BY <1>7, <2>1
<1>9. Settled(m, Links, Carried)
  <2>1. ASSUME NEW l \in Links PROVE m[l[1]] <= m[l[2]]
    <3>1. l[1] \in Finding /\ l[2] \in Finding
      BY DEF Links
    <3>2. PICK r \in All : m[l[2]] = r[l[2]]
      BY <1>5, <3>1
    <3>3. m[l[1]] <= r[l[1]] /\ r[l[1]] <= r[l[2]]
      BY <1>1, <1>6, <3>1, <3>2 DEF Settled
    <3>4. m[l[1]] \in 0..4 /\ r[l[1]] \in 0..4 /\ r[l[2]] \in 0..4
      BY <1>1, <1>8, <3>1, <3>2 DEF Sev
    <3> QED
      BY <3>2, <3>3, <3>4
  <2>2. ASSUME NEW f \in Carried PROVE m[f] = CRITICAL
    <3>1. f \in Finding
      BY CarriersRaised DEF Carried
    <3> QED
      BY <1>1, <1>5, <3>1 DEF Settled
  <2> QED
    BY <2>1, <2>2 DEF Settled
<1>10. m \in All
  BY <1>1, <1>8, <1>9
<1> DEFINE Pick == CHOOSE r \in All : Lowest(r)
<1>11. Pick \in All /\ Lowest(Pick)
  <2> HIDE DEF Lowest
  <2> QED
    BY <1>6, <1>10
<1>12. Contract!ComputedSeverity(corpus) = Pick
  BY SameGraph DEF Contract!ComputedSeverity, All
<1> HIDE DEF Pick
<1> QED
  BY <1>11, <1>12 DEF All

(* The only step the contract sees is the rewrite of the file: it raises, or *)
(* it publishes what it found raised as far as it must be.                   *)
LEMMA StepImplements ==
    TypeOK /\ SettledByRun /\ NoOverEscalation /\ [Next]_vars
      => [Contract!ContractNext]_(Contract!contractVars)
<1> SUFFICES ASSUME TypeOK, SettledByRun, NoOverEscalation, [Next]_vars
             PROVE  [Contract!ContractNext]_(Contract!contractVars)
  OBVIOUS
<1> DEFINE computed == Contract!ComputedSeverity(corpus)
<1>1. corpus \in Corpora
  BY DEF TypeOK
<1>2. CASE ~Rewrite
  <2>1. UNCHANGED <<corpus, severity>>
    BY <1>2 DEF Next, Finished, vars, fileVars, ApplyR2, ApplyR1, SettleR1, ComposePersona, EndR3, Rerun
  <2>2. (phase = "published") = (phase = "published")'
    BY <1>2 DEF Next, Finished, vars, ApplyR2, ApplyR1, SettleR1, ComposePersona, EndR3, Rerun
  <2> QED
    BY <2>1, <2>2 DEF Contract!contractVars
<1>3. CASE Rewrite
  <2>1. /\ phase = "ledger" /\ severity' = target /\ UNCHANGED <<corpus, target>>
        /\ phase' = IF Escalations = {} THEN "published" ELSE "exit1"
    BY <1>3 DEF Rewrite, runVars
  <2>2. \A f \in Finding : /\ severity[f] \in 0..4 /\ target[f] \in 0..4
                           /\ corpus[f].severity <= severity[f] /\ severity[f] <= target[f]
    BY DEF TypeOK, Sev, SettledByRun, OnlyRises
  <2>3. /\ computed \in [Finding -> Sev]
        /\ \A f \in Finding : corpus[f].severity <= computed[f]
        /\ Settled(computed, Links, Carried)
    BY <1>1, LeastRating, ContentedIsSettled
  <2>4. \A q \in Contract!Contented(corpus) : \A f \in Finding : computed[f] <= q[f]
    BY <1>1, LeastRating
  <2> HIDE DEF computed
  <2>5. \A f \in Finding : target[f] <= computed[f]
    BY <2>3 DEF NoOverEscalation
  <2>6. CASE target = severity
    <3>1. Escalations = {}
      BY <2>2, <2>6 DEF Escalations
    <3>2. phase' = "published" /\ severity' = severity
      BY <2>1, <2>6, <3>1
    <3>3. Settled(severity, Links, Carried)
      <4>1. SettledByRun'
        BY SettledStep
      <4>2. Settled(severity, Links, Carried)'
        BY <3>2, <4>1 DEF SettledByRun, PublishedIsSettled
      <4> QED
        BY <2>1, <3>2, <4>2 DEF Settled, Links, Carried
    <3>4. severity \in [Finding -> Sev]
      BY DEF TypeOK
    <3>5. severity \in Contract!Contented(corpus)
      BY <1>1, <2>2, <3>3, <3>4, ContentedIsSettled
    <3>6. \A f \in Finding : severity[f] <= computed[f] /\ computed[f] <= severity[f]
      BY <2>4, <2>5, <2>6, <3>5
    <3>7. \A f \in Finding : severity[f] = computed[f]
      BY <2>2, <2>3, <3>6 DEF Sev
    <3>8. severity = computed
      BY <2>3, <3>4, <3>7
    <3>9. Contract!Publish
      BY <2>1, <3>2, <3>8 DEF Contract!Publish, computed
    <3> QED
      BY <3>9 DEF Contract!ContractNext
  <2>7. CASE target # severity
    <3>1. \E f \in Finding : target[f] # severity[f]
      BY <2>7 DEF TypeOK
    <3>2. Escalations # {}
      BY <2>2, <3>1 DEF Escalations
    <3>3. phase' = "exit1"
      BY <2>1, <3>2
    <3>4. severity' \in [Finding -> Sev]
      BY <2>1 DEF TypeOK
    <3>5. Contract!Raise
      BY <2>1, <2>2, <2>5, <2>7, <3>3, <3>4, SameGraph DEF Contract!Raise, computed
    <3> QED
      BY <3>5 DEF Contract!ContractNext
  <2> QED
    BY <2>6, <2>7
<1> QED
  BY <1>2, <1>3

(* The composer implements the contract: whatever order its loops take and   *)
(* however often Phase 7 re-runs it, severities only rise, never beyond the  *)
(* least rating that R1, R2 and R3 are all content with, and exactly that    *)
(* rating is published.  The loops of compose and contributing_slice compute *)
(* the least closed sets of the contract.                                    *)
THEOREM Implements == Spec => ImplementsContract
<1>1. Init => Contract!ContractInit
  BY SameGraph DEF Init, Contract!ContractInit
<1>2. TypeOK /\ SettledByRun /\ NoOverEscalation /\ [Next]_vars
        => [Contract!ContractNext]_(Contract!contractVars)
  BY StepImplements
<1> QED
  BY <1>1, <1>2, SettledInit, SettledStep, TypeCorrect, NeverOverEscalates, PTL
  DEF Spec, ImplementsContract, Contract!ContractSpec
=============================================================================
