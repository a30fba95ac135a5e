-------------------------- MODULE DeltaModeProofs --------------------------
(***************************************************************************)
(* What the severity gate guarantees of refreshed delta baselines, and     *)
(* what a delta audit loses and keeps against a full one, for any tree,    *)
(* partitioning, keystones and number of edits and audits.                 *)
(***************************************************************************)
EXTENDS DeltaMode, Extremes

\* A pass of the gate is about the report and the baseline that stand: nothing the
\* verdict was formed from changes before Phase 8 acts on it.
VerdictIsCurrent ==
  status = "judged" /\ passed => \A i \in baseline : ~Unexplained(i)

\* The verdict of the gate is current at every step of Spec.
THEOREM VerdictStays == Spec => []VerdictIsCurrent
<1>1. Init => VerdictIsCurrent
  BY DEF Init, VerdictIsCurrent
<1>2. VerdictIsCurrent /\ [Next]_vars => VerdictIsCurrent'
  <2> SUFFICES ASSUME VerdictIsCurrent, [Next]_vars PROVE VerdictIsCurrent'
    OBVIOUS
  <2>1. CASE Judge
    BY <2>1 DEF Judge, VerdictIsCurrent, Unexplained, tree
  <2>2. CASE UNCHANGED vars
    BY <2>2 DEF vars, VerdictIsCurrent, Unexplained
  <2>3. ASSUME NEW f \in File, NEW t \in SUBSET {i \in Issue : f \in i.causes}, Edit(f, t)
        PROVE  VerdictIsCurrent'
    BY <2>3 DEF Edit, VerdictIsCurrent
  <2>4. ASSUME NEW lines \in SUBSET {i \in Issue : i.file \in pending}, Commit(lines)
        PROVE  VerdictIsCurrent'
    BY <2>4 DEF Commit, VerdictIsCurrent
  <2>5. CASE Invalidate \/ Merge \/ FullAudit
    BY <2>5 DEF Invalidate, Merge, FullAudit, VerdictIsCurrent
  <2>6. CASE Finish \/ Refresh
    BY <2>6 DEF Finish, Refresh, VerdictIsCurrent
  <2> QED
    BY <2>1, <2>2, <2>3, <2>4, <2>5, <2>6 DEF Next
<1> QED
  BY <1>1, <1>2, PTL DEF Spec

\* Over any number of refreshed baselines, a HIGH finding the tree still has leaves
\* the baseline only when the diff contains its line (delta-mode.md:174-180, 257-262).
THEOREM HighStays == Spec => HighIsNotForgotten
<1>1. ASSUME VerdictIsCurrent, [Next]_vars
      PROVE  [\A i \in baseline \ baseline' : i.high /\ i \in present' => i \in near]_vars
  <2>1. CASE Refresh
    BY <1>1, <2>1 DEF Refresh, VerdictIsCurrent, Unexplained
  <2>2. CASE UNCHANGED baseline
    BY <2>2
  <2>3. Refresh \/ UNCHANGED baseline
    BY <1>1 DEF Next, vars, Edit, Commit, Invalidate, Merge, Judge, Finish, FullAudit
  <2> QED
    BY <2>1, <2>2, <2>3
<1> QED
  BY <1>1, VerdictStays, PTL DEF Spec, HighIsNotForgotten
-----------------------------------------------------------------------------
LEMMA PartsOfKeystones ==
  /\ Len(Keystones) \in Nat
  /\ \A n \in 1..Len(Keystones) : Keystones[n].partitions \in SUBSET Partition
                                  /\ Keystones[n].path \in File
<1> DEFINE K == [path : File, partitions : SUBSET Partition]
<1>1. Keystones \in Seq(K)
  BY DeltaAssumption DEF Partition
<1>2. \A k \in K : k.partitions \in SUBSET Partition /\ k.path \in File
  OBVIOUS
<1> HIDE DEF K
<1>3. Len(Keystones) \in Nat /\ \A n \in 1..Len(Keystones) : Keystones[n] \in K
  BY <1>1
<1> QED
  BY <1>2, <1>3

\* The loop over the keystones adds partitions, never any that it does not know,
\* and every keystone that touches what it started from.
LEMMA Adjacent ==
  ASSUME NEW ps \in SUBSET Partition
  PROVE  /\ WithAdjacent(ps) \in SUBSET Partition
         /\ ps \subseteq WithAdjacent(ps)
         /\ \A k \in KeystoneSet : k.partitions \cap ps # {} => k.partitions \subseteq WithAdjacent(ps)
<1> DEFINE L == Len(Keystones)
           joined == CHOOSE g : g = [n \in 0..L |-> IF n = 0 THEN ps
                                                    ELSE JoinedBy(Keystones[n], g[n - 1])]
<1>1. WithAdjacent(ps) = joined[L]
  BY DEF WithAdjacent
<1>2. L \in Nat
  BY PartsOfKeystones
<1>3. PICK acc \in [0..L -> SUBSET Partition] :
        acc = [n \in 0..L |-> IF n = 0 THEN ps ELSE JoinedBy(Keystones[n], acc[n - 1])]
  <2> DEFINE T == SUBSET Partition
             step == [n \in 1..L |-> [A \in T |-> JoinedBy(Keystones[n], A)]]
  <2>1. \A n \in 1..L : \A A \in T : JoinedBy(Keystones[n], A) \in T
    BY PartsOfKeystones DEF JoinedBy
  <2>2. step \in [1..L -> [T -> T]] /\ ps \in T
    BY <2>1
  <2>3. \A n \in 1..L : \A A \in T : step[n][A] = JoinedBy(Keystones[n], A)
    OBVIOUS
  <2>4. PICK acc \in [0..L -> T] : Looped(acc, ps, step, L)
    <3> HIDE DEF T, step, L
    <3> QED
      BY <1>2, <2>2, PassExists
  <2> HIDE DEF step
  <2> DEFINE body(n) == IF n = 0 THEN ps ELSE step[n][acc[n - 1]]
             same(n) == IF n = 0 THEN ps ELSE JoinedBy(Keystones[n], acc[n - 1])
  <2>5. acc = [n \in 0..L |-> body(n)]
    BY <2>4 DEF Looped
  <2>6. \A n \in 0..L : body(n) = same(n)
    <3>1. \A n \in 0..L : n # 0 => n \in 1..L /\ n - 1 \in 0..L
      BY <1>2
    <3>2. \A n \in 0..L : acc[n] \in T
      BY <2>4
    <3> HIDE DEF T, L
    <3> QED
      BY <2>3, <3>1, <3>2
  <2> HIDE DEF body, same
  <2>7. acc = [n \in 0..L |-> same(n)]
    BY ONLY <2>5, <2>6
  <2> QED
    BY <2>4, <2>7 DEF same, T
<1>4. joined = [n \in 0..L |-> IF n = 0 THEN ps ELSE JoinedBy(Keystones[n], joined[n - 1])]
  BY <1>3
<1>5. /\ joined[0] = ps
      /\ \A n \in 1..L : /\ n \in 0..L /\ n - 1 \in 0..L
                         /\ joined[n] = JoinedBy(Keystones[n], joined[n - 1])
  <2>1. /\ 0 \in 0..L
        /\ \A n \in 1..L : n \in 0..L /\ n # 0 /\ n - 1 \in 0..L
    BY <1>2
  <2>2. \A n \in 0..L : joined[n] = IF n = 0 THEN ps ELSE JoinedBy(Keystones[n], joined[n - 1])
    <3> HIDE DEF joined, L
    <3> QED
      BY <1>4
  <2> HIDE DEF joined, L
  <2> QED
    BY <2>1, <2>2
<1> HIDE DEF joined
<1> DEFINE Right(n) == /\ joined[n] \in SUBSET Partition /\ ps \subseteq joined[n]
                       /\ \A m \in 1..n : Keystones[m].partitions \cap ps # {}
                                          => Keystones[m].partitions \subseteq joined[n]
           Wrong == {n \in 0..L : ~Right(n)}
<1>6. Wrong = {}
  <2> SUFFICES ASSUME Wrong # {} PROVE FALSE
    OBVIOUS
  <2>1. PICK n \in Wrong : \A k \in Wrong : n <= k
    <3>1. Wrong \in SUBSET Nat
      BY <1>2
    <3> HIDE DEF Wrong
    <3> QED
      BY <3>1, LeastElement
  <2>2. Right(0)
    <3>1. \A m \in 1..0 : FALSE
      OBVIOUS
    <3> QED
      BY <1>5, <3>1
  <2>3. n \in 1..L
    <3> HIDE DEF Right
    <3> QED
      BY <1>2, <2>2
  <2>4. n - 1 \in 0..L /\ ~(n <= n - 1)
    BY <1>2, <2>3
  <2>5. Right(n - 1)
    <3> HIDE DEF Right
    <3> QED
      BY <2>1, <2>4
  <2>6. joined[n] = JoinedBy(Keystones[n], joined[n - 1])
    BY <1>5, <2>3
  <2>7. Keystones[n].partitions \in SUBSET Partition
    BY <2>3, PartsOfKeystones
  <2>8. \A m \in 1..n : m = n \/ m \in 1..(n - 1)
    BY <1>2, <2>3
  <2>9. Right(n)
    <3>1. joined[n] \in SUBSET Partition /\ joined[n - 1] \subseteq joined[n]
      BY <2>5, <2>6, <2>7 DEF JoinedBy
    <3>2. Keystones[n].partitions \cap ps # {} => Keystones[n].partitions \subseteq joined[n]
      BY <2>5, <2>6 DEF JoinedBy
    <3> QED
      BY <2>5, <2>8, <3>1, <3>2
  <2> QED
    BY <2>9
<1>7. Right(L)
  <2>1. L \in 0..L
    BY <1>2
  <2> HIDE DEF Right, L
  <2> QED
    BY <1>6, <2>1
<1> QED
  BY <1>1, <1>7 DEF KeystoneSet

-----------------------------------------------------------------------------
\* What the diff invalidates is a set of partitions, among them those that import
\* a changed keystone; the adjacency adds those that share one with them.
LEMMA TouchedFacts ==
  ASSUME changed \subseteq File
  PROVE  /\ TouchedPartitions \in SUBSET Partition
         /\ \A k \in ChangedKeystones : k.partitions \subseteq TouchedPartitions
         /\ Neighbours \subseteq TouchedPartitions
<1>1. /\ ChangedFiles \subseteq File
      /\ \A f \in File : PartitionOf[f] \in Partition
      /\ \A s \in Surfaces : s.handler \in File
  BY DeltaAssumption DEF ChangedFiles, Partition
<1>2. \A k \in KeystoneSet : k.partitions \in SUBSET Partition /\ k.path \in File
  BY PartsOfKeystones DEF KeystoneSet
<1>3. /\ StaleOnly \in SUBSET Partition
      /\ \A k \in ChangedKeystones : k.partitions \subseteq StaleOnly
  BY <1>1, <1>2 DEF StaleOnly, StalePartitions, ChangedKeystones, StaleSurfaces
<1>4. /\ WithAdjacent(StaleOnly) \in SUBSET Partition
      /\ StaleOnly \subseteq WithAdjacent(StaleOnly)
      /\ \A k \in KeystoneSet :
           k.partitions \cap StaleOnly # {} => k.partitions \subseteq WithAdjacent(StaleOnly)
  BY <1>3, Adjacent
<1> QED
  BY <1>3, <1>4 DEF TouchedPartitions, Neighbours

\* The state keeps its shape, and the ranges of the diff lie in the files it names,
\* through every edit, commit, audit and refresh.
THEOREM TypeCorrect == Spec => []TypeOK
<1>1. Init => TypeOK
  BY DeltaAssumption DEF Init, TypeOK
<1>2. TypeOK /\ [Next]_vars => TypeOK'
  <2> SUFFICES ASSUME TypeOK, [Next]_vars PROVE TypeOK'
    OBVIOUS
  <2> USE DEF TypeOK
  <2>1. ASSUME NEW f \in File, NEW t \in SUBSET {i \in Issue : f \in i.causes}, Edit(f, t)
        PROVE  TypeOK'
    BY <2>1, DeltaAssumption DEF Edit
  <2>2. ASSUME NEW lines \in SUBSET {i \in Issue : i.file \in pending}, Commit(lines)
        PROVE  TypeOK'
    BY <2>2 DEF Commit
  <2>3. CASE Invalidate
    BY <2>3, TouchedFacts, DeltaAssumption DEF Invalidate, tree
  <2>4. CASE Merge
    <3>1. Carryover \cup Fresh \subseteq Issue
      BY DEF Carryover, CarryUntouched, Fresh
    <3> QED
      BY <2>4, <3>1 DEF Merge, tree
  <2>5. CASE Judge
    BY <2>5 DEF Judge, tree
  <2>6. CASE Finish
    BY <2>6 DEF Finish, tree
  <2>7. CASE Refresh
    BY <2>7 DEF Refresh
  <2>8. CASE FullAudit
    BY <2>8, DeltaAssumption DEF FullAudit, tree
  <2>9. CASE UNCHANGED vars
    BY <2>9 DEF vars
  <2> QED
    BY <2>1, <2>2, <2>3, <2>4, <2>5, <2>6, <2>7, <2>8, <2>9 DEF Next
<1> QED
  BY <1>1, <1>2, PTL DEF Spec
-----------------------------------------------------------------------------
\* From its scoping to its verdict an audit is about one tree and one baseline: a
\* report is that of a full audit, or what the scope carries and looks at again.
AuditStands ==
  /\ status = "scoped" => touched = TouchedPartitions
  /\ HasReport => \/ report = present
                  \/ touched = TouchedPartitions /\ report = Carryover \cup Fresh

LEMMA AuditStep == ASSUME AuditStands, [Next]_vars PROVE AuditStands'
<1> USE DEF AuditStands
<1>1. ASSUME status' = "idle" PROVE AuditStands'
  BY <1>1 DEF HasReport
<1>2. CASE Invalidate
  <2>1. status' = "scoped" /\ touched' = TouchedPartitions /\ UNCHANGED <<tree, baseline>>
    BY <1>2 DEF Invalidate
  <2>2. TouchedPartitions' = TouchedPartitions
    BY <2>1 DEF tree, TouchedPartitions, StaleOnly, StalePartitions, StaleSurfaces,
                ChangedKeystones, ChangedFiles, ChangedShareExceeds
  <2> QED
    BY <2>1, <2>2 DEF HasReport
<1>3. ASSUME UNCHANGED <<tree, baseline, touched>>
      PROVE  /\ TouchedPartitions' = TouchedPartitions
             /\ (Carryover \cup Fresh)' = Carryover \cup Fresh
  BY <1>3 DEF tree, TouchedPartitions, StaleOnly, StalePartitions, StaleSurfaces,
              ChangedKeystones, ChangedFiles, ChangedShareExceeds, Carryover,
              CarryUntouched, StaleAuthMatrix, Fresh, Rerun
<1>4. CASE Merge
  <2>1. /\ status = "scoped" /\ status' = "merged" /\ report' = Carryover \cup Fresh
        /\ UNCHANGED <<tree, baseline, touched>>
    BY <1>4 DEF Merge
  <2> QED
    BY <1>3, <2>1
<1>5. CASE Judge \/ UNCHANGED vars
  <2>1. /\ UNCHANGED <<tree, baseline, touched, report>>
        /\ HasReport' => HasReport
        /\ status' = "scoped" => status = "scoped"
    BY <1>5 DEF Judge, vars, tree, HasReport
  <2>2. report = present => report' = present'
    BY <2>1 DEF tree
  <2> QED
    BY <1>3, <2>1, <2>2
<1>6. CASE FullAudit
  BY <1>6 DEF FullAudit, tree, HasReport
<1>7. Invalidate \/ Merge \/ Judge \/ FullAudit \/ UNCHANGED vars \/ status' = "idle"
  BY DEF Next, Edit, Commit, Finish, Refresh
<1> QED
  BY <1>1, <1>2, <1>4, <1>5, <1>6, <1>7

LEMMA WhatIsLost ==
  ASSUME TypeOK, AuditStands PROVE LossExplained
<1> SUFFICES ASSUME HasReport, NEW i \in present \ report
             PROVE  /\ i.category \notin Global
                    /\ i.category \in {"auth", "local"} => PartitionOf[i.file] \notin touched \cup Neighbours
                    /\ i.category \in {"scanner", "config"} => i \notin baseline /\ ~Rerun(i.category)
                    /\ \/ i \notin baseline
                       \/ i.file \in ChangedFiles
                       \/ /\ i.category = "auth" /\ ChangedKeystones # {}
                          /\ \A k \in ChangedKeystones : PartitionOf[i.file] \notin k.partitions
  BY DEF LossExplained
<1>1. touched = TouchedPartitions /\ i \notin Carryover /\ i \notin Fresh
  BY DEF AuditStands
<1>2. /\ \A k \in ChangedKeystones : k.partitions \subseteq touched
      /\ Neighbours \subseteq touched
  BY <1>1, TouchedFacts DEF TypeOK
<1>3. i.category \in Category
  BY DeltaAssumption DEF TypeOK
<1>4. /\ i.category \notin Global
      /\ i.category \in {"auth", "local"} => PartitionOf[i.file] \notin touched
      /\ i.category \in {"scanner", "config"} => i \notin baseline /\ ~Rerun(i.category)
  BY <1>1 DEF Fresh
<1>5. ASSUME i \in baseline, i.file \notin ChangedFiles
      PROVE  i.category = "auth" /\ ChangedKeystones # {}
  <2>1. i.category \in {"auth", "local"}
    BY <1>3, <1>4, <1>5 DEF Category
  <2>2. i \notin CarryUntouched
    BY <1>1, <1>4 DEF Carryover
  <2> QED
    BY <1>4, <1>5, <2>1, <2>2 DEF CarryUntouched, StaleAuthMatrix
<1> QED
  BY <1>2, <1>4, <1>5

LEMMA WhatIsKept ==
  ASSUME TypeOK, AuditStands PROVE GhostExplained
<1> SUFFICES ASSUME HasReport, NEW i \in report \ present
             PROVE  /\ i.category \notin Global
                    /\ i.file \notin ChangedFiles \/ (i.category \in {"scanner", "config"} /\ ~Rerun(i.category))
                    /\ \A k \in ChangedKeystones :
                         i.category \in {"auth", "local"} => PartitionOf[i.file] \notin k.partitions
  BY DEF GhostExplained
<1>1. touched = TouchedPartitions /\ (i \in Carryover \/ i \in Fresh)
  BY DEF AuditStands
<1>2. \A k \in ChangedKeystones : k.partitions \subseteq touched
  BY <1>1, TouchedFacts DEF TypeOK
<1>3. CASE i \in Carryover
  BY <1>2, <1>3 DEF Carryover, CarryUntouched
<1>4. CASE i \in Fresh
  BY <1>4 DEF Fresh, Global
<1> QED
  BY <1>1, <1>3, <1>4

LEMMA AuditAlwaysStands == Spec => [](TypeOK /\ AuditStands)
<1>1. Init => AuditStands
  BY DEF Init, AuditStands, HasReport
<1>2. AuditStands /\ [Next]_vars => AuditStands'
  BY AuditStep
<1> QED
  BY <1>1, <1>2, TypeCorrect, PTL DEF Spec

\* What a delta audit misses against a full one has a cause the scope can name, for
\* any tree and any chain of keystones.
THEOREM LossHasACause == Spec => []LossExplained
<1>1. TypeOK /\ AuditStands => LossExplained
  BY WhatIsLost
<1> QED
  BY <1>1, AuditAlwaysStands, PTL

\* And what it still reports though the tree no longer has it.
THEOREM GhostHasACause == Spec => []GhostExplained
<1>1. TypeOK /\ AuditStands => GhostExplained
  BY WhatIsKept
<1> QED
  BY <1>1, AuditAlwaysStands, PTL
=============================================================================
