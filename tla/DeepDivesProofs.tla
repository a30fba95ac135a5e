---------------------------- MODULE DeepDivesProofs ----------------------------
(***************************************************************************)
(* What the fan-out guarantees for any partitioning, outputs, splits, cap  *)
(* and number of crashes: what the orchestrator's validation is worth, that *)
(* an accepted answer is never redone, and that a file nobody looked at has *)
(* a reason on record.                                                     *)
(***************************************************************************)
EXTENDS DeepDives, Extremes, SequenceTheorems

OnDisk ==
    /\ status = [u \in DOMAIN status |-> status[u]]
    /\ marker \subseteq DOMAIN file
    /\ \A u \in DOMAIN status : status[u] = "accepted" => u \in DOMAIN file

Inv == OnDisk /\ UnvettedNeedsACrash

(* Where no file changes and no pair is accepted that was not, nothing has *)
(* to be shown.                                                            *)
LEMMA NothingAccepted ==
    ASSUME Inv, file' = file, marker' = marker, orphaned \subseteq orphaned',
           status' = [u \in DOMAIN status' |-> status'[u]],
           \A u \in DOMAIN status' : status'[u] = "accepted" =>
               u \in DOMAIN status /\ status[u] = "accepted"
    PROVE  Inv'
BY DEF Inv, OnDisk, UnvettedNeedsACrash

LEMMA HandleKeeps == ASSUME Inv, NEW u \in DOMAIN status, Handle(u) PROVE Inv'
<1>1. ASSUME NEW rows \in Output[u[1]], AgentWrites(u, rows) PROVE Inv'
  BY <1>1 DEF AgentWrites, planning, Inv, OnDisk, UnvettedNeedsACrash
<1>2. CASE Accept(u)
  BY <1>2 DEF Accept, Validated, planning, Inv, OnDisk, UnvettedNeedsACrash, Sound
<1>3. CASE Reject(u) \/ NoAnswer(u)
  <2>1. Failed(u)
    BY <1>3 DEF Reject, NoAnswer
  <2> QED
    BY <2>1, NothingAccepted DEF Failed, planning, Inv, OnDisk
<1>4. CASE AtFloor(u)
  BY <1>4, NothingAccepted DEF AtFloor, planning, Inv, OnDisk
<1>5. ASSUME NEW split \in Splits, Recurse(u, split) PROVE Inv'
  <2>1. file' = file /\ marker' = marker /\ orphaned' = orphaned
    BY <1>5 DEF Recurse, planning
  <2>2. PICK fresh : status' = [v \in DOMAIN status \cup fresh |->
                  IF v \in fresh THEN "queued"
                  ELSE IF v = u \/ (v[2] = u[2] /\ status[v] = "queued") THEN "deferred"
                  ELSE status[v]]
    BY <1>5 DEF Recurse
  <2> QED
    BY <2>1, <2>2, NothingAccepted
<1> QED
  BY <1>1, <1>2, <1>3, <1>4, <1>5 DEF Handle

(* Rows the orchestrator's validator would refuse are accepted only from a *)
(* sub-agent whose own marker outlived a crash of the orchestrator         *)
(* (templates/subagent-prompt.md:69, workflow.md:449).                     *)
THEOREM OnlyACrashSkipsValidation == Spec => []UnvettedNeedsACrash
<1>1. Init => Inv
  BY DEF Init, Inv, OnDisk, UnvettedNeedsACrash
<1>2. Inv /\ [Next]_vars => Inv'
  <2> SUFFICES ASSUME Inv, [Next]_vars PROVE Inv'
    OBVIOUS
  <2>1. ASSUME NEW ps \in Manifests, NEW ig \in IgnoreFiles, Partition(ps, ig) PROVE Inv'
    BY <2>1, NothingAccepted DEF Partition, Inv, OnDisk
  <2>2. ASSUME NEW promoted, Surface(promoted) PROVE Inv'
    BY <2>2, NothingAccepted DEF Surface
  <2>3. CASE Dispatch
    BY <2>3, NothingAccepted DEF Dispatch, planning, Inv, OnDisk
  <2>4. CASE Crash
    <3>1. /\ file' = file /\ marker' = marker
          /\ orphaned' = orphaned \cup {u \in marker : status[u] # "accepted"}
          /\ status' = [u \in DOMAIN status |-> Resumed(u)]
      BY <2>4 DEF Crash, disk
    <3>2. \A u \in DOMAIN status : Resumed(u) = "accepted" => u \in marker
      BY DEF Resumed
    <3> QED
      BY <3>1, <3>2 DEF Inv, OnDisk, UnvettedNeedsACrash, Sound
  <2>5. CASE Finish
    BY <2>5, NothingAccepted DEF Finish, disk, Inv, OnDisk
  <2>6. CASE UNCHANGED vars
    BY <2>6, NothingAccepted DEF vars, Inv, OnDisk
  <2> QED
    BY <2>1, <2>2, <2>3, <2>4, <2>5, <2>6, HandleKeeps DEF Next
<1> QED
  BY <1>1, <1>2, PTL DEF Spec, Inv
-----------------------------------------------------------------------------
(* The state keeps its shape.  Before the fan-out there is nothing of it.  *)
Shape ==
    /\ TypeOK
    /\ status = [u \in DOMAIN status |-> status[u]]
    /\ IsFiniteSet(InFlight)
    /\ phase \in {"partition", "surface"} => status = <<>> /\ file = <<>> /\ skipped = {}
    /\ \A u \in DOMAIN status : status[u] = "accepted" => u \in marker

LEMMA FewerInFlight ==
    ASSUME Shape, InFlight' \subseteq InFlight
    PROVE  IsFiniteSet(InFlight') /\ Cardinality(InFlight') <= Cap
<1>1. IsFiniteSet(InFlight) /\ Cardinality(InFlight) <= Cap
  BY DEF Shape, TypeOK
<1>2. IsFiniteSet(InFlight') /\ Cardinality(InFlight') <= Cardinality(InFlight)
  BY <1>1, FS_Subset
<1> QED
  BY <1>1, <1>2, FS_CardinalityType, DeepDivesAssumption

(* One pair changes its status, and is queued neither before nor after.    *)
LEMMA OnePair ==
    ASSUME Shape, NEW u \in InFlight, NEW s \in Status \ {"queued"},
           status' = [status EXCEPT ![u] = s], UNCHANGED <<phase, ignore, parts, full, skipped, queue>>,
           phase \notin {"partition", "surface"},
           DOMAIN file \subseteq DOMAIN file', DOMAIN file' \subseteq DOMAIN status,
           marker \subseteq marker', marker' \subseteq DOMAIN file',
           tries' \subseteq DOMAIN status, orphaned' = orphaned,
           s = "accepted" => u \in marker'
    PROVE  Shape'
<1>1. /\ u \in DOMAIN status /\ DOMAIN status' = DOMAIN status
      /\ status'[u] = s /\ \A v \in DOMAIN status : v # u => status'[v] = status[v]
      /\ status' = [v \in DOMAIN status' |-> status'[v]]
  BY DEF InFlight
<1>2. status[u] # "queued" /\ s # "queued" /\ status[u] \in {"running", "written"}
  BY DEF InFlight
<1>3. InFlight' \subseteq InFlight
  BY <1>1 DEF InFlight
<1>4. queue' = {v \in DOMAIN status' : status'[v] = "queued"}
  BY <1>1, <1>2 DEF Shape, TypeOK
<1>5. \A v \in DOMAIN status' : v \in Pair' /\ status'[v] \in Status
  BY <1>1 DEF Shape, TypeOK, Pair
<1> QED
  BY <1>1, <1>3, <1>4, <1>5, FewerInFlight DEF Shape, TypeOK

LEMMA ShapeInit == Init => Shape
<1> SUFFICES ASSUME Init PROVE Shape
  OBVIOUS
<1>1. DOMAIN status = {} /\ DOMAIN file = {} /\ status = [u \in DOMAIN status |-> status[u]]
  BY DEF Init
<1>2. InFlight = {}
  BY <1>1 DEF InFlight
<1>3. IsFiniteSet(InFlight) /\ Cardinality(InFlight) <= Cap
  BY <1>2, FS_EmptySet, DeepDivesAssumption
<1> QED
  BY <1>1, <1>3 DEF Init, Shape, TypeOK

LEMMA ShapeOfHandle ==
    ASSUME Shape, phase \notin {"partition", "surface"}, NEW u \in DOMAIN status, Handle(u)
    PROVE  Shape'
<1> USE DEF Shape
<1>1. ASSUME NEW rows \in Output[u[1]], AgentWrites(u, rows) PROVE Shape'
  BY <1>1, OnePair DEF AgentWrites, planning, TypeOK, Status, InFlight
<1>2. CASE Accept(u)
  BY <1>2, OnePair DEF Accept, Validated, planning, TypeOK, Status
<1>3. CASE Reject(u) \/ NoAnswer(u)
  <2>1. Failed(u) /\ u \in InFlight
    BY <1>3 DEF Reject, NoAnswer
  <2> QED
    BY <2>1, OnePair DEF Failed, planning, TypeOK, Status
<1>4. CASE AtFloor(u)
  BY <1>4, OnePair DEF AtFloor, planning, TypeOK, Status, InFlight
<1>5. ASSUME NEW split \in Splits, Recurse(u, split) PROVE Shape'
  <2> DEFINE subs == SubParts(u, split)
             fresh == Category \X {p.id : p \in subs}
  <2>1. /\ status[u] = "running" /\ parts' = parts \cup subs
        /\ full' = full \cup {p.id : p \in subs}
        /\ status' = [v \in DOMAIN status \cup fresh |->
                  IF v \in fresh THEN "queued"
                  ELSE IF v = u \/ (v[2] = u[2] /\ status[v] = "queued") THEN "deferred"
                  ELSE status[v]]
        /\ queue' = {v \in queue : v[2] # u[2]} \cup fresh
        /\ UNCHANGED <<phase, ignore, skipped, orphaned, tries, file, marker>>
    BY <1>5 DEF Recurse, planning
  <2> HIDE DEF subs
  <2>2. \A v \in fresh : v \in Pair'
    BY <2>1 DEF Pair
  <2>3. \A v \in DOMAIN status : v \in Pair'
    BY <2>1 DEF TypeOK, Pair
  <2> HIDE DEF fresh
  <2>4. DOMAIN status' = DOMAIN status \cup fresh /\ status' = [v \in DOMAIN status' |-> status'[v]]
    BY <2>1
  <2>5. \A v \in DOMAIN status' :
          status'[v] = IF v \in fresh THEN "queued"
                       ELSE IF v = u \/ (v[2] = u[2] /\ status[v] = "queued") THEN "deferred"
                       ELSE status[v]
    BY <2>1, <2>4
  <2>6. \A v \in DOMAIN status' : v \in Pair' /\ status'[v] \in Status
    BY <2>2, <2>3, <2>4, <2>5 DEF TypeOK, Status
  <2>7. InFlight' \subseteq InFlight
    BY <2>4, <2>5 DEF InFlight
  <2>8. queue' = {v \in DOMAIN status' : status'[v] = "queued"}
    BY <2>1, <2>4, <2>5 DEF TypeOK
  <2>9. \A v \in DOMAIN status' : status'[v] = "accepted" => v \in marker'
    BY <2>1, <2>4, <2>5
  <2>10. full' \subseteq {p.id : p \in parts'} /\ skipped' \subseteq Gated \X full'
    BY <2>1 DEF TypeOK
  <2> QED
    BY <2>1, <2>4, <2>6, <2>7, <2>8, <2>9, <2>10, FewerInFlight DEF TypeOK
<1> QED
  BY <1>1, <1>2, <1>3, <1>4, <1>5 DEF Handle

LEMMA ShapeOfFanout ==
    ASSUME Shape, Dispatch \/ Crash \/ Finish PROVE Shape'
<1> USE DEF Shape
<1>1. CASE Dispatch
  <2> DEFINE u == NextPair
  <2>1. /\ u \in queue /\ phase = "fanout" /\ Cardinality(InFlight) < Cap
        /\ status' = [status EXCEPT ![u] = "running"] /\ queue' = queue \ {u}
        /\ UNCHANGED <<phase, ignore, parts, full, skipped, orphaned, tries, file, marker>>
    BY <1>1 DEF Dispatch, planning, NextPair
  <2> HIDE DEF u
  <2>2. u \in DOMAIN status /\ status[u] = "queued"
    BY <2>1 DEF TypeOK
  <2>3. /\ DOMAIN status' = DOMAIN status /\ status' = [v \in DOMAIN status' |-> status'[v]]
        /\ \A v \in DOMAIN status : status'[v] = IF v = u THEN "running" ELSE status[v]
    BY <2>1, <2>2
  <2>4. queue' = {v \in DOMAIN status' : status'[v] = "queued"}
    BY <2>1, <2>3 DEF TypeOK
  <2>5. InFlight' = InFlight \cup {u} /\ u \notin InFlight
    BY <2>2, <2>3 DEF InFlight
  <2>6. IsFiniteSet(InFlight') /\ Cardinality(InFlight') <= Cap
    <3>1. IsFiniteSet(InFlight') /\ Cardinality(InFlight') = Cardinality(InFlight) + 1
      BY <2>5, FS_AddElement
    <3> QED
      BY <2>1, <3>1, FS_CardinalityType, DeepDivesAssumption
  <2>7. \A v \in DOMAIN status' : v \in Pair' /\ status'[v] \in Status
    BY <2>1, <2>3 DEF TypeOK, Pair, Status
  <2>8. \A v \in DOMAIN status' : status'[v] = "accepted" => v \in marker'
    BY <2>1, <2>3
  <2> QED
    BY <2>1, <2>3, <2>4, <2>6, <2>7, <2>8 DEF TypeOK
<1>2. CASE Crash
  <2>1. /\ phase = "fanout" /\ status' = [v \in DOMAIN status |-> Resumed(v)]
        /\ queue' = {v \in DOMAIN status : Resumed(v) = "queued"} /\ tries' = {}
        /\ orphaned' = orphaned \cup {v \in marker : status[v] # "accepted"}
        /\ UNCHANGED <<phase, ignore, parts, full, skipped, file, marker>>
    BY <1>2 DEF Crash, disk
  <2>2. /\ DOMAIN status' = DOMAIN status /\ status' = [v \in DOMAIN status' |-> status'[v]]
        /\ \A v \in DOMAIN status : status'[v] = Resumed(v)
    BY <2>1
  <2>3. \A v : /\ Resumed(v) \in {"deferred", "accepted", "queued"}
               /\ Resumed(v) = "accepted" => v \in marker
    BY DEF Resumed
  <2>4. InFlight' \subseteq InFlight
    BY <2>2, <2>3 DEF InFlight
  <2>5. \A v \in DOMAIN status' : v \in Pair' /\ status'[v] \in Status
    BY <2>1, <2>2, <2>3 DEF TypeOK, Pair, Status
  <2> QED
    BY <2>1, <2>2, <2>3, <2>4, <2>5, FewerInFlight DEF TypeOK
<1>3. CASE Finish
  BY <1>3 DEF Finish, disk, TypeOK, Pair, InFlight
<1> QED
  BY <1>1, <1>2, <1>3

LEMMA ShapeOfPartition ==
    ASSUME Shape, NEW ps \in Manifests, NEW ig \in IgnoreFiles, Partition(ps, ig)
    PROVE  Shape'
<1> USE DEF Shape
<1>1. /\ phase = "partition" /\ phase' \in {"partition", "surface"}
      /\ ignore' = ig /\ parts' = ps /\ full' = Deepest(ps)
      /\ UNCHANGED <<skipped, queue, status, tries, file, marker, orphaned>>
  BY DEF Partition
<1>2. Deepest(ps) \subseteq {p.id : p \in ps}
  BY DEF Deepest
<1>3. DOMAIN status = {}
  BY <1>1
<1>4. InFlight' = InFlight
  BY <1>1 DEF InFlight
<1> QED
  BY <1>1, <1>2, <1>3, <1>4 DEF TypeOK

LEMMA ShapeOfSurface ==
    ASSUME Shape, NEW promoted \in SUBSET ({p.id : p \in parts} \ full), Surface(promoted)
    PROVE  Shape'
<1> USE DEF Shape
<1>1. /\ phase = "surface" /\ phase' = "fanout" /\ full' = full \cup promoted
      /\ skipped' = Gated \X full' /\ queue' = Category \X full'
      /\ status' = [u \in Category \X full' |-> "queued"]
      /\ UNCHANGED <<ignore, parts, tries, file, marker, orphaned>>
  BY DEF Surface
<1>2. full' \subseteq {p.id : p \in parts'}
  BY <1>1 DEF TypeOK
<1>3. DOMAIN status = {} /\ DOMAIN file = {}
  BY <1>1
<1> DEFINE all == Category \X full'
<1>4. \A u \in all : u \in Pair'
  BY <1>2 DEF Pair
<1> HIDE DEF all
<1>5. DOMAIN status' = all /\ \A u \in all : status'[u] = "queued"
  BY <1>1 DEF all
<1>6. status' = [u \in DOMAIN status' |-> status'[u]]
  BY <1>1 DEF all
<1>7. InFlight' = {}
  BY <1>5 DEF InFlight
<1>8. IsFiniteSet(InFlight') /\ Cardinality(InFlight') <= Cap
  BY <1>7, FS_EmptySet, DeepDivesAssumption
<1>9. queue' = {u \in DOMAIN status' : status'[u] = "queued"}
  BY <1>1, <1>5 DEF all
<1> QED
  BY <1>1, <1>2, <1>3, <1>4, <1>5, <1>6, <1>8, <1>9 DEF TypeOK, Status

LEMMA ShapeStep == Shape /\ [Next]_vars => Shape'
<1> SUFFICES ASSUME Shape, [Next]_vars PROVE Shape'
  OBVIOUS
<1>1. CASE UNCHANGED vars
  BY <1>1 DEF vars, Shape, TypeOK, Pair, InFlight
<1>2. ASSUME NEW u \in DOMAIN status, Handle(u) PROVE Shape'
  <2>1. phase \notin {"partition", "surface"}
    BY <1>2 DEF Shape
  <2> QED
    BY <1>2, <2>1, ShapeOfHandle
<1>3. ASSUME NEW ps \in Manifests, NEW ig \in IgnoreFiles, Partition(ps, ig) PROVE Shape'
  BY <1>3, ShapeOfPartition
<1>4. ASSUME NEW promoted \in SUBSET ({p.id : p \in parts} \ full), Surface(promoted)
      PROVE  Shape'
  BY <1>4, ShapeOfSurface
<1> QED
  BY <1>1, <1>2, <1>3, <1>4, ShapeOfFanout DEF Next

(* The pairs, the files and the markers fit together, the waiting pairs are *)
(* the queued ones, and no more than Cap are in flight, through retries,    *)
(* splits and crashes.                                                      *)
THEOREM TypeCorrect == Spec => []TypeOK
<1>1. Shape => TypeOK
  BY DEF Shape
<1> QED
  BY <1>1, ShapeInit, ShapeStep, PTL DEF Spec
-----------------------------------------------------------------------------
(* Ids are paths of splits: a part is the child of the one deferred pair    *)
(* that asked for it, and no path is longer than the floor allows.          *)
IdPart == {p.id[1] : p \in UNION Manifests} \cup Category
            \cup {ToString(k) : k \in UNION {DOMAIN split : split \in Splits}}

ChildOf(v, place) == v[2] \o <<v[1], place>>

Lineage ==
    \A p \in parts :
        /\ p.id \in Seq(IdPart) /\ Len(p.id) \in 1 .. 2 * Floor + 2
        /\ Len(p.id) = 1 \/ \E v \in DOMAIN status : \E place \in IdPart :
                                status[v] = "deferred" /\ p.id = ChildOf(v, place)

LEMMA ChildFacts ==
    ASSUME NEW v, v[2] \in Seq(IdPart), v[1] \in IdPart, NEW place \in IdPart
    PROVE  /\ ChildOf(v, place) \in Seq(IdPart)
           /\ Len(ChildOf(v, place)) = Len(v[2]) + 2 /\ Len(v[2]) \in Nat
           /\ \A k \in 1..Len(v[2]) : ChildOf(v, place)[k] = v[2][k]
           /\ ChildOf(v, place)[Len(v[2]) + 1] = v[1]
<1> DEFINE id == v[2]
           tail == <<v[1], place>>
<1>1. /\ id \in Seq(IdPart) /\ tail \in Seq(IdPart) /\ Len(tail) = 2 /\ tail[1] = v[1]
  OBVIOUS
<1> HIDE DEF id, tail
<1>a. Len(id) \in Nat /\ Len(id) + Len(tail) = Len(id) + 2
  BY <1>1
<1>b. /\ id \o tail \in Seq(IdPart) /\ Len(id \o tail) = Len(id) + Len(tail)
      /\ \A k \in 1..(Len(id) + Len(tail)) :
           (id \o tail)[k] = IF k <= Len(id) THEN id[k] ELSE tail[k - Len(id)]
  BY ONLY <1>1, ConcatProperties
<1>2. /\ id \o tail \in Seq(IdPart) /\ Len(id \o tail) = Len(id) + 2 /\ Len(id) \in Nat
      /\ \A k \in 1..(Len(id) + 2) :
           (id \o tail)[k] = IF k <= Len(id) THEN id[k] ELSE tail[k - Len(id)]
  BY ONLY <1>a, <1>b
<1>3. (id \o tail)[Len(id) + 1] = tail[1]
  BY <1>2
<1>4. \A k \in 1..Len(id) : (id \o tail)[k] = id[k]
  BY <1>2
<1> QED
  BY <1>1, <1>2, <1>3, <1>4 DEF ChildOf, id, tail

LEMMA ParentIsOne ==
    ASSUME NEW v, v[2] \in Seq(IdPart), v[1] \in IdPart, NEW a \in IdPart,
           NEW w, w[2] \in Seq(IdPart), w[1] \in IdPart, NEW b \in IdPart,
           ChildOf(v, a) = ChildOf(w, b)
    PROVE  v[1] = w[1] /\ v[2] = w[2]
<1>a. /\ Len(ChildOf(v, a)) = Len(v[2]) + 2 /\ Len(v[2]) \in Nat
      /\ \A k \in 1..Len(v[2]) : ChildOf(v, a)[k] = v[2][k]
      /\ ChildOf(v, a)[Len(v[2]) + 1] = v[1]
  BY ChildFacts
<1>b. /\ Len(ChildOf(w, b)) = Len(w[2]) + 2 /\ Len(w[2]) \in Nat
      /\ \A k \in 1..Len(w[2]) : ChildOf(w, b)[k] = w[2][k]
      /\ ChildOf(w, b)[Len(w[2]) + 1] = w[1]
  BY ChildFacts
<1>1. /\ Len(v[2]) \in Nat /\ Len(w[2]) \in Nat /\ Len(v[2]) + 2 = Len(w[2]) + 2
      /\ ChildOf(v, a)[Len(v[2]) + 1] = v[1] /\ ChildOf(w, b)[Len(w[2]) + 1] = w[1]
      /\ \A k \in 1..Len(v[2]) : ChildOf(v, a)[k] = v[2][k]
      /\ \A k \in 1..Len(w[2]) : ChildOf(w, b)[k] = w[2][k]
  BY ONLY <1>a, <1>b, ChildOf(v, a) = ChildOf(w, b)
<1>2. Len(v[2]) = Len(w[2])
  BY <1>1
<1>3. \A k \in 1..Len(v[2]) : v[2][k] = w[2][k]
  BY <1>1, <1>2
<1> QED
  BY <1>1, <1>2, <1>3, SeqEqual

(* A split never meets a pair that is already there.                        *)
LEMMA PartsAreFresh ==
    ASSUME Shape, Lineage, NEW u \in DOMAIN status, status[u] = "running",
           NEW split \in Splits, NEW p \in SubParts(u, split)
    PROVE  /\ \A c \in Category : <<c, p.id>> \notin DOMAIN status
           /\ \E place \in IdPart : p.id = ChildOf(u, place)
           /\ u[2] \in Seq(IdPart) /\ u[1] \in IdPart /\ Len(u[2]) \in Nat /\ Len(u[2]) >= 1
<1>1. ASSUME NEW v \in DOMAIN status
      PROVE  /\ v[1] \in Category /\ v[1] \in IdPart /\ v = <<v[1], v[2]>>
             /\ \E q \in parts : v[2] = q.id
  BY DEF Shape, TypeOK, Pair, IdPart
<1>2. PICK k \in DOMAIN split : p.id = u[2] \o <<u[1], ToString(k)>>
  BY DEF SubParts
<1>3. ToString(k) \in IdPart /\ p.id = ChildOf(u, ToString(k))
  BY <1>2 DEF IdPart, ChildOf
<1>4. u[2] \in Seq(IdPart) /\ u[1] \in IdPart /\ Len(u[2]) \in Nat /\ Len(u[2]) >= 1
  BY <1>1 DEF Lineage
<1>5. ASSUME NEW c \in Category, <<c, p.id>> \in DOMAIN status PROVE FALSE
  <2>1. PICK q \in parts : p.id = q.id
    BY <1>1, <1>5
  <2>2. Len(p.id) # 1
    <3>1. PICK place \in IdPart : p.id = ChildOf(u, place)
      BY <1>3
    <3>2. Len(ChildOf(u, place)) = Len(u[2]) + 2
      BY ONLY <1>4, <3>1, ChildFacts
    <3> QED
      BY <1>4, <3>1, <3>2
  <2>3. PICK v \in DOMAIN status : \E place \in IdPart :
          status[v] = "deferred" /\ p.id = ChildOf(v, place)
    BY <2>1, <2>2 DEF Lineage
  <2>4. v[2] \in Seq(IdPart) /\ v[1] \in IdPart
    BY <1>1, <2>3 DEF Lineage
  <2>5. v[1] = u[1] /\ v[2] = u[2]
    BY <1>3, <1>4, <2>3, <2>4, ParentIsOne
  <2>6. v = u
    BY <1>1, <2>5
  <2> QED
    BY <2>3, <2>6
<1> QED
  BY <1>3, <1>4, <1>5

(* What is accepted or deferred stays that: no retry, split or resumption   *)
(* touches it.                                                              *)
Kept(v) ==
    /\ v \in DOMAIN status'
    /\ status[v] = "deferred" => status'[v] = "deferred"
    /\ status[v] = "accepted" => status'[v] = "accepted" /\ file'[v] = file[v]

LEMMA OnePairKept ==
    ASSUME Shape, NEW u \in DOMAIN status, status[u] \notin {"accepted", "deferred"}, NEW s,
           status' = [status EXCEPT ![u] = s],
           \A v \in DOMAIN file : v # u => file'[v] = file[v],
           NEW v \in DOMAIN status
    PROVE  Kept(v)
<1>1. DOMAIN status' = DOMAIN status /\ (v # u => status'[v] = status[v])
  OBVIOUS
<1>2. status[v] = "accepted" => v \in DOMAIN file
  BY DEF Shape, TypeOK
<1> QED
  BY <1>1, <1>2 DEF Kept

LEMMA HandleRedoesNothing ==
    ASSUME Shape, Lineage, NEW u \in DOMAIN status, Handle(u), NEW v \in DOMAIN status
    PROVE  Kept(v)
<1>1. ASSUME NEW rows \in Output[u[1]], AgentWrites(u, rows) PROVE Kept(v)
  BY <1>1, OnePairKept DEF AgentWrites
<1>2. CASE Accept(u) \/ Reject(u) \/ NoAnswer(u) \/ AtFloor(u)
  <2>1. status[u] \notin {"accepted", "deferred"} /\ file' = file
    BY <1>2 DEF Accept, Reject, NoAnswer, AtFloor, Failed, InFlight
  <2>2. \E s : status' = [status EXCEPT ![u] = s]
    BY <1>2 DEF Accept, Reject, NoAnswer, AtFloor, Failed
  <2> QED
    BY <2>1, <2>2, OnePairKept
<1>3. ASSUME NEW split \in Splits, Recurse(u, split) PROVE Kept(v)
  <2> DEFINE subs == SubParts(u, split)
             fresh == Category \X {p.id : p \in subs}
  <2>1. /\ status[u] = "running" /\ file' = file
        /\ status' = [w \in DOMAIN status \cup fresh |->
                  IF w \in fresh THEN "queued"
                  ELSE IF w = u \/ (w[2] = u[2] /\ status[w] = "queued") THEN "deferred"
                  ELSE status[w]]
    BY <1>3 DEF Recurse
  <2>2. \A p \in subs : \A c \in Category : <<c, p.id>> \notin DOMAIN status
    BY <2>1, PartsAreFresh
  <2>3. v \notin fresh
    BY <2>2
  <2> HIDE DEF fresh
  <2>4. v \in DOMAIN status' /\ status'[v] = IF v = u \/ (v[2] = u[2] /\ status[v] = "queued")
                                             THEN "deferred" ELSE status[v]
    BY <2>1, <2>3
  <2> QED
    BY <2>1, <2>4 DEF Kept
<1> QED
  BY <1>1, <1>2, <1>3 DEF Handle

LEMMA NothingRedone ==
    ASSUME Shape, Lineage, [Next]_vars, NEW v \in DOMAIN status
    PROVE  Kept(v)
<1>1. CASE UNCHANGED <<status, file>>
  BY <1>1 DEF Kept
<1>2. ASSUME NEW promoted, Surface(promoted) PROVE Kept(v)
  BY <1>2 DEF Surface, Shape
<1>3. CASE Dispatch
  <2>1. NextPair \in queue /\ file' = file /\ status' = [status EXCEPT ![NextPair] = "running"]
    BY <1>3 DEF Dispatch, NextPair
  <2>2. NextPair \in DOMAIN status /\ status[NextPair] = "queued"
    BY <2>1 DEF Shape, TypeOK
  <2> QED
    BY <2>1, <2>2, OnePairKept
<1>4. CASE Crash
  <2>1. status' = [u \in DOMAIN status |-> Resumed(u)] /\ file' = file
    BY <1>4 DEF Crash, disk
  <2>2. v \in DOMAIN status' /\ status'[v] = Resumed(v)
    BY <2>1
  <2>3. status[v] = "accepted" => v \in marker
    BY DEF Shape
  <2> QED
    BY <2>1, <2>2, <2>3 DEF Resumed, Kept
<1>5. ASSUME NEW u \in DOMAIN status, Handle(u) PROVE Kept(v)
  BY <1>5, HandleRedoesNothing
<1> QED
  BY <1>1, <1>2, <1>3, <1>4, <1>5 DEF Next, vars, Partition, Finish, disk

LEMMA LineageInit == Init => Lineage
BY DEF Init, Lineage

LEMMA LineageStep ==
    ASSUME Shape, Lineage, [Next]_vars PROVE Lineage'
<1>1. CASE parts' = parts
  <2>1. \A v \in DOMAIN status : Kept(v)
    BY NothingRedone
  <2> QED
    BY <1>1, <2>1 DEF Lineage, Kept
<1>2. ASSUME NEW ps \in Manifests, NEW ig, Partition(ps, ig) PROVE Lineage'
  <2>1. parts' = ps
    BY <1>2 DEF Partition
  <2>2. ASSUME NEW p \in ps
        PROVE  p.id \in Seq(IdPart) /\ Len(p.id) \in 1 .. 2 * Floor + 2 /\ Len(p.id) = 1
    <3>1. p.id = <<p.id[1]>> /\ Floor \in Nat
      BY DeepDivesAssumption
    <3>2. p.id[1] \in IdPart
      BY DEF IdPart
    <3> DEFINE name == p.id[1]
    <3> HIDE DEF name
    <3>3. <<name>> \in Seq(IdPart) /\ Len(<<name>>) = 1
      BY <3>2 DEF name
    <3>4. 1 \in 1 .. 2 * Floor + 2
      BY <3>1
    <3>5. p.id = <<name>>
      BY <3>1 DEF name
    <3> QED
      BY <3>3, <3>4, <3>5
  <2> QED
    BY <2>1, <2>2 DEF Lineage
<1>3. ASSUME NEW u \in DOMAIN status, NEW split \in Splits, Recurse(u, split) PROVE Lineage'
  <2>1. /\ status[u] = "running" /\ Depth(u[2]) < Floor /\ parts' = parts \cup SubParts(u, split)
    BY <1>3 DEF Recurse
  <2>2. \A v \in DOMAIN status : Kept(v)
    BY NothingRedone
  <2>3. u \in DOMAIN status' /\ status'[u] = "deferred"
    <3> DEFINE fresh == Category \X {p.id : p \in SubParts(u, split)}
    <3>1. status' = [w \in DOMAIN status \cup fresh |->
                  IF w \in fresh THEN "queued"
                  ELSE IF w = u \/ (w[2] = u[2] /\ status[w] = "queued") THEN "deferred"
                  ELSE status[w]]
      BY <1>3 DEF Recurse
    <3>2. u \notin fresh
      BY <2>1, PartsAreFresh
    <3> HIDE DEF fresh
    <3> QED
      BY <3>1, <3>2
  <2>4. ASSUME NEW p \in parts
        PROVE  /\ p.id \in Seq(IdPart) /\ Len(p.id) \in 1 .. 2 * Floor + 2
               /\ Len(p.id) = 1 \/ \E v \in DOMAIN status' : \E place \in IdPart :
                                     status'[v] = "deferred" /\ p.id = ChildOf(v, place)
    BY <2>2 DEF Lineage, Kept
  <2>5. ASSUME NEW p \in SubParts(u, split)
        PROVE  /\ p.id \in Seq(IdPart) /\ Len(p.id) \in 1 .. 2 * Floor + 2
               /\ \E place \in IdPart : status'[u] = "deferred" /\ p.id = ChildOf(u, place)
    <3>1. PICK place \in IdPart : p.id = ChildOf(u, place)
      BY <2>1, PartsAreFresh
    <3>2. u[2] \in Seq(IdPart) /\ u[1] \in IdPart /\ Len(u[2]) \in Nat /\ Len(u[2]) >= 1
      BY <2>1, PartsAreFresh
    <3>3. p.id \in Seq(IdPart) /\ Len(p.id) = Len(u[2]) + 2
      BY ONLY <3>1, <3>2, ChildFacts
    <3>4. Len(p.id) \in 1 .. 2 * Floor + 2
      <4> DEFINE long == Len(u[2])
      <4>1. long \in Nat /\ long >= 1 /\ (long - 1) \div 2 < Floor /\ Floor \in Nat
        BY <2>1, <3>2, DeepDivesAssumption DEF Depth
      <4> HIDE DEF long
      <4>2. long + 2 \in 1 .. 2 * Floor + 2
        BY <4>1
      <4> QED
        BY <3>3, <4>2 DEF long
    <3> QED
      BY <2>3, <3>1, <3>3, <3>4
  <2> QED
    BY <2>1, <2>3, <2>4, <2>5 DEF Lineage
<1>4. \/ parts' = parts
      \/ \E ps \in Manifests, ig \in IgnoreFiles : Partition(ps, ig)
      \/ \E u \in DOMAIN status : \E split \in Splits : Recurse(u, split)
  BY DEF Next, vars, Surface, Dispatch, Handle, AgentWrites, Accept, Reject, NoAnswer, Failed,
         AtFloor, Crash, Finish, disk
<1> QED
  BY <1>1, <1>2, <1>3, <1>4

LEMMA AlwaysInOrder == Spec => [](Shape /\ Lineage)
<1>1. Shape /\ Lineage /\ [Next]_vars => Shape' /\ Lineage'
  BY ShapeStep, LineageStep
<1> QED
  BY <1>1, ShapeInit, LineageInit, PTL DEF Spec

(* The answer of a pair that was accepted is never overwritten or redone,    *)
(* whatever is retried, split or resumed: the writes stay disjoint           *)
(* (workflow.md:464-470).                                                    *)
THEOREM AcceptedForGood == Spec => AcceptedStays
<1>1. Shape /\ Lineage /\ [Next]_vars
        => [\A u \in DOMAIN status : status[u] = "accepted" =>
               u \in DOMAIN status' /\ status'[u] = "accepted" /\ file'[u] = file[u]]_vars
  BY NothingRedone DEF Kept
<1> QED
  BY <1>1, AlwaysInOrder, PTL DEF Spec, AcceptedStays
-----------------------------------------------------------------------------
(* From the gate of Phase 1 on every file of the tree has an owner, every   *)
(* pair of a full partition is on the list, and Phase 5 ends with a list on *)
(* which every pair is settled.                                             *)
Owned == \A f \in Considered(Tree, ignore) : \E p \in parts : Owns(p, f)
Listed == \A c \in Category, id \in full : <<c, id>> \in DOMAIN status
Settled == \A u \in DOMAIN status : status[u] \in {"accepted", "placeholder", "deferred"}

Reached ==
    /\ phase # "partition" => Owned
    /\ phase \in {"fanout", "done"} => Listed
    /\ phase = "done" => Settled

LEMMA ReachedOfHandle ==
    ASSUME Shape, Reached, NEW u \in DOMAIN status, Handle(u) PROVE Reached'
<1>1. status[u] \in {"running", "written"}
  BY DEF Handle, AgentWrites, Accept, Reject, NoAnswer, AtFloor, Recurse, InFlight
<1>2. phase = "fanout" /\ Owned /\ Listed
  BY <1>1 DEF Shape, TypeOK, Reached, Settled
<1>3. phase' = phase /\ ignore' = ignore
  BY DEF Handle, AgentWrites, Accept, Reject, NoAnswer, Failed, AtFloor, Recurse, planning
<1>4. CASE parts' = parts /\ full' = full /\ DOMAIN status' = DOMAIN status
  BY <1>2, <1>3, <1>4 DEF Reached, Owned, Listed
<1>5. ASSUME NEW split \in Splits, Recurse(u, split) PROVE Reached'
  <2> DEFINE ids == {p.id : p \in SubParts(u, split)}
             fresh == Category \X ids
  <2>1. parts \subseteq parts' /\ full' = full \cup ids
    BY <1>5 DEF Recurse
  <2>2. DOMAIN status' = DOMAIN status \cup fresh
    BY <1>5 DEF Recurse
  <2>3. Owned'
    BY <1>2, <1>3, <2>1 DEF Owned
  <2> HIDE DEF ids
  <2>4. Listed'
    BY <1>2, <2>1, <2>2 DEF Listed
  <2> QED
    BY <1>2, <1>3, <2>3, <2>4 DEF Reached
<1>6. \/ parts' = parts /\ full' = full /\ DOMAIN status' = DOMAIN status
      \/ \E split \in Splits : Recurse(u, split)
  BY DEF Handle, AgentWrites, Accept, Reject, NoAnswer, Failed, AtFloor
<1> QED
  BY <1>4, <1>5, <1>6

LEMMA ReachedStep ==
    ASSUME Shape, Reached, [Next]_vars PROVE Reached'
<1>1. ASSUME NEW ps \in Manifests, NEW ig \in IgnoreFiles, Partition(ps, ig) PROVE Reached'
  <2>1. /\ parts' = ps /\ ignore' = ig /\ phase' \in {"partition", "surface"}
        /\ phase' = "surface" => CoverageExit(ps, Considered(Tree, ig)) = 0
    BY <1>1 DEF Partition
  <2>2. CoverageExit(ps, Considered(Tree, ig)) = 0 => Unmatched(ps, Considered(Tree, ig)) = {}
    BY DEF CoverageExit
  <2>3. phase' = "surface" => Owned'
    BY <2>1, <2>2 DEF Unmatched, Owned
  <2> QED
    BY <2>1, <2>3 DEF Reached
<1>2. ASSUME NEW promoted, Surface(promoted) PROVE Reached'
  <2>1. /\ phase = "surface" /\ phase' = "fanout" /\ parts' = parts /\ ignore' = ignore
        /\ DOMAIN status' = Category \X full'
    BY <1>2 DEF Surface
  <2> QED
    BY <2>1 DEF Reached, Owned, Listed
<1>3. CASE Dispatch \/ Crash \/ Finish \/ UNCHANGED vars
  <2>1. /\ parts' = parts /\ full' = full /\ ignore' = ignore /\ DOMAIN status' = DOMAIN status
        /\ phase' # phase => phase = "fanout" /\ phase' = "done" /\ Settled /\ status' = status
        /\ phase = "done" => phase' = "done" /\ status' = status
    BY <1>3 DEF Dispatch, Crash, Finish, vars, planning, disk, Settled
  <2> QED
    BY <2>1 DEF Reached, Owned, Listed, Settled
<1> QED
  BY <1>1, <1>2, <1>3, ReachedOfHandle DEF Next

LEMMA ReachedInit == Init => Reached
BY DEF Init, Reached

(* Among the full partitions whose scope holds the file, one that was split *)
(* the furthest has the answer, or its split left the file out.             *)
LEMMA DeepestAnswers ==
    ASSUME Shape, Lineage, Listed, Settled,
           NEW f, NEW c \in Category, NEW start \in full, f \in Scope(start)
    PROVE  \/ Answered(f, c)
           \/ \E id \in Deferred : f \in Scope(id) /\ \A sub \in PartsOf(id) : f \notin Scope(sub)
<1> DEFINE Holding == {id \in full : f \in Scope(id)}
           N == 2 * Floor + 2
           Lengths == {n \in 0 .. N : \E id \in Holding : Len(id) = n}
<1>1. N \in Nat
  BY DeepDivesAssumption
<1>2. ASSUME NEW id \in full PROVE Len(id) \in 0 .. N
  <2>1. PICK p \in parts : p.id = id
    BY DEF Shape, TypeOK
  <2>2. Len(p.id) \in 1 .. N
    BY DEF Lineage
  <2> QED
    BY <1>1, <2>1, <2>2
<1> HIDE DEF N
<1>3. Lengths \in SUBSET (0 .. N) /\ Len(start) \in Lengths
  BY <1>2
<1> HIDE DEF Lengths
<1>4. PICK n \in Lengths : \A m \in Lengths : m <= n
  BY <1>1, <1>3, GreatestElement
<1>5. PICK id \in full : f \in Scope(id) /\ Len(id) = n
  BY DEF Lengths
<1>6. <<c, id>> \in DOMAIN status /\ status[<<c, id>>] \in {"accepted", "placeholder", "deferred"}
  BY DEF Listed, Settled
<1>7. CASE status[<<c, id>>] \in {"accepted", "placeholder"}
  BY <1>5, <1>6, <1>7 DEF Answered
<1>8. CASE status[<<c, id>>] = "deferred"
  <2>1. id \in Deferred
    BY <1>6, <1>8 DEF Deferred
  <2>2. ASSUME NEW sub \in PartsOf(id), f \in Scope(sub) PROVE FALSE
    <3>1. sub \in full /\ Len(sub) = n + 2
      BY <1>5 DEF PartsOf
    <3>2. Len(sub) \in Lengths
      BY <1>2, <2>2, <3>1 DEF Lengths
    <3>3. n \in 0 .. N /\ n + 2 <= n
      BY <1>3, <1>4, <3>1, <3>2
    <3> QED
      BY <1>1, <3>3
  <2> QED
    BY <1>5, <2>1, <2>2
<1> QED
  BY <1>6, <1>7, <1>8

(* When Phase 5 ends, a source file nobody looked at in a category has a     *)
(* reason on record: it lies on the cut line of the budget, a split left it  *)
(* out, or its partition claims it by path and not by paths_included         *)
(* (workflow.md:482, lib/validate-partition-coverage.py:203).                *)
THEOREM UnexaminedHasAReason == Spec => []UnexaminedExplained
<1>1. Shape /\ Lineage /\ Reached => UnexaminedExplained
  <2> SUFFICES ASSUME Shape, Lineage, Reached, phase = "done",
                      NEW f \in Considered(Tree, ignore), NEW c \in Category
               PROVE  \/ Answered(f, c)
                      \/ \E p \in parts : p.id \notin full /\ Owns(p, f)
                      \/ \E id \in Deferred : f \in Scope(id)
                                              /\ \A sub \in PartsOf(id) : f \notin Scope(sub)
                      \/ \E p \in parts : Owns(p, f) /\ f \notin Scope(p.id)
    BY DEF UnexaminedExplained
  <2>1. Owned /\ Listed /\ Settled
    BY DEF Reached
  <2>2. PICK p \in parts : Owns(p, f)
    BY <2>1 DEF Owned
  <2>3. CASE p.id \in full /\ f \in Scope(p.id)
    BY <2>1, <2>3, DeepestAnswers
  <2> QED
    BY <2>2, <2>3
<1>2. Shape /\ Reached /\ [Next]_vars => Reached'
  BY ReachedStep
<1> QED
  BY <1>1, <1>2, AlwaysInOrder, ReachedInit, PTL DEF Spec
=============================================================================
