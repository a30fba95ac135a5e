---------------------- MODULE EgressReconciliationProofs ----------------------
(***************************************************************************)
(* What the egress reconciliation concludes of an inventory, for any code, *)
(* any way of misreading its gates, and any number of rounds through the   *)
(* coverage gate.                                                          *)
(***************************************************************************)
EXTENDS EgressReconciliation, Extremes

\* The strongest of some gate ranks.
LEMMA MaxRank ==
  ASSUME NEW S \in SUBSET Ranks, S # {}
  PROVE  Max(S) \in S /\ \A y \in S : y <= Max(S)
<1>1. S \in SUBSET (0 .. 3)
  BY DEF Ranks, NoGate, Verified
<1>2. \E x \in S : \A y \in S : y <= x
  BY <1>1, GreatestElement
<1>3. \E x \in S : \A y \in S : x >= y
  BY <1>1, <1>2
<1> QED
  BY <1>1, <1>3 DEF Max

LEMMA RankType == ASSUME NEW g \in GateText PROVE Rank(g) \in Ranks
BY DEF GateText, Rank, KeywordRank, Ranks, NoGate, Verified

\* Rank three has been said, or hinted.
LEMMA RankThree ==
  ASSUME NEW g \in GateText, Rank(g) = Verified
  PROVE  g.hint = Verified \/ (g.says = Verified /\ ~g.negated)
BY DEF GateText, Rank, KeywordRank, NoGate, Verified

\* What a row needs for the rules: gates that have a rank.
Ranked(row) == row.intended \in GateText /\ \A b \in row.branches : b.gate \in GateText

RankedInventory(I) ==
  /\ \A row \in I.sinks \cup I.surfaces : Ranked(row)
  /\ I.credentials \subseteq CredentialEntry

LEMMA RowRanksType ==
  ASSUME NEW row, Ranked(row) PROVE RowRanks(row) \in SUBSET Ranks /\ RowRanks(row) # {}
BY RankType DEF Ranked, RowRanks

LEMMA RowFloorFacts ==
  ASSUME NEW rows, \A row \in rows : Ranked(row), NEW L
  PROVE  /\ RowFloor(rows, L) \in Ranks
         /\ \A row \in rows : LayerOf(row) = L =>
               \A k \in RowRanks(row) : k <= RowFloor(rows, L)
         /\ RowFloor(rows, L) # NoGate =>
               \E row \in rows : LayerOf(row) = L /\ RowFloor(rows, L) \in RowRanks(row)
<1> DEFINE S == {NoGate} \cup UNION {RowRanks(row) : row \in {w \in rows : LayerOf(w) = L}}
<1>1. S \in SUBSET Ranks /\ S # {}
  <2>1. \A row \in rows : RowRanks(row) \in SUBSET Ranks
    BY RowRanksType
  <2> QED
    BY <2>1 DEF Ranks, NoGate, Verified
<1>2. \A row \in rows : LayerOf(row) = L => RowRanks(row) \subseteq S
  OBVIOUS
<1>3. \A k \in S : k # NoGate => \E row \in rows : LayerOf(row) = L /\ k \in RowRanks(row)
  OBVIOUS
<1>4. RowFloor(rows, L) = Max(S)
  BY DEF RowFloor
<1> HIDE DEF S
<1>5. Max(S) \in S /\ \A y \in S : y <= Max(S)
  BY <1>1, MaxRank
<1> QED
  BY <1>1, <1>2, <1>3, <1>4, <1>5

LEMMA KindType == \A kind : KindRank(kind) \in Ranks
BY DEF KindRank, Ranks, NoGate, Authn, Authz, Verified

\* The rank of a credential is that of a check at a reader, or its kind's, which
\* is three only where a rank-three gate is described.
LEMMA CredentialFacts ==
  ASSUME NEW I, NEW r, NEW c \in CredentialEntry
  PROVE  /\ CredentialRank(I, r, c) \in Ranks
         /\ \A v \in c.validation : Rank(v) <= CredentialRank(I, r, c)
         /\ KindRank(c.kind) <= CredentialRank(I, r, c)
            \/ (~RankThreeObserved(I, r) /\ Authz <= CredentialRank(I, r, c))
         /\ \/ CredentialRank(I, r, c) = KindRank(c.kind)
            \/ ~RankThreeObserved(I, r) /\ CredentialRank(I, r, c) = Authz
               /\ Authz <= KindRank(c.kind)
            \/ \E v \in c.validation : CredentialRank(I, r, c) = Rank(v)
         /\ CredentialRank(I, r, c) = Verified =>
               RankThreeObserved(I, r) \/ \E v \in c.validation : Rank(v) = Verified
<1> DEFINE kr == KindRank(c.kind)
           kind == IF RankThreeObserved(I, r) THEN kr ELSE Min({kr, Authz})
           S == {kind} \cup {Rank(v) : v \in c.validation}
<1>1. kr \in Ranks
  BY KindType
<1>2. kind \in Ranks
      /\ (RankThreeObserved(I, r) => kind = kr)
      /\ (~RankThreeObserved(I, r) => (kind = kr /\ kr <= Authz) \/ (kind = Authz /\ Authz <= kr))
  <2> DEFINE both == {kr, Authz}
  <2> HIDE DEF kr
  <2>1. both \in SUBSET Nat /\ both # {} /\ Authz \in Ranks
    BY <1>1 DEF Ranks, NoGate, Verified, Authz
  <2>2. Min(both) \in both /\ \A y \in both : Min(both) <= y
    <3> HIDE DEF both
    <3>1. \E x \in both : \A y \in both : x <= y
      BY <2>1, LeastElement
    <3> QED
      BY <3>1 DEF Min
  <2>3. Min(both) = kr \/ Min(both) = Authz
    BY <2>2
  <2>4. Min(both) <= kr /\ Min(both) <= Authz
    BY <2>2
  <2> HIDE DEF both
  <2>5. kind = IF RankThreeObserved(I, r) THEN kr ELSE Min(both)
    BY DEF both
  <2> HIDE DEF kind
  <2> QED
    BY <1>1, <2>1, <2>3, <2>4, <2>5
<1>3. S \in SUBSET Ranks /\ S # {}
  <2>1. \A v \in c.validation : Rank(v) \in Ranks
    BY RankType DEF CredentialEntry
  <2> HIDE DEF kind
  <2> QED
    BY <1>2, <2>1
<1>4. CredentialRank(I, r, c) = Max(S)
  BY DEF CredentialRank
<1>5. kind \in S /\ \A v \in c.validation : Rank(v) \in S
  OBVIOUS
<1>6. \A k \in S : k = kind \/ \E v \in c.validation : k = Rank(v)
  OBVIOUS
<1> HIDE DEF S, kind, kr
<1>7. Max(S) \in S /\ \A y \in S : y <= Max(S)
  BY <1>3, MaxRank
<1> USE DEF Ranks, NoGate, Authz, Verified
<1>8. CredentialRank(I, r, c) \in Ranks /\ \A v \in c.validation : Rank(v) <= CredentialRank(I, r, c)
  BY <1>3, <1>4, <1>5, <1>7
<1>9. kind <= CredentialRank(I, r, c) /\ (CredentialRank(I, r, c) = kind
         \/ \E v \in c.validation : CredentialRank(I, r, c) = Rank(v))
  BY <1>4, <1>5, <1>6, <1>7
<1> QED
  BY <1>1, <1>2, <1>8, <1>9 DEF kr

\* The floor of r at L: a rank that a row at L has, or a credential of r.
LEMMA FloorFacts ==
  ASSUME NEW I, RankedInventory(I), NEW r, NEW L
  PROVE  /\ Floor(I, r, L) \in Ranks
         /\ RowFloor(NetSinks(I, r), L) <= Floor(I, r, L)
         /\ RowFloor(GatedSurfaces(I, r), L) <= Floor(I, r, L)
         /\ L \in LayersFor(I, r) =>
               \A c \in CredentialsOf(I, r) : CredentialRank(I, r, c) <= Floor(I, r, L)
         /\ \/ Floor(I, r, L) = RowFloor(NetSinks(I, r), L)
            \/ Floor(I, r, L) = RowFloor(GatedSurfaces(I, r), L)
            \/ /\ L \in LayersFor(I, r)
               /\ \E c \in CredentialsOf(I, r) : Floor(I, r, L) = CredentialRank(I, r, c)
<1> DEFINE C == IF L \in LayersFor(I, r) THEN CredentialsOf(I, r) ELSE {}
           S == {RowFloor(NetSinks(I, r), L), RowFloor(GatedSurfaces(I, r), L)}
                \cup {CredentialRank(I, r, c) : c \in C}
<1>1. RowFloor(NetSinks(I, r), L) \in Ranks /\ RowFloor(GatedSurfaces(I, r), L) \in Ranks
  <2>1. NetSinks(I, r) \subseteq I.sinks /\ GatedSurfaces(I, r) \subseteq I.surfaces
    BY DEF NetSinks, GatedSurfaces, SinksOf, SurfacesOf
  <2> QED
    BY <2>1, RowFloorFacts DEF RankedInventory
<1>2. \A c \in C : c \in CredentialsOf(I, r) /\ CredentialRank(I, r, c) \in Ranks
  BY CredentialFacts DEF RankedInventory, CredentialsOf
<1>3. S \in SUBSET Ranks /\ S # {}
  BY <1>1, <1>2
<1>4. Floor(I, r, L) = Max(S)
  BY DEF Floor
<1>5. L \in LayersFor(I, r) => \A c \in CredentialsOf(I, r) : CredentialRank(I, r, c) \in S
  OBVIOUS
<1>6. RowFloor(NetSinks(I, r), L) \in S /\ RowFloor(GatedSurfaces(I, r), L) \in S
  OBVIOUS
<1>7. \A k \in S : \/ k = RowFloor(NetSinks(I, r), L) \/ k = RowFloor(GatedSurfaces(I, r), L)
                   \/ \E c \in CredentialsOf(I, r) : L \in LayersFor(I, r) /\ k = CredentialRank(I, r, c)
  BY DEF C
<1> HIDE DEF S
<1>8. Max(S) \in S /\ \A y \in S : y <= Max(S)
  BY <1>3, MaxRank
<1> QED
  BY <1>3, <1>4, <1>5, <1>6, <1>7, <1>8

-----------------------------------------------------------------------------
(* What an agent's reading of a row keeps of it. *)
LEMMA ReadType ==
  ASSUME NEW g \in GateText, NEW m PROVE Read(g, m) \in GateText
<1>1. NoGate \in Ranks /\ g.says \in Ranks
  BY DEF GateText, Ranks, NoGate, Verified
<1>2. /\ [g EXCEPT !.says = NoGate] \in GateText
      /\ [g EXCEPT !.negated = TRUE] \in GateText
      /\ [g EXCEPT !.says = NoGate, !.hint = g.says] \in GateText
  BY <1>1 DEF GateText
<1>3. \/ Read(g, m) = [g EXCEPT !.says = NoGate]
      \/ Read(g, m) = [g EXCEPT !.negated = TRUE]
      \/ Read(g, m) = [g EXCEPT !.says = NoGate, !.hint = g.says]
      \/ Read(g, m) = g
  BY DEF Read
<1> QED
  BY <1>2, <1>3

ReadOf(b, m) == [b EXCEPT !.gate = Read(@, m)]

LEMMA BranchType ==
  ASSUME NEW b \in GuardedPath, NEW m
  PROVE  /\ ReadOf(b, m) \in GuardedPath
         /\ ReadOf(b, m).id = b.id /\ ReadOf(b, m).bytes = b.bytes
BY ReadType DEF ReadOf, GuardedPath

Alike(w, row) ==
  /\ w.id = row.id /\ w.resource = row.resource
  /\ w.category = row.category /\ w.named = row.named
  /\ w.site.file = row.site.file
  /\ w.layer = row.layer \/ w.layer = "unset"

LEMMA SurfaceReading ==
  ASSUME NEW f \in SurfaceEntry, NEW m
  PROVE  Described(f, m) \in SurfaceEntry /\ Alike(Described(f, m), f)
<1>1. {ReadOf(b, m) : b \in f.branches} \in SUBSET GuardedPath
  BY BranchType DEF SurfaceEntry
<1>2. Read(f.intended, m) \in GateText
  BY ReadType DEF SurfaceEntry
<1>3. Described(f, m) = [f EXCEPT !.intended = Read(f.intended, m),
                                  !.branches = {ReadOf(b, m) : b \in f.branches}]
  BY DEF Described, ReadOf, SurfaceEntry
<1> DEFINE gate == Read(f.intended, m)
           branches == {ReadOf(b, m) : b \in f.branches}
<1> HIDE DEF gate, branches
<1>4. Described(f, m) = [f EXCEPT !.intended = gate, !.branches = branches]
  BY <1>3 DEF gate, branches
<1>5. gate \in GateText /\ branches \in SUBSET GuardedPath
  BY <1>1, <1>2 DEF gate, branches
<1> QED
  BY <1>4, <1>5 DEF SurfaceEntry, Alike

LEMMA SinkReading ==
  ASSUME NEW s \in SinkEntry, s.site.line \in Int, NEW m, NEW d \in Int
  PROVE  /\ SinkRow(s, m, d) \in SinkEntry
         /\ Alike(SinkRow(s, m, d), s)
         /\ SinkRow(s, m, d).destination = s.destination
         /\ \/ SinkRow(s, m, d).coverage = "incomplete"
            \/ SinkRow(s, m, d).branches = {ReadOf(b, m) : b \in s.branches}
<1> DEFINE gate == Read(s.intended, m)
           branches == {ReadOf(b, m) : b \in s.branches}
           line == s.site.line + d
<1>1. branches \in SUBSET GuardedPath /\ gate \in GateText /\ line \in Int
  BY BranchType, ReadType DEF SinkEntry
<1>2. [Described(s, m) EXCEPT !.site.line = @ + d]
        = [s EXCEPT !.intended = gate, !.branches = branches, !.site.line = line]
  <2>1. Described(s, m) = [s EXCEPT !.intended = gate, !.branches = branches]
    BY DEF Described, ReadOf, SinkEntry
  <2> HIDE DEF gate, branches
  <2> QED
    BY <2>1 DEF SinkEntry
<1> HIDE DEF gate, branches, line
<1> DEFINE row == [s EXCEPT !.intended = gate, !.branches = branches, !.site.line = line]
<1>3. row \in SinkEntry /\ Alike(row, s) /\ row.destination = s.destination
      /\ row.branches = branches
  BY <1>1 DEF SinkEntry, Site, Alike
<1> HIDE DEF row
<1>4. SinkRow(s, m, d) =
        CASE m = "partial" -> [row EXCEPT !.branches = {}, !.coverage = "incomplete"]
          [] m = "untyped" -> [row EXCEPT !.layer = "unset", !.pathControl = "unset"]
          [] OTHER -> row
  BY <1>2 DEF SinkRow, row
<1>5. CASE m = "partial"
  <2>1. SinkRow(s, m, d) = [row EXCEPT !.branches = {}, !.coverage = "incomplete"]
    BY <1>4, <1>5
  <2> QED
    BY <1>3, <2>1 DEF SinkEntry, Alike
<1>6. CASE m # "partial" /\ m = "untyped"
  <2> DEFINE bare == [row EXCEPT !.layer = "unset", !.pathControl = "unset"]
  <2>1. SinkRow(s, m, d) = bare
    BY <1>4, <1>6
  <2>2. bare \in SinkEntry
    BY <1>3 DEF SinkEntry, PathControls
  <2>4. bare.branches = row.branches /\ bare.destination = row.destination
    BY <1>3 DEF SinkEntry
  <2>3. Alike(bare, s)
    BY <1>3 DEF SinkEntry, Alike
  <2> HIDE DEF bare
  <2> QED
    BY <1>3, <2>1, <2>2, <2>3, <2>4 DEF branches
<1>7. CASE m # "partial" /\ m # "untyped"
  <2>1. SinkRow(s, m, d) = row
    BY <1>4, <1>7
  <2> QED
    BY <1>3, <2>1 DEF branches
<1> QED
  BY <1>5, <1>6, <1>7

-----------------------------------------------------------------------------
(* The inventory is made of readings of the code's rows. *)
RowsOfTheCode ==
  /\ world \in Worlds
  /\ inv = [sinks |-> inv.sinks, surfaces |-> inv.surfaces, credentials |-> inv.credentials,
            dismissed |-> inv.dismissed, public |-> world.public]
  /\ \A w \in inv.sinks :
       \E s \in world.sinks : \E m \in Readings : \E d \in Drifts : w = SinkRow(s, m, d)
  /\ \A w \in inv.surfaces : \E f \in world.surfaces : \E m \in Readings : w = Described(f, m)
  /\ inv.credentials \subseteq world.credentials

LEMMA RankedEntry ==
  ASSUME NEW row \in SinkEntry \cup SurfaceEntry PROVE Ranked(row)
BY DEF SinkEntry, SurfaceEntry, GuardedPath, Ranked

LEMMA RowsTyped ==
  ASSUME RowsOfTheCode
  PROVE  /\ RankedInventory(inv)
         /\ inv.sinks \subseteq SinkEntry /\ inv.surfaces \subseteq SurfaceEntry
         /\ inv.public = world.public
<1>1. inv.sinks \subseteq SinkEntry
  <2> SUFFICES ASSUME NEW w \in inv.sinks PROVE w \in SinkEntry
    OBVIOUS
  <2>1. PICK s \in world.sinks : \E m \in Readings : \E d \in Drifts : w = SinkRow(s, m, d)
    BY DEF RowsOfTheCode
  <2>2. s \in SinkEntry /\ s.site.line \in Int
    BY WorldAssumption DEF RowsOfTheCode
  <2> QED
    BY <2>1, <2>2, SinkReading, DriftAssumption
<1>2. inv.surfaces \subseteq SurfaceEntry
  <2> SUFFICES ASSUME NEW w \in inv.surfaces PROVE w \in SurfaceEntry
    OBVIOUS
  <2>1. PICK f \in world.surfaces : \E m \in Readings : w = Described(f, m)
    BY DEF RowsOfTheCode
  <2>2. f \in SurfaceEntry
    BY WorldAssumption DEF RowsOfTheCode
  <2> QED
    BY <2>1, <2>2, SurfaceReading
<1>3. inv.credentials \subseteq CredentialEntry
  BY WorldAssumption DEF RowsOfTheCode
<1>4. inv.public = world.public
  <2>1. RowsOfTheCode
    OBVIOUS
  <2> QED
    BY <2>1 DEF RowsOfTheCode
<1> QED
  BY <1>1, <1>2, <1>3, <1>4, RankedEntry DEF RankedInventory

LEMMA RowsInit == ASSUME Init PROVE RowsOfTheCode
BY DEF Init, EmptyInventory, RowsOfTheCode

LEMMA RowsStep ==
  ASSUME RowsOfTheCode, [Next]_vars PROVE RowsOfTheCode'
<1> USE DEF RowsOfTheCode
<1>1. ASSUME NEW s \in world.sinks, NEW m \in ReadingsNow, NEW d \in Drifts, RecordSink(s, m, d)
      PROVE  RowsOfTheCode'
  <2>1. m \in Readings
    BY DEF ReadingsNow
  <2>2. inv' = [inv EXCEPT !.sinks = {t \in @ : t.id # s.id} \cup {SinkRow(s, m, d)}]
        /\ UNCHANGED world
    BY <1>1 DEF RecordSink
  <2> DEFINE sinks == {t \in inv.sinks : t.id # s.id} \cup {SinkRow(s, m, d)}
  <2>3. inv' = [inv EXCEPT !.sinks = sinks]
    BY <2>2
  <2>4. \A w \in sinks : \E t \in world.sinks : \E n \in Readings : \E e \in Drifts : w = SinkRow(t, n, e)
    BY <2>1
  <2> HIDE DEF sinks
  <2>5. inv' = [sinks |-> sinks, surfaces |-> inv.surfaces, credentials |-> inv.credentials,
                dismissed |-> inv.dismissed, public |-> world.public]
    <3>1. inv = [sinks |-> inv.sinks, surfaces |-> inv.surfaces, credentials |-> inv.credentials,
                 dismissed |-> inv.dismissed, public |-> world.public]
      OBVIOUS
    <3> HIDE DEF RowsOfTheCode
    <3> QED
      BY ONLY <2>3, <3>1
  <2>6. /\ inv'.sinks = sinks /\ inv'.surfaces = inv.surfaces
        /\ inv'.credentials = inv.credentials /\ inv'.dismissed = inv.dismissed
        /\ inv'.public = world.public
    BY <2>5
  <2>7. UNCHANGED world
    BY <2>2
  <2>8. inv' = [sinks |-> inv'.sinks, surfaces |-> inv'.surfaces, credentials |-> inv'.credentials,
                dismissed |-> inv'.dismissed, public |-> world'.public]
    BY ONLY <2>5, <2>6, <2>7
  <2>9. \A w \in inv'.sinks :
          \E t \in world'.sinks : \E n \in Readings : \E e \in Drifts : w = SinkRow(t, n, e)
    BY ONLY <2>4, <2>6, <2>7
  <2> QED
    BY <2>6, <2>7, <2>8, <2>9
<1>2. ASSUME NEW f \in world.surfaces, NEW m \in ReadingsNow, RecordSurface(f, m)
      PROVE  RowsOfTheCode'
  <2>1. m \in Readings
    BY DEF ReadingsNow
  <2>2. inv' = [inv EXCEPT !.surfaces = @ \cup {Described(f, m)}] /\ UNCHANGED world
    BY <1>2 DEF RecordSurface
  <2>3. inv'.surfaces = inv.surfaces \cup {Described(f, m)}
        /\ inv'.sinks = inv.sinks /\ inv'.credentials = inv.credentials
        /\ inv' = [sinks |-> inv'.sinks, surfaces |-> inv'.surfaces, credentials |-> inv'.credentials,
                   dismissed |-> inv'.dismissed, public |-> world.public]
    BY <2>2
  <2> QED
    BY <2>1, <2>2, <2>3
<1>3. ASSUME NEW c \in world.credentials, RecordCredential(c)
      PROVE  RowsOfTheCode'
  BY <1>3 DEF RecordCredential
<1>4. ASSUME NEW c, NEW line, Dismiss(c, line)
      PROVE  RowsOfTheCode'
  BY <1>4 DEF Dismiss
<1>5. ASSUME HandOver \/ Gate \/ Attack \/ Finished \/ UNCHANGED vars
      PROVE  RowsOfTheCode'
  BY <1>5 DEF HandOver, Gate, Attack, Probe, Finished, vars
<1> QED
  BY <1>1, <1>2, <1>3, <1>4, <1>5 DEF Next, Answer

-----------------------------------------------------------------------------
(* R2 and R5, without the local abbreviations. *)
DeficitSeverity(I, r, p) ==
  IF Rank(p[2].gate) = NoGate /\ Floor(I, r, LayerOf(p[1])) >= Authz THEN "CRITICAL" ELSE "HIGH"

LEMMA DeficitFacts ==
  ASSUME NEW I, NEW r
  PROVE  /\ \A f \in Deficits(I, r) : \E p \in ByteBranches(I, r) :
              /\ Rank(p[2].gate) < Floor(I, r, LayerOf(p[1]))
              /\ \E rule \in {"R2", "R5"} :
                   f = Finding(rule, DeficitSeverity(I, r, p), r, p[1].id, p[2].id)
         /\ \A p \in ByteBranches(I, r) : Rank(p[2].gate) < Floor(I, r, LayerOf(p[1])) =>
              \E rule \in {"R2", "R5"} :
                Finding(rule, DeficitSeverity(I, r, p), r, p[1].id, p[2].id) \in Deficits(I, r)
<1> DEFINE floor == [L \in {LayerOf(s) : s \in NetSinks(I, r)} |-> Floor(I, r, L)]
           Rule(L) == IF ResolveSets(I, r, L, floor[L]) THEN "R5" ELSE "R2"
           Severity(rank, L) ==
             IF rank = NoGate /\ floor[L] >= Authz THEN "CRITICAL" ELSE "HIGH"
           Weaker == {p \in ByteBranches(I, r) : Rank(p[2].gate) < floor[LayerOf(p[1])]}
<1>1. Deficits(I, r) = { Finding(Rule(LayerOf(p[1])), Severity(Rank(p[2].gate), LayerOf(p[1])),
                                 r, p[1].id, p[2].id) : p \in Weaker }
  BY DEF Deficits
<1>2. \A p \in ByteBranches(I, r) : floor[LayerOf(p[1])] = Floor(I, r, LayerOf(p[1]))
  BY DEF ByteBranches
<1>3. \A L : Rule(L) \in {"R2", "R5"}
  OBVIOUS
<1> HIDE DEF floor, Rule
<1>4. \A p \in ByteBranches(I, r) :
        Severity(Rank(p[2].gate), LayerOf(p[1])) = DeficitSeverity(I, r, p)
  BY <1>2 DEF DeficitSeverity
<1>5. \A p : p \in Weaker <=> /\ p \in ByteBranches(I, r)
                              /\ Rank(p[2].gate) < Floor(I, r, LayerOf(p[1]))
  BY <1>2
<1> HIDE DEF Severity, Weaker
<1> QED
  BY <1>1, <1>3, <1>4, <1>5

LEMMA FindingType ==
  ASSUME NEW I, NEW f \in Findings(I)
  PROVE  /\ f = [rule |-> f.rule, severity |-> f.severity, resource |-> f.resource,
                 subject |-> f.subject, branch |-> f.branch]
         /\ f.rule \in {"R2", "R3", "R4", "R5", "R6"}
         /\ f.severity \in {"MEDIUM", "HIGH", "CRITICAL"}
<1>1. PICK r \in Resources(I) : f \in FindingsOf(I, r)
  BY DEF Findings
<1>2. \/ f \in Deficits(I, r) \/ f \in LocalWrites(I, r)
      \/ f \in IdentifierOnly(I, r) \/ f \in Theatre(I, r)
  BY <1>1 DEF FindingsOf
<1>3. CASE f \in Deficits(I, r)
  <2>1. PICK p \in ByteBranches(I, r) : \E rule \in {"R2", "R5"} :
          f = Finding(rule, DeficitSeverity(I, r, p), r, p[1].id, p[2].id)
    BY <1>3, DeficitFacts
  <2>2. DeficitSeverity(I, r, p) \in {"HIGH", "CRITICAL"}
    BY DEF DeficitSeverity
  <2> QED
    BY <2>1, <2>2 DEF Finding
<1>4. CASE f \in LocalWrites(I, r)
  BY <1>4 DEF LocalWrites, Finding, WriteSeverity
<1>5. CASE f \in IdentifierOnly(I, r)
  BY <1>5 DEF IdentifierOnly, Finding
<1>6. CASE f \in Theatre(I, r)
  BY <1>6 DEF Theatre, Finding
<1> QED
  BY <1>2, <1>3, <1>4, <1>5, <1>6

-----------------------------------------------------------------------------
(* The report is the reconciliation of the inventory that passed the gate,   *)
(* however many of its findings a probe refutes.                             *)
Keeps(f, g) == g.subject = f.subject /\ g.branch = f.branch /\ g.rule = f.rule

ReportOfTheInventory ==
  /\ status = "probing" => report = Findings(inv)
  /\ status \in {"probing", "done"} => ~CoverageFails(inv, world.code)
  /\ status = "done" => \A f \in Findings(inv) : \E g \in report : Keeps(f, g)

EInv == TypeOK /\ RowsOfTheCode /\ ReportOfTheInventory

LEMMA EInit == ASSUME Init PROVE EInv
BY RowsInit DEF Init, EmptyInventory, EInv, TypeOK, ReportOfTheInventory

LEMMA EStep ==
  ASSUME EInv, [Next]_vars PROVE EInv'
<1>1. RowsOfTheCode'
  BY RowsStep DEF EInv
<1>2. inv'.public = world'.public /\ world' \in Worlds
  BY <1>1 DEF RowsOfTheCode
<1> DEFINE Owed == {p.site : p \in world.code}
           Severities == {"INFO", "MEDIUM", "HIGH", "CRITICAL"}
           Rules == {"R2", "R3", "R4", "R5", "R6"}
           Typed(S) == \A f \in S : f.rule \in Rules /\ f.severity \in Severities
<1>3. UNCHANGED world
  BY DEF Next, Answer, RecordSink, RecordSurface, RecordCredential, Dismiss, HandOver, Gate,
         Attack, Probe, Finished, vars
<1>4. ASSUME UNCHANGED <<status, report>>, status = "inventory", owed' \subseteq owed
      PROVE  EInv'
  BY <1>1, <1>2, <1>3, <1>4 DEF EInv, TypeOK, ReportOfTheInventory
<1>5. CASE Answer
  <2>1. UNCHANGED <<status, report>> /\ status = "inventory" /\ owed' \subseteq owed
    BY <1>5 DEF Answer, RecordSink, RecordCredential, Dismiss
  <2> QED
    BY <1>4, <2>1
<1>6. CASE \E f \in world.surfaces : \E m \in ReadingsNow : RecordSurface(f, m)
  <2>1. UNCHANGED <<status, report>> /\ status = "inventory" /\ owed' \subseteq owed
    BY <1>6 DEF RecordSurface
  <2> QED
    BY <1>4, <2>1
<1>7. CASE HandOver
  BY <1>1, <1>2, <1>7 DEF HandOver, EInv, TypeOK, ReportOfTheInventory
<1>8. CASE Gate
  <2>1. /\ status = "gate" /\ report' = Findings(inv) /\ UNCHANGED <<world, inv>>
        /\ status' = IF CoverageFails(inv, world.code) THEN "inventory" ELSE "probing"
    BY <1>8 DEF Gate
  <2>2. owed' \subseteq Owed'
    <3>1. Unaccounted(inv, world.code) \subseteq Owed
      BY DEF Unaccounted, Candidates
    <3>2. \A t \in world.sinks : t.site \in Owed
      BY WorldAssumption DEF EInv, RowsOfTheCode
    <3>3. owed' \subseteq Owed
      BY <1>8, <3>1, <3>2 DEF Gate
    <3> QED
      BY <1>3, <3>3
  <2>3. Typed(report')
    BY <2>1, FindingType
  <2>4. status' \in {"inventory", "probing"} /\ (status' = "probing" => ~CoverageFails(inv, world.code))
    BY <2>1
  <2>5. CoverageFails(inv, world.code)' <=> CoverageFails(inv, world.code)
    BY <2>1
  <2>6. Findings(inv)' = Findings(inv)
    BY <2>1
  <2>7. ReportOfTheInventory'
    BY <2>1, <2>4, <2>5, <2>6 DEF ReportOfTheInventory
  <2> QED
    BY <1>1, <1>2, <2>2, <2>3, <2>4, <2>7 DEF EInv, TypeOK
<1>9. CASE Attack
  <2>1. PICK refuted \in SUBSET report : Probe(refuted)
    BY <1>9 DEF Attack, kSubset
  <2> DEFINE after(f) == IF f \in refuted THEN [f EXCEPT !.severity = "INFO"] ELSE f
  <2>2. /\ status = "probing" /\ status' = "done" /\ report' = {after(f) : f \in report}
        /\ UNCHANGED <<world, inv, owed>>
    BY <2>1 DEF Probe
  <2>3. report = Findings(inv) /\ ~CoverageFails(inv, world.code)
    BY <2>2 DEF EInv, ReportOfTheInventory
  <2>4. ASSUME NEW f \in report
        PROVE  Keeps(f, after(f)) /\ after(f).rule \in Rules /\ after(f).severity \in Severities
    <3>1. /\ f = [rule |-> f.rule, severity |-> f.severity, resource |-> f.resource,
                  subject |-> f.subject, branch |-> f.branch]
          /\ f.rule \in Rules /\ f.severity \in Severities
      BY <2>3, FindingType
    <3> QED
      BY <3>1 DEF Keeps
  <2> HIDE DEF after
  <2>5. Typed(report')
    BY <2>2, <2>4
  <2>6. \A f \in Findings(inv)' : \E g \in report' : Keeps(f, g)
    BY <2>2, <2>3, <2>4
  <2>7. ~CoverageFails(inv, world.code)'
    BY <2>2, <2>3
  <2>8. ReportOfTheInventory'
    BY <2>2, <2>6, <2>7 DEF ReportOfTheInventory
  <2>9. owed' \subseteq Owed'
    BY <2>2 DEF EInv, TypeOK
  <2> QED
    BY <1>1, <1>2, <2>2, <2>5, <2>8, <2>9 DEF EInv, TypeOK
<1>10. CASE Finished \/ UNCHANGED vars
  <2>1. UNCHANGED vars
    BY <1>10 DEF Finished
  <2> QED
    BY <1>1, <2>1 DEF vars, EInv, TypeOK, ReportOfTheInventory
<1> QED
  BY <1>5, <1>6, <1>7, <1>8, <1>9, <1>10 DEF Next

LEMMA EInvariant == Spec => []EInv
<1>1. Init => EInv
  BY EInit
<1>2. EInv /\ [Next]_vars => EInv'
  BY EStep
<1> QED
  BY <1>1, <1>2, PTL DEF Spec

(* The allowlist stays the one the run started with, what the gate sends back *)
(* are sites of the code, and the report holds findings of the five rules, at *)
(* a severity they give or at the probe's INFO.                               *)
THEOREM TypeCorrect == Spec => []TypeOK
<1>1. EInv => TypeOK
  BY DEF EInv
<1> QED
  BY <1>1, EInvariant, PTL

-----------------------------------------------------------------------------
DescribedThree(row) ==
  \E g \in {row.intended} \cup {b.gate : b \in row.branches} :
    g.hint = Verified \/ (g.says = Verified /\ ~g.negated)

LEMMA RowOfRankThree ==
  ASSUME NEW row, Ranked(row), Verified \in RowRanks(row) PROVE DescribedThree(row)
<1>1. PICK g \in {row.intended} \cup {b.gate : b \in row.branches} : Rank(g) = Verified
  BY DEF RowRanks
<1>2. g \in GateText
  BY DEF Ranked
<1> QED
  BY <1>1, <1>2, RankThree DEF DescribedThree

LEMMA CheckOfRankThree ==
  ASSUME NEW c \in CredentialEntry, NEW v \in c.validation, Rank(v) = Verified
  PROVE  Verified \in {k.says : k \in c.validation}
<1>1. v \in GateText /\ v.hint = NoHint
  BY DEF CredentialEntry
<1>2. v.says = Verified
  BY <1>1 DEF Rank, KeywordRank, NoGate, Verified
<1> QED
  BY <1>2

(* Only a row or a check that somebody described raises a resource to the top *)
(* rank, however many credentials of a strong kind protect it.                *)
THEOREM EvidenceForTheCap == Spec => []CapNeedsEvidence
<1>1. ASSUME RowsOfTheCode PROVE CapNeedsEvidence
  <2> SUFFICES ASSUME NEW r \in Resources(inv), NEW L \in LayersFor(inv, r),
                      Floor(inv, r, L) = Verified
               PROVE  \/ \E row \in {w \in inv.sinks \cup inv.surfaces : w.resource = r} :
                           DescribedThree(row)
                      \/ \E c \in inv.credentials :
                           r \in c.protects /\ Verified \in {v.says : v \in c.validation}
    BY DEF CapNeedsEvidence, DescribedThree
  <2>1. RankedInventory(inv)
    BY <1>1, RowsTyped
  <2>2. NetSinks(inv, r) \subseteq {w \in inv.sinks : w.resource = r}
        /\ GatedSurfaces(inv, r) \subseteq {w \in inv.surfaces : w.resource = r}
    BY DEF NetSinks, GatedSurfaces, SinksOf, SurfacesOf
  <2>3. Verified # NoGate
    BY DEF Verified, NoGate
  <2>4. ASSUME NEW rows \in SUBSET {w \in inv.sinks \cup inv.surfaces : w.resource = r},
               RowFloor(rows, L) = Verified
        PROVE  \E row \in rows : DescribedThree(row)
    <3>1. \A row \in rows : Ranked(row)
      BY <2>1 DEF RankedInventory
    <3>2. PICK row \in rows : Verified \in RowRanks(row)
      BY <2>3, <2>4, <3>1, RowFloorFacts
    <3> QED
      BY <3>1, <3>2, RowOfRankThree
  <2>5. ASSUME NEW c \in CredentialsOf(inv, r), CredentialRank(inv, r, c) = Verified
        PROVE  \/ \E row \in {w \in inv.sinks \cup inv.surfaces : w.resource = r} :
                    DescribedThree(row)
               \/ \E k \in inv.credentials :
                    r \in k.protects /\ Verified \in {v.says : v \in k.validation}
    <3>1. \A k \in CredentialsOf(inv, r) :
            k \in inv.credentials /\ k \in CredentialEntry /\ r \in k.protects
      BY <2>1 DEF CredentialsOf, RankedInventory
    <3>2. RankThreeObserved(inv, r) \/ \E v \in c.validation : Rank(v) = Verified
      BY <2>5, <3>1, CredentialFacts
    <3>3. CASE \E k \in CredentialsOf(inv, r) : \E v \in k.validation : Rank(v) = Verified
      BY <3>1, <3>3, CheckOfRankThree
    <3>4. CASE \E row \in SinksOf(inv, r) \cup SurfacesOf(inv, r) : Verified \in RowRanks(row)
      <4>1. PICK row \in SinksOf(inv, r) \cup SurfacesOf(inv, r) : Verified \in RowRanks(row)
        BY <3>4
      <4>2. row \in {w \in inv.sinks \cup inv.surfaces : w.resource = r} /\ Ranked(row)
        BY <2>1 DEF SinksOf, SurfacesOf, RankedInventory
      <4> QED
        BY <4>1, <4>2, RowOfRankThree
    <3> QED
      BY <3>2, <3>3, <3>4 DEF RankThreeObserved
  <2>6. \/ RowFloor(NetSinks(inv, r), L) = Verified
        \/ RowFloor(GatedSurfaces(inv, r), L) = Verified
        \/ \E c \in CredentialsOf(inv, r) : CredentialRank(inv, r, c) = Verified
    BY <2>1, FloorFacts
  <2> QED
    BY <2>2, <2>4, <2>5, <2>6
<1>2. EInv => CapNeedsEvidence
  BY <1>1 DEF EInv
<1> QED
  BY <1>2, EInvariant, PTL

-----------------------------------------------------------------------------
(* A recorded row stands for the row of the code with its identifier. *)
LEMMA SinkRecorded ==
  ASSUME RowsOfTheCode, NEW s \in world.sinks, NEW w \in Recorded(s)
  PROVE  /\ w \in inv.sinks /\ w \in SinkEntry /\ Alike(w, s) /\ w.destination = s.destination
         /\ \/ w.coverage = "incomplete"
            \/ \E m \in Readings : w.branches = {ReadOf(b, m) : b \in s.branches}
<1> USE WorldAssumption DEF RowsOfTheCode
<1>1. w.id = s.id /\ s \in SinkEntry /\ s.site.line \in Int
  BY DEF Recorded
<1>2. w \in inv.sinks
  <2> SUFFICES ASSUME w \in inv.surfaces PROVE FALSE
    BY DEF Recorded
  <2>1. PICK f \in world.surfaces : \E m \in Readings : w = Described(f, m)
    OBVIOUS
  <2>2. f \in SurfaceEntry
    OBVIOUS
  <2>3. f.id = s.id
    BY <1>1, <2>1, <2>2, SurfaceReading DEF Alike
  <2>4. f = s
    BY <2>3
  <2>5. f \in world.sinks \cap world.surfaces
    BY <2>4
  <2> QED
    BY <2>5
<1>3. PICK t \in world.sinks : \E m \in Readings : \E d \in Drifts : w = SinkRow(t, m, d)
  BY <1>2
<1>4. PICK m \in Readings : \E d \in Drifts : w = SinkRow(t, m, d)
  BY <1>3
<1>5. PICK d \in Drifts : w = SinkRow(t, m, d)
  BY <1>4
<1>6. t \in SinkEntry /\ t.site.line \in Int /\ d \in Int
  BY DriftAssumption
<1>7. /\ w \in SinkEntry /\ Alike(w, t) /\ w.destination = t.destination
      /\ \/ w.coverage = "incomplete"
         \/ w.branches = {ReadOf(b, m) : b \in t.branches}
  BY <1>5, <1>6, SinkReading
<1>8. t = s
  BY <1>1, <1>7 DEF Alike
<1> QED
  BY <1>2, <1>7, <1>8

LEMMA SurfaceRecorded ==
  ASSUME RowsOfTheCode, NEW f \in world.surfaces, NEW w \in Recorded(f)
  PROVE  w \in inv.surfaces /\ w \in SurfaceEntry /\ Alike(w, f)
<1> USE WorldAssumption DEF RowsOfTheCode
<1>1. w.id = f.id
  BY DEF Recorded
<1>2. w \in inv.surfaces
  <2> SUFFICES ASSUME w \in inv.sinks PROVE FALSE
    BY DEF Recorded
  <2>1. PICK t \in world.sinks : \E m \in Readings : \E d \in Drifts : w = SinkRow(t, m, d)
    OBVIOUS
  <2>2. t \in SinkEntry /\ t.site.line \in Int
    OBVIOUS
  <2>3. t.id = f.id
    BY <1>1, <2>1, <2>2, SinkReading, DriftAssumption DEF Alike
  <2>4. t = f
    BY <2>3
  <2>5. f \in world.sinks \cap world.surfaces
    BY <2>4
  <2> QED
    BY <2>5
<1>3. PICK g \in world.surfaces : \E m \in Readings : w = Described(g, m)
  BY <1>2
<1>4. g \in SurfaceEntry
  OBVIOUS
<1>5. w \in SurfaceEntry /\ Alike(w, g)
  BY <1>3, <1>4, SurfaceReading
<1>6. g = f
  BY <1>1, <1>5 DEF Alike
<1> QED
  BY <1>2, <1>5, <1>6

LEMMA StillGateable ==
  ASSUME NEW row, NEW w, Alike(w, row), LayerOf(w) = LayerOf(row), ~Ungateable(row)
  PROVE  ~Ungateable(w)
BY DEF Alike, Ungateable

\* What the inventory holds of a gate of the code raises the floor to it.
LEMMA GateRaisesFloor ==
  ASSUME RowsOfTheCode, NEW r, NEW L, NEW g \in TrueGates(r, L),
         Recorded(g) # {}, ~Understated(g)
  PROVE  StrongestOf(g) \in Ranks /\ Floor(inv, r, L) \in Ranks
         /\ StrongestOf(g) <= Floor(inv, r, L)
<1>1. g \in world.sinks \cup world.surfaces /\ g.resource = r /\ LayerOf(g) = L
      /\ ~Ungateable(g) /\ (g \in world.sinks => g.destination = "network")
  BY DEF TrueGates
<1>2. PICK v \in Recorded(g) : LayerOf(v) = L /\ ~(Max(RowRanks(v)) < StrongestOf(g))
  BY <1>1 DEF Understated
<1>3. /\ v \in SinkEntry \cup SurfaceEntry /\ Alike(v, g)
      /\ \/ v \in inv.sinks /\ v.destination = "network"
         \/ v \in inv.surfaces
  <2>1. CASE g \in world.sinks
    BY <1>1, <2>1, SinkRecorded
  <2>2. CASE g \in world.surfaces
    BY <2>2, SurfaceRecorded
  <2> QED
    BY <1>1, <2>1, <2>2
<1>4. ~Ungateable(v) /\ v.resource = r
  BY <1>1, <1>2, <1>3, StillGateable DEF Alike
<1>5. v \in NetSinks(inv, r) \cup GatedSurfaces(inv, r)
  BY <1>3, <1>4 DEF NetSinks, GatedSurfaces, SinksOf, SurfacesOf
<1>6. Max(RowRanks(v)) \in RowRanks(v) /\ Max(RowRanks(v)) \in Ranks
  <2>1. RowRanks(v) \in SUBSET Ranks /\ RowRanks(v) # {}
    BY <1>3, RankedEntry, RowRanksType
  <2> QED
    BY <2>1, MaxRank
<1>7. StrongestOf(g) \in Ranks
  <2> DEFINE S == {g.intended.says} \cup {b.gate.says : b \in g.branches}
  <2>1. g \in SinkEntry \cup SurfaceEntry
    BY <1>1, WorldAssumption DEF RowsOfTheCode
  <2>2. S \in SUBSET Ranks /\ S # {}
    BY <2>1 DEF SinkEntry, SurfaceEntry, GuardedPath, GateText
  <2>3. StrongestOf(g) = Max(S)
    BY DEF StrongestOf
  <2> HIDE DEF S
  <2> QED
    BY <2>2, <2>3, MaxRank
<1>8. RankedInventory(inv)
  BY RowsTyped
<1>9. Max(RowRanks(v)) <= Floor(inv, r, L) /\ Floor(inv, r, L) \in Ranks
  <2> DEFINE top == Max(RowRanks(v))
             sinks == NetSinks(inv, r)
             surfaces == GatedSurfaces(inv, r)
             floor == Floor(inv, r, L)
  <2>1. sinks \subseteq inv.sinks /\ surfaces \subseteq inv.surfaces
    BY DEF NetSinks, GatedSurfaces, SinksOf, SurfacesOf
  <2>2. RowFloor(sinks, L) \in Ranks /\ (v \in sinks => top <= RowFloor(sinks, L))
    BY <1>2, <1>6, <1>8, <2>1, RowFloorFacts DEF RankedInventory
  <2>3. RowFloor(surfaces, L) \in Ranks /\ (v \in surfaces => top <= RowFloor(surfaces, L))
    BY <1>2, <1>6, <1>8, <2>1, RowFloorFacts DEF RankedInventory
  <2>4. floor \in Ranks /\ RowFloor(sinks, L) <= floor /\ RowFloor(surfaces, L) <= floor
    BY <1>8, FloorFacts
  <2>5. v \in sinks \/ v \in surfaces
    BY <1>5
  <2>6. top \in Ranks
    BY <1>6
  <2> HIDE DEF top, sinks, surfaces, floor
  <2>7. top <= floor
    BY <2>2, <2>3, <2>4, <2>5, <2>6 DEF Ranks, NoGate, Verified
  <2> QED
    BY <2>4, <2>7 DEF top, floor
<1> DEFINE top == Max(RowRanks(v))
           floor == Floor(inv, r, L)
           strongest == StrongestOf(g)
<1>10. top \in Ranks /\ floor \in Ranks /\ strongest \in Ranks /\ top <= floor /\ ~(top < strongest)
  BY <1>2, <1>6, <1>7, <1>9
<1> HIDE DEF top, floor, strongest
<1>11. strongest <= floor
  BY <1>10 DEF Ranks, NoGate, Verified
<1> QED
  BY <1>7, <1>9, <1>11 DEF strongest, floor

\* A sink without a row got past the coverage gate because something near it,
\* or a dismissal, answers for it, or because the extractor does not see it.
LEMMA UnrecordedIsOutOfSight ==
  ASSUME ReportOfTheInventory, status = "done", NEW s, Recorded(s) = {}
  PROVE  OutOfSight(s)
<1> SUFFICES ASSUME s.site \in Candidates(world.code) PROVE OutOfSight(s)
  BY DEF OutOfSight
<1>1. AccountedBy(Entries(inv), inv.dismissed, s.site)
  BY DEF ReportOfTheInventory, CoverageFails, Unaccounted, Accounted
<1>2. CASE \E d \in inv.dismissed : d.file = s.site.file /\ d.line = NoLine
  BY <1>2 DEF OutOfSight
<1>3. CASE \E e \in Entries(inv) \cup inv.dismissed : Near(e, s.site)
  <2>1. PICK e \in Entries(inv) \cup inv.dismissed : Near(e, s.site)
    BY <1>3
  <2>2. CASE e \in inv.dismissed
    BY <2>1, <2>2 DEF OutOfSight, Near
  <2>3. CASE \E w \in inv.sinks : e = w.site
    <3>1. PICK w \in inv.sinks : e = w.site
      BY <2>3
    <3>2. w.id # s.id
      BY DEF Recorded
    <3> QED
      BY <2>1, <3>1, <3>2 DEF OutOfSight
  <2>4. CASE \E c \in inv.credentials : e \in c.writers \cup c.readers
    BY <2>1, <2>4 DEF OutOfSight
  <2> QED
    BY <2>2, <2>3, <2>4 DEF Entries
<1> QED
  BY <1>1, <1>2, <1>3 DEF AccountedBy

(* A branch behind too weak a gate is missed only where the inventory is wrong *)
(* in a way that can be named.                                                 *)
THEOREM NoMissUnexplained == Spec => []MissesExplained
<1>1. ASSUME RowsOfTheCode, ReportOfTheInventory PROVE MissesExplained
  <2> SUFFICES ASSUME status = "done", NEW s \in world.sinks, NEW b \in s.branches, b.bytes,
                      NEW g \in TrueGates(s.resource, LayerOf(s)),
                      s \in TrueGates(s.resource, LayerOf(s)),
                      StrongestOf(g) > b.gate.says,
                      ~(Recorded(s) = {} /\ OutOfSight(s)),
                      \A w \in Recorded(s) :
                        /\ LayerOf(w) = LayerOf(s)
                        /\ \A x \in w.branches : x.id = b.id => ~(Rank(x.gate) > b.gate.says),
                      Recorded(g) # {}, ~Understated(g)
               PROVE  Reported(s.id, b.id)
    BY DEF MissesExplained
  <2> DEFINE r == s.resource
             L == LayerOf(s)
  <2>1. s \in SinkEntry /\ b \in GuardedPath /\ b.gate \in GateText /\ b.gate.says \in Ranks
    BY <1>1, WorldAssumption DEF RowsOfTheCode, SinkEntry, GuardedPath, GateText
  <2>2. PICK w \in Recorded(s) : TRUE
    BY <1>1, UnrecordedIsOutOfSight
  <2>3. w \in inv.sinks /\ Alike(w, s) /\ w.destination = s.destination
    BY <1>1, SinkRecorded
  <2>4. LayerOf(w) = L
    OBVIOUS
  <2>5. w \in NetSinks(inv, r)
    <3>1. ~Ungateable(s) /\ s.destination = "network"
      BY DEF TrueGates
    <3>2. ~Ungateable(w)
      BY <2>3, <2>4, <3>1, StillGateable
    <3> QED
      BY <2>3, <3>1, <3>2 DEF NetSinks, SinksOf, Alike
  <2>6. w.coverage # "incomplete"
    BY <1>1, <2>3 DEF ReportOfTheInventory, CoverageFails, InventoryDeficits
  <2>7. PICK m \in Readings : w.branches = {ReadOf(x, m) : x \in s.branches}
    BY <1>1, <2>6, SinkRecorded
  <2> DEFINE x == ReadOf(b, m)
             p == <<w, x>>
  <2>8. x \in w.branches /\ x.id = b.id /\ x.bytes /\ x.gate \in GateText
    BY <2>1, <2>7, BranchType DEF GuardedPath
  <2>9. p \in ByteBranches(inv, r) /\ p[1] = w /\ p[2] = x
    BY <2>5, <2>8 DEF ByteBranches
  <2>10. StrongestOf(g) \in Ranks /\ Floor(inv, r, L) \in Ranks
         /\ StrongestOf(g) <= Floor(inv, r, L)
    BY <1>1, GateRaisesFloor
  <2>11. Rank(x.gate) \in Ranks /\ ~(Rank(x.gate) > b.gate.says)
    BY <2>8, RankType
  <2>12. Rank(p[2].gate) < Floor(inv, r, LayerOf(p[1]))
    <3> DEFINE rank == Rank(x.gate)
               floor == Floor(inv, r, L)
               strongest == StrongestOf(g)
               says == b.gate.says
    <3>1. rank \in Ranks /\ floor \in Ranks /\ strongest \in Ranks /\ says \in Ranks
          /\ ~(rank > says) /\ strongest > says /\ strongest <= floor
      BY <2>1, <2>10, <2>11
    <3> HIDE DEF rank, floor, strongest, says
    <3>2. rank < floor
      BY <3>1 DEF Ranks, NoGate, Verified
    <3> QED
      BY <2>4, <2>9, <3>2 DEF rank, floor
  <2> HIDE DEF p, x
  <2>13. PICK rule \in {"R2", "R5"} :
           Finding(rule, DeficitSeverity(inv, r, p), r, p[1].id, p[2].id) \in Deficits(inv, r)
    BY <2>9, <2>12, DeficitFacts
  <2> DEFINE f == Finding(rule, DeficitSeverity(inv, r, p), r, p[1].id, p[2].id)
  <2>14. f.subject = s.id /\ f.branch = b.id /\ f.rule = rule
    BY <2>3, <2>8, <2>9 DEF Finding, Alike
  <2> HIDE DEF f
  <2>15. f \in Findings(inv)
    <3>1. r \in Resources(inv)
      BY <2>3 DEF Resources, Alike
    <3>2. f \in FindingsOf(inv, r)
      BY <2>13 DEF FindingsOf, f
    <3> QED
      BY <3>1, <3>2 DEF Findings
  <2>16. PICK h \in report : Keeps(f, h)
    BY <1>1, <2>15 DEF ReportOfTheInventory
  <2> QED
    BY <2>14, <2>16 DEF Keeps, Reported
<1>2. EInv => MissesExplained
  BY <1>1 DEF EInv
<1> QED
  BY <1>2, EInvariant, PTL

-----------------------------------------------------------------------------
(* One inventory contains another: rows and credentials were added to it.    *)
Within(I, J) ==
  /\ RankedInventory(I) /\ RankedInventory(J)
  /\ I.sinks \subseteq J.sinks /\ I.surfaces \subseteq J.surfaces
  /\ I.credentials \subseteq J.credentials /\ I.public = J.public

LEMMA MoreRows ==
  ASSUME NEW I, NEW J, Within(I, J), NEW r
  PROVE  /\ NetSinks(I, r) \subseteq NetSinks(J, r)
         /\ GatedSurfaces(I, r) \subseteq GatedSurfaces(J, r)
         /\ CredentialsOf(I, r) \subseteq CredentialsOf(J, r)
         /\ RankThreeObserved(I, r) => RankThreeObserved(J, r)
BY DEF Within, NetSinks, GatedSurfaces, CredentialsOf, SinksOf, SurfacesOf, RankThreeObserved

LEMMA RowFloorGrows ==
  ASSUME NEW R, NEW S, R \subseteq S, \A row \in S : Ranked(row), NEW L
  PROVE  RowFloor(R, L) <= RowFloor(S, L)
<1>1. RowFloor(R, L) \in Ranks /\ RowFloor(S, L) \in Ranks
  BY RowFloorFacts
<1>2. CASE RowFloor(R, L) = NoGate
  BY <1>1, <1>2 DEF Ranks, NoGate, Verified
<1>3. CASE RowFloor(R, L) # NoGate
  <2>1. PICK row \in R : LayerOf(row) = L /\ RowFloor(R, L) \in RowRanks(row)
    BY <1>3, RowFloorFacts
  <2> QED
    BY <2>1, RowFloorFacts
<1> QED
  BY <1>2, <1>3

LEMMA CredentialGrows ==
  ASSUME NEW I, NEW J, Within(I, J), NEW r, NEW c \in CredentialEntry
  PROVE  CredentialRank(I, r, c) <= CredentialRank(J, r, c)
<1> DEFINE old == CredentialRank(I, r, c)
           new == CredentialRank(J, r, c)
           kind == KindRank(c.kind)
<1>1. old \in Ranks /\ new \in Ranks /\ kind \in Ranks
  BY CredentialFacts, KindType
<1>2. \A v \in c.validation : Rank(v) <= new
  BY CredentialFacts
<1>3. kind <= new \/ (~RankThreeObserved(J, r) /\ Authz <= new)
  BY CredentialFacts
<1>4. \/ old = kind
      \/ old = Authz /\ Authz <= kind
      \/ \E v \in c.validation : old = Rank(v)
  BY CredentialFacts
<1>5. old = Verified => RankThreeObserved(I, r) \/ \E v \in c.validation : Rank(v) = Verified
  BY CredentialFacts
<1>6. RankThreeObserved(I, r) => RankThreeObserved(J, r)
  BY MoreRows
<1> HIDE DEF old, new, kind
<1>7. old <= new
  <2> USE DEF Ranks, NoGate, Authz, Verified
  <2>1. CASE \E v \in c.validation : old = Rank(v)
    BY <1>2, <2>1
  <2>2. CASE kind <= new
    BY <1>1, <1>2, <1>4, <2>2
  <2>3. CASE ~RankThreeObserved(J, r) /\ Authz <= new
    <3>1. old = Verified => \E v \in c.validation : old = Rank(v)
      BY <1>5, <1>6, <2>3
    <3> QED
      BY <1>1, <2>1, <2>3, <3>1
  <2> QED
    BY <1>3, <2>2, <2>3
<1> QED
  BY <1>7 DEF old, new

Placed(I, r) == {LayerOf(row) : row \in NetSinks(I, r) \cup GatedSurfaces(I, r)}

LEMMA PlacedFacts ==
  \A I, r : LayersFor(I, r) = IF Placed(I, r) = {} THEN {"http"} ELSE Placed(I, r)
BY DEF Placed, LayersFor

\* Where a row places r the floor only rises.
LEMMA FloorGrows ==
  ASSUME NEW I, NEW J, Within(I, J), NEW r, NEW L \in Placed(I, r)
  PROVE  Floor(I, r, L) <= Floor(J, r, L)
<1> DEFINE old == Floor(I, r, L)
           new == Floor(J, r, L)
<1>1. /\ NetSinks(I, r) \subseteq NetSinks(J, r)
      /\ GatedSurfaces(I, r) \subseteq GatedSurfaces(J, r)
      /\ CredentialsOf(I, r) \subseteq CredentialsOf(J, r)
  BY MoreRows
<1>2. L \in LayersFor(J, r)
  BY <1>1, PlacedFacts DEF Placed
<1>3. /\ \A row \in NetSinks(J, r) \cup GatedSurfaces(J, r) : Ranked(row)
      /\ \A c \in CredentialsOf(J, r) : c \in CredentialEntry
  BY DEF Within, RankedInventory, NetSinks, GatedSurfaces, SinksOf, SurfacesOf, CredentialsOf
<1>4. old \in Ranks /\ new \in Ranks
  BY FloorFacts DEF Within
<1>5. /\ RowFloor(NetSinks(J, r), L) <= new /\ RowFloor(GatedSurfaces(J, r), L) <= new
      /\ \A c \in CredentialsOf(J, r) : CredentialRank(J, r, c) <= new
  BY <1>2, FloorFacts DEF Within
<1>6. \/ old = RowFloor(NetSinks(I, r), L)
      \/ old = RowFloor(GatedSurfaces(I, r), L)
      \/ \E c \in CredentialsOf(I, r) : old = CredentialRank(I, r, c)
  BY FloorFacts DEF Within
<1> HIDE DEF old, new
<1> DEFINE Raised(k, n) == k <= n /\ n \in Ranks /\ n <= new
<1>7. \A k, n \in Ranks : Raised(k, n) => k <= new
  BY <1>4 DEF Ranks, NoGate, Verified
<1>8. \A rows : (\A row \in rows : Ranked(row)) => RowFloor(rows, L) \in Ranks
  BY RowFloorFacts
<1>9. CASE old = RowFloor(NetSinks(I, r), L)
  <2>1. Raised(old, RowFloor(NetSinks(J, r), L))
    BY <1>1, <1>3, <1>5, <1>8, <1>9, RowFloorGrows
  <2> QED
    BY <1>4, <1>7, <2>1 DEF old, new
<1>10. CASE old = RowFloor(GatedSurfaces(I, r), L)
  <2>1. Raised(old, RowFloor(GatedSurfaces(J, r), L))
    BY <1>1, <1>3, <1>5, <1>8, <1>10, RowFloorGrows
  <2> QED
    BY <1>4, <1>7, <2>1 DEF old, new
<1>11. CASE \E c \in CredentialsOf(I, r) : old = CredentialRank(I, r, c)
  <2>1. PICK c \in CredentialsOf(I, r) : old = CredentialRank(I, r, c)
    BY <1>11
  <2>2. c \in CredentialEntry /\ c \in CredentialsOf(J, r)
    BY <1>1, <1>3
  <2>3. Raised(old, CredentialRank(J, r, c))
    BY <1>5, <2>1, <2>2, CredentialGrows, CredentialFacts
  <2> QED
    BY <1>4, <1>7, <2>3 DEF old, new
<1> QED
  BY <1>6, <1>9, <1>10, <1>11

GatedSomewhere(I, r) == \E L \in LayersFor(I, r) : Floor(I, r, L) > NoGate

\* A gate that was observed stays observed, though the layer "http" that stands
\* in for none gives way to the first one a row names.
LEMMA GatedGrows ==
  ASSUME NEW I, NEW J, Within(I, J), NEW r, GatedSomewhere(I, r)
  PROVE  GatedSomewhere(J, r)
<1>1. PICK L \in LayersFor(I, r) : Floor(I, r, L) > NoGate
  BY DEF GatedSomewhere
<1>2. \A M : Floor(I, r, M) \in Ranks /\ Floor(J, r, M) \in Ranks
  BY FloorFacts DEF Within
<1>3. CASE L \in Placed(I, r)
  <2>1. L \in LayersFor(J, r)
    BY <1>3, MoreRows, PlacedFacts DEF Placed
  <2>2. Floor(I, r, L) <= Floor(J, r, L)
    BY <1>3, FloorGrows
  <2>3. Floor(J, r, L) > NoGate
    <3> DEFINE old == Floor(I, r, L)
               new == Floor(J, r, L)
    <3>1. old \in Ranks /\ new \in Ranks /\ old > NoGate /\ old <= new
      BY <1>1, <1>2, <2>2
    <3> HIDE DEF old, new
    <3>2. new > NoGate
      BY <3>1 DEF Ranks, NoGate, Verified
    <3> QED
      BY <3>2 DEF new
  <2> QED
    BY <2>1, <2>3 DEF GatedSomewhere
<1>4. CASE L \notin Placed(I, r)
  <2>1. NetSinks(I, r) = {} /\ GatedSurfaces(I, r) = {}
    BY <1>4, PlacedFacts DEF Placed
  <2>2. RowFloor({}, L) = NoGate
    BY RowFloorFacts
  <2>3. Floor(I, r, L) # NoGate
    BY <1>1, <1>2 DEF Ranks, NoGate, Verified
  <2>4. PICK c \in CredentialsOf(I, r) : Floor(I, r, L) = CredentialRank(I, r, c)
    BY <2>1, <2>2, <2>3, FloorFacts DEF Within
  <2>5. c \in CredentialsOf(J, r) /\ c \in CredentialEntry
    BY MoreRows DEF Within, RankedInventory, CredentialsOf
  <2>6. PICK M \in LayersFor(J, r) : TRUE
    BY PlacedFacts
  <2> DEFINE old == CredentialRank(I, r, c)
             rank == CredentialRank(J, r, c)
             new == Floor(J, r, M)
  <2>7. old \in Ranks /\ rank \in Ranks /\ new \in Ranks /\ old > NoGate
        /\ old <= rank /\ rank <= new
    BY <1>1, <1>2, <2>4, <2>5, CredentialFacts, CredentialGrows, FloorFacts DEF Within
  <2> HIDE DEF old, rank, new
  <2>8. new > NoGate
    BY <2>7 DEF Ranks, NoGate, Verified
  <2> QED
    BY <2>6, <2>8 DEF GatedSomewhere, new
<1> QED
  BY <1>3, <1>4

-----------------------------------------------------------------------------
(* A finding that answers for another one, no milder. *)
Covers(g, f) ==
  /\ g.resource = f.resource /\ g.subject = f.subject /\ g.branch = f.branch
  /\ g.rule = f.rule \/ {f.rule, g.rule} = {"R2", "R5"}
  /\ SeverityOrder[g.severity] >= SeverityOrder[f.severity]

LEMMA CoversItself ==
  ASSUME NEW I, NEW f \in Findings(I) PROVE Covers(f, f)
<1>1. f.severity \in {"MEDIUM", "HIGH", "CRITICAL"}
  BY FindingType
<1>2. SeverityOrder[f.severity] \in Int
  BY <1>1 DEF SeverityOrder
<1> QED
  BY <1>2 DEF Covers

LEMMA DeficitGrows ==
  ASSUME NEW I, NEW J, Within(I, J), NEW r, NEW f \in Deficits(I, r)
  PROVE  \E g \in Deficits(J, r) : Covers(g, f)
<1>1. PICK p \in ByteBranches(I, r) :
        /\ Rank(p[2].gate) < Floor(I, r, LayerOf(p[1]))
        /\ \E rule \in {"R2", "R5"} :
             f = Finding(rule, DeficitSeverity(I, r, p), r, p[1].id, p[2].id)
  BY DeficitFacts
<1>2. PICK rule \in {"R2", "R5"} :
        f = Finding(rule, DeficitSeverity(I, r, p), r, p[1].id, p[2].id)
  BY <1>1
<1> DEFINE L == LayerOf(p[1])
           old == Floor(I, r, L)
           new == Floor(J, r, L)
           rank == Rank(p[2].gate)
<1>3. p[1] \in NetSinks(I, r) /\ p[2] \in p[1].branches /\ p[2].bytes
      /\ p = <<p[1], p[2]>>
  BY DEF ByteBranches
<1>4. p \in ByteBranches(J, r)
  BY <1>3, MoreRows DEF ByteBranches
<1>5. old \in Ranks /\ new \in Ranks /\ rank \in Ranks /\ old <= new /\ rank < old
  <2>1. L \in Placed(I, r)
    BY <1>3 DEF Placed
  <2>2. p[2].gate \in GateText
    BY <1>3 DEF Within, RankedInventory, Ranked, NetSinks, SinksOf
  <2> QED
    BY <1>1, <2>1, <2>2, FloorGrows, FloorFacts, RankType DEF Within
<1> HIDE DEF old, new, rank
<1>6. rank < new /\ (old >= Authz => new >= Authz)
  BY <1>5 DEF Ranks, NoGate, Verified, Authz
<1>7. PICK now \in {"R2", "R5"} :
        Finding(now, DeficitSeverity(J, r, p), r, p[1].id, p[2].id) \in Deficits(J, r)
  BY <1>4, <1>6, DeficitFacts DEF rank, new
<1>8. SeverityOrder[DeficitSeverity(J, r, p)] >= SeverityOrder[DeficitSeverity(I, r, p)]
  <2> DEFINE before == DeficitSeverity(I, r, p)
             after == DeficitSeverity(J, r, p)
  <2>1. before \in {"HIGH", "CRITICAL"} /\ after \in {"HIGH", "CRITICAL"}
        /\ (before = "CRITICAL" => after = "CRITICAL")
    BY <1>6 DEF DeficitSeverity, old, new
  <2> HIDE DEF before, after
  <2>2. SeverityOrder[after] >= SeverityOrder[before]
    BY <2>1 DEF SeverityOrder
  <2> QED
    BY <2>2 DEF before, after
<1> DEFINE g == Finding(now, DeficitSeverity(J, r, p), r, p[1].id, p[2].id)
<1>9. Covers(g, f)
  BY <1>2, <1>8 DEF Finding, Covers
<1> QED
  BY <1>7, <1>9

LEMMA WriteGrows ==
  ASSUME NEW I, NEW J, Within(I, J), NEW r, NEW f \in LocalWrites(I, r)
  PROVE  \E g \in LocalWrites(J, r) : Covers(g, f)
<1> DEFINE sensitive == r \notin I.public
<1>1. PICK s \in SinksOf(I, r) :
        /\ s.destination # "network"
        /\ f = Finding("R6", WriteSeverity(I, s, sensitive), r, s.id, "write")
        /\ f.severity # "none"
  BY DEF LocalWrites
<1>2. s \in SinksOf(J, r) /\ sensitive = (r \notin J.public)
  BY DEF Within, SinksOf
<1>3. CarriesCredential(I, s) => CarriesCredential(J, s)
  BY DEF Within, CarriesCredential
<1> HIDE DEF sensitive
<1> DEFINE before == WriteSeverity(I, s, sensitive)
           after == WriteSeverity(J, s, sensitive)
           g == Finding("R6", after, r, s.id, "write")
<1>4. /\ before \in {"MEDIUM", "HIGH", "CRITICAL"} /\ after \in {"MEDIUM", "HIGH", "CRITICAL"}
      /\ before = "CRITICAL" => after = "CRITICAL"
      /\ before = "HIGH" => after # "MEDIUM"
  <2>1. before # "none"
    BY <1>1 DEF Finding
  <2> QED
    BY <1>3, <2>1 DEF WriteSeverity
<1>5. SeverityOrder[after] >= SeverityOrder[before]
  <2> HIDE DEF before, after
  <2> QED
    BY <1>4 DEF SeverityOrder
<1>6. Covers(g, f)
  <2> HIDE DEF before, after
  <2>1. f = Finding("R6", before, r, s.id, "write")
    BY <1>1 DEF before
  <2> QED
    BY <1>5, <2>1 DEF Finding, Covers
<1>7. g \in LocalWrites(J, r)
  <2>1. g.severity # "none"
    <3> HIDE DEF after
    <3> QED
      BY <1>4 DEF Finding
  <2> QED
    BY <1>1, <1>2, <2>1 DEF LocalWrites
<1> QED
  BY <1>6, <1>7

LEMMA FindingsGrow ==
  ASSUME NEW I, NEW J, Within(I, J), NEW f \in Findings(I)
  PROVE  \E g \in Findings(J) : Covers(g, f)
<1>1. PICK r \in Resources(I) : f \in FindingsOf(I, r)
  BY DEF Findings
<1>2. r \in Resources(J)
  BY DEF Within, Resources
<1>3. FindingsOf(J, r) \subseteq Findings(J)
  BY <1>2 DEF Findings
<1> DEFINE sensitive == r \notin I.public
<1>4. sensitive = (r \notin J.public)
  BY DEF Within
<1>5. \/ f \in Deficits(I, r)
      \/ f \in LocalWrites(I, r)
      \/ sensitive /\ f \in IdentifierOnly(I, r)
      \/ (sensitive \/ GatedSomewhere(I, r)) /\ f \in Theatre(I, r)
  BY <1>1 DEF FindingsOf, GatedSomewhere
<1>6. CASE f \in Deficits(I, r)
  BY <1>3, <1>6, DeficitGrows DEF FindingsOf
<1>7. CASE f \in LocalWrites(I, r)
  BY <1>3, <1>7, WriteGrows DEF FindingsOf
<1>8. CASE sensitive /\ f \in IdentifierOnly(I, r)
  <2>1. ByteBranches(I, r) \subseteq ByteBranches(J, r)
    BY MoreRows DEF ByteBranches
  <2>2. f \in IdentifierOnly(J, r)
    BY <1>8, <2>1 DEF IdentifierOnly
  <2>3. f \in FindingsOf(J, r)
    BY <1>4, <1>8, <2>2 DEF FindingsOf
  <2> QED
    BY <1>3, <2>3, CoversItself
<1>9. CASE (sensitive \/ GatedSomewhere(I, r)) /\ f \in Theatre(I, r)
  <2>1. f \in Theatre(J, r)
    BY <1>9, MoreRows DEF Theatre
  <2>2. f \in FindingsOf(J, r)
    BY <1>4, <1>9, <2>1, GatedGrows DEF FindingsOf, GatedSomewhere
  <2> QED
    BY <1>3, <2>2, CoversItself
<1> QED
  BY <1>5, <1>6, <1>7, <1>8, <1>9

(* Rows and credentials can be added in any order: a finding that they gave   *)
(* stays, no milder, and at most a deficit is relabelled.                     *)
THEOREM AddingTakesNothingAway == Spec => GrowthIsMonotone
<1> DEFINE Growth == (/\ inv.sinks \subseteq inv'.sinks
                      /\ inv.surfaces \subseteq inv'.surfaces
                      /\ inv.credentials \subseteq inv'.credentials)
                     => \A f \in Findings(inv) : \E g \in Findings(inv') : Covers(g, f)
           RankedNow == RankedInventory(inv)
<1>1. ASSUME EInv, RankedNow, RankedNow', [Next]_vars PROVE Growth
  <2>1. EInv'
    BY <1>1, EStep
  <2>2. RankedInventory(inv) /\ RankedInventory(inv') /\ inv.public = world.public
        /\ inv'.public = world'.public
    BY <1>1, <2>1 DEF EInv, TypeOK
  <2>3. UNCHANGED world
    BY <1>1 DEF Next, Answer, RecordSink, RecordSurface, RecordCredential, Dismiss, HandOver,
           Gate, Attack, Probe, Finished, vars
  <2> SUFFICES ASSUME inv.sinks \subseteq inv'.sinks, inv.surfaces \subseteq inv'.surfaces,
                      inv.credentials \subseteq inv'.credentials
               PROVE  \A f \in Findings(inv) : \E g \in Findings(inv') : Covers(g, f)
    OBVIOUS
  <2>4. Within(inv, inv')
    BY <2>2, <2>3 DEF Within, RankedInventory
  <2>5. \A f \in Findings(inv) : \E g \in Findings(inv') : Covers(g, f)
    BY <2>4, FindingsGrow
  <2> QED
    BY <2>5
<1>2. EInv /\ RankedNow /\ RankedNow' /\ [Next]_vars => [Growth]_inv
  BY <1>1
<1>3. [][Growth]_inv <=> GrowthIsMonotone
  BY DEF GrowthIsMonotone, Covers
<1>4. EInv => RankedNow
  BY RowsTyped DEF EInv
<1> HIDE DEF Growth, RankedNow
<1> QED
  BY <1>2, <1>3, <1>4, EInvariant, PTL DEF Spec
=============================================================================
