------------------------ MODULE EgressReconciliation ------------------------
(***************************************************************************)
(* Phase 2 section 2.11 and Phase 6 section 6.19: sub-agents inventory the *)
(* egress sinks, surfaces and credentials of the code; the gate of         *)
(* validate-egress.py sends an incomplete inventory back; then every       *)
(* finding is attacked by a probe.                                         *)
(*                                                                         *)
(* The world is the audited code: the rows a faithful inventory would have,*)
(* a gate's "says" being the rank it really has.  What the agents write    *)
(* about it is a Reading of those rows, some lines off.                    *)
(***************************************************************************)
EXTENDS EgressRules

CONSTANTS Worlds,         \* the audited programs considered
          Readings,       \* ways in which an agent describes a row
          Drifts,         \* how many lines a recorded line may be off
          MaxRefutations  \* bound on the findings one probe round refutes

ASSUME WorldAssumption ==
  \A p \in Worlds :
    /\ p.sinks \subseteq SinkEntry /\ p.surfaces \subseteq SurfaceEntry
    /\ p.credentials \subseteq CredentialEntry
    /\ p.sinks \cap p.surfaces = {}
    /\ \A v, w \in p.sinks \cup p.surfaces : v.id = w.id => v = w
    /\ \A s \in p.sinks : s.site.line \in Int /\ s.site \in {q.site : q \in p.code}
ASSUME DriftAssumption == Drifts \subseteq Int

VARIABLES
  world,   \* the audited program
  inv,     \* phase-02-sinks.json, -credentials.json, -surface.json, the allowlist
  owed,    \* the sites the last failed gate listed, still to be answered
  status,  \* "inventory", "gate", "probing" or "done"
  report   \* phase-06-egress.jsonl

vars == <<world, inv, owed, status, report>>

AllowlistNotRead(public) ==
  [sinks |-> {}, surfaces |-> {}, credentials |-> {}, dismissed |-> {}, public |-> {}]

EmptyInventory(public) ==
  [sinks |-> {}, surfaces |-> {}, credentials |-> {}, dismissed |-> {}, public |-> public]

Init ==
  /\ world \in Worlds
  /\ inv = EmptyInventory(world.public)
  /\ owed = {}
  /\ status = "inventory"
  /\ report = {}

Recorded(row) == {w \in inv.sinks \cup inv.surfaces : w.id = row.id}

\* How prose renders a gate: no known keyword, a negation that is not there, a hint.
Read(gate, m) ==
  CASE m = "vague"   -> [gate EXCEPT !.says = NoGate]
    [] m = "negated" -> [gate EXCEPT !.negated = TRUE]
    [] m = "hinted"  -> [gate EXCEPT !.says = NoGate, !.hint = gate.says]
    [] OTHER         -> gate

Described(row, m) ==
  [row EXCEPT !.intended = Read(@, m),
              !.branches = {[b EXCEPT !.gate = Read(@, m)] : b \in @}]

\* "partial" admits branches it does not list; "untyped" sets no optional field.
SinkRow(s, m, drift) ==
  LET row == [Described(s, m) EXCEPT !.site.line = @ + drift]
  IN  CASE m = "partial" -> [row EXCEPT !.branches = {}, !.coverage = "incomplete"]
        [] m = "untyped" -> [row EXCEPT !.layer = "unset", !.pathControl = "unset"]
        [] OTHER -> row

\* The handler is read again, or split, after the gate sent it back.
ReadingsNow == IF owed = {} THEN Readings ELSE Readings \ {"partial", "untyped"}

RecordSink(s, m, drift) ==
  /\ status = "inventory"
  /\ s.site \in owed \/ (owed = {} /\ Recorded(s) = {})
  /\ inv' = [inv EXCEPT !.sinks = {t \in @ : t.id # s.id} \cup {SinkRow(s, m, drift)}]
  /\ owed' = owed \ {s.site}
  /\ UNCHANGED <<world, status, report>>

RecordSurface(f, m) ==
  /\ status = "inventory" /\ owed = {}
  /\ Recorded(f) = {}
  /\ inv' = [inv EXCEPT !.surfaces = @ \cup {Described(f, m)}]
  /\ UNCHANGED <<world, owed, status, report>>

RecordCredential(c) ==
  /\ status = "inventory"
  /\ c \notin inv.credentials
  /\ owed = {} \/ owed \cap (c.writers \cup c.readers) # {}
  /\ inv' = [inv EXCEPT !.credentials = @ \cup {c}]
  /\ owed' = owed \ (c.writers \cup c.readers)
  /\ UNCHANGED <<world, status, report>>

\* dismissed[]: a candidate that has no row, or its whole file.
Dismiss(c, line) ==
  /\ status = "inventory"
  /\ \A s \in world.sinks : s.site = c => Recorded(s) = {}
  /\ c \in owed \/ (owed = {} /\ ~Accounted(inv, c))
  /\ inv' = [inv EXCEPT !.dismissed = @ \cup {[c EXCEPT !.line = line]}]
  /\ owed' = {o \in owed \ {c} : ~(line = NoLine /\ o.file = c.file)}
  /\ UNCHANGED <<world, status, report>>

\* The inventory agents are done, whatever they left out.
HandOver ==
  /\ status = "inventory" /\ owed = {}
  /\ status' = "gate"
  /\ UNCHANGED <<world, inv, owed, report>>

\* Step 1.  The findings are written whatever the exit status is.
Gate ==
  /\ status = "gate"
  /\ report' = Findings(inv)
  /\ LET deficient == {s.id : s \in InventoryDeficits(inv)}
     IN  owed' = Unaccounted(inv, world.code)
                 \cup {s.site : s \in {t \in world.sinks : t.id \in deficient}}
  /\ status' = IF CoverageFails(inv, world.code) THEN "inventory" ELSE "probing"
  /\ UNCHANGED <<world, inv>>

\* Step 2.  A refuted finding stays in the file as INFO.
Probe(refuted) ==
  /\ status = "probing"
  /\ report' = {IF f \in refuted THEN [f EXCEPT !.severity = "INFO"] ELSE f : f \in report}
  /\ status' = "done"
  /\ UNCHANGED <<world, inv, owed>>

Answer ==
  \/ \E s \in world.sinks, m \in ReadingsNow, d \in Drifts : RecordSink(s, m, d)
  \/ \E c \in world.credentials : RecordCredential(c)
  \/ \E c \in Candidates(world.code), line \in {c.line : c \in Candidates(world.code)} \cup {NoLine} :
       line \in {c.line, NoLine} /\ Dismiss(c, line)

Attack ==
  \E n \in 0..MaxRefutations : \E refuted \in kSubset(n, report) : Probe(refuted)

Finished == status = "done" /\ UNCHANGED vars

Next ==
  \/ Answer
  \/ \E f \in world.surfaces, m \in ReadingsNow : RecordSurface(f, m)
  \/ HandOver
  \/ Gate
  \/ Attack
  \/ Finished

Spec == Init /\ [][Next]_vars
             /\ WF_vars(owed # {} /\ Answer) /\ WF_vars(HandOver)
             /\ WF_vars(Gate) /\ WF_vars(Attack)

-----------------------------------------------------------------------------
TypeOK ==
  /\ world \in Worlds
  /\ inv.public = world.public
  /\ owed \subseteq {p.site : p \in world.code}
  /\ status \in {"inventory", "gate", "probing", "done"}
  /\ \A f \in report :
       /\ f.rule \in {"R2", "R3", "R4", "R5", "R6"}
       /\ f.severity \in {"INFO", "MEDIUM", "HIGH", "CRITICAL"}

\* The gates the code really has for resource r at layer L.
TrueGates(r, L) ==
  { row \in world.sinks \cup world.surfaces :
      /\ row.resource = r /\ LayerOf(row) = L /\ ~Ungateable(row)
      /\ row \in world.sinks => row.destination = "network" }

StrongestOf(row) == Max({row.intended.says} \cup {b.gate.says : b \in row.branches})

\* A row that says less than the code does, or moves it to another layer.
Understated(row) ==
  \A w \in Recorded(row) : LayerOf(w) # LayerOf(row) \/ Max(RowRanks(w)) < StrongestOf(row)

Reported(subject, branch) ==
  \E f \in report : f.subject = subject /\ f.branch = branch /\ f.rule \in {"R2", "R5"}

\* The ways a sink can stay out of the inventory without failing the gate.
OutOfSight(s) ==
  \/ s.site \notin Candidates(world.code)
  \/ \E d \in inv.dismissed : d.file = s.site.file /\ (d.line = NoLine \/ Near(d, s.site))
  \/ \E w \in inv.sinks : w.id # s.id /\ Near(w.site, s.site)
  \/ \E c \in inv.credentials : \E k \in c.writers \cup c.readers : Near(k, s.site)

\* When the phase is over, every branch that emits bytes behind a gate weaker
\* than one the code has for that resource at that layer is in the report, or
\* the inventory is wrong about it in one of four ways: its sink is covered by a
\* neighbour or a dismissal, its own gate is overstated, its layer is, or every
\* stronger gate is missing or understated (validate-egress.py:933-1040).
MissesExplained ==
  status = "done" =>
    \A s \in world.sinks : \A b \in s.branches :
      (/\ b.bytes
       /\ \E g \in TrueGates(s.resource, LayerOf(s)) :
            /\ s \in TrueGates(s.resource, LayerOf(s))
            /\ StrongestOf(g) > b.gate.says)
      => \/ Reported(s.id, b.id)
         \/ Recorded(s) = {} /\ OutOfSight(s)
         \/ \E w \in Recorded(s) :
              \/ LayerOf(w) # LayerOf(s)
              \/ \E x \in w.branches : x.id = b.id /\ Rank(x.gate) > b.gate.says
         \/ \A g \in TrueGates(s.resource, LayerOf(s)) :
              StrongestOf(g) > b.gate.says => Recorded(g) = {} \/ Understated(g)

\* A rank-3 floor needs a rank-3 gate that somebody described: the kind of a
\* credential alone never raises a resource above AUTHZ (validate-egress.py:287-299).
CapNeedsEvidence ==
  \A r \in Resources(inv) : \A L \in LayersFor(inv, r) :
    Floor(inv, r, L) = Verified =>
      \/ \E row \in {w \in inv.sinks \cup inv.surfaces : w.resource = r} :
           \E g \in {row.intended} \cup {b.gate : b \in row.branches} :
             g.hint = Verified \/ (g.says = Verified /\ ~g.negated)
      \/ \E c \in inv.credentials : r \in c.protects /\ Verified \in {v.says : v \in c.validation}

SeverityOrder == [INFO |-> 0, MEDIUM |-> 1, HIGH |-> 2, CRITICAL |-> 3]

\* A row added to the inventory takes no finding away and lowers none: agents
\* can add what they find in any order (validate-egress.py:942-1002).  Only the label of a
\* deficit may move from R2 to R5.
GrowthIsMonotone ==
  [][ (/\ inv.sinks \subseteq inv'.sinks
       /\ inv.surfaces \subseteq inv'.surfaces
       /\ inv.credentials \subseteq inv'.credentials)
      => LET later == Findings(inv') IN
           \A f \in Findings(inv) : \E g \in later :
              /\ g.resource = f.resource /\ g.subject = f.subject /\ g.branch = f.branch
              /\ g.rule = f.rule \/ {f.rule, g.rule} = {"R2", "R5"}
              /\ SeverityOrder[g.severity] >= SeverityOrder[f.severity] ]_inv

\* The fail-closed coverage gate does not trap the audit: agents that answer
\* what it lists get past it (validate-egress.py:578-582, phase-06-config.md:417-419).
PhaseSettles == <>(status = "done")

\* A row that, read as the code reads it, overstates no gate and moves no layer.
Underread(w) ==
  \E row \in world.sinks \cup world.surfaces :
    /\ w.id = row.id
    /\ \A b \in row.branches : \E x \in w.branches : x.id = b.id /\ Rank(x.gate) <= b.gate.says
    /\ Rank(w.intended) <= row.intended.says
    /\ LayerOf(w) = LayerOf(row)

\* A finding of any rule counts here: R3 flags an identifier alone whatever the floor.
Flagged(subject, branch) ==
  \E f \in report : f.subject = subject /\ f.branch = branch

\* phase-06-config.md:408-415: an ambiguous gate ranks as no gate, so the tool
\* over-flags rather than misses: when every row is
\* recorded and none is overstated, no weaker branch goes without a finding.
AmbiguityOverFlags ==
  (/\ status = "done"
   /\ \A row \in world.sinks \cup world.surfaces : Recorded(row) # {}
   /\ \A w \in inv.sinks \cup inv.surfaces : Underread(w))
  => \A s \in world.sinks : \A b \in s.branches :
       (/\ b.bytes
        /\ s \in TrueGates(s.resource, LayerOf(s))
        /\ \E g \in TrueGates(s.resource, LayerOf(s)) : StrongestOf(g) > b.gate.says)
       => Flagged(s.id, b.id)
=============================================================================
