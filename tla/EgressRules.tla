---------------------------- MODULE EgressRules ----------------------------
(***************************************************************************)
(* lib/validate-egress.py: the authorized-egress reconciliation of an      *)
(* inventory that sub-agents wrote.  No state: the rules R2 to R6, the     *)
(* gate floor they compare with, and the fail-closed coverage gate.        *)
(*                                                                         *)
(* A free-text gate is the record of what the ranker can tell about it:    *)
(* the rank of its strongest keyword ("says"), whether a negation occurs,  *)
(* whether it names an identifier as the control, and the structured hint. *)
(* A path is a member of Files; PathLayer and BrowserExt give what the     *)
(* path rules and the browser-only extensions make of it.                  *)
(***************************************************************************)
EXTENDS SiteCoverage, FiniteSets, FiniteSetsExt

CONSTANTS Files,       \* paths of the audited tree
          PathLayer,   \* the layer the ordered path rules infer, or "unset"
          BrowserExt,  \* paths with a browser-only extension
          Walked,      \* paths the extractor reads: source, not skipped, not ignored
          NoHint

Layers == {"http", "browser", "cli", "worker", "build", "ipc"}

ASSUME EgressAssumption ==
  /\ PathLayer \in [Files -> Layers \cup {"unset"}]
  /\ BrowserExt \subseteq Files
  /\ Walked \subseteq Files
  /\ NoHint \notin 0..3

NoGate == 0
Authn == 1
Authz == 2
Verified == 3
Ranks == NoGate..Verified

\* A gate, a branch that takes it, and the rows of the inventory.  A path is in
\* Files; a line may be left out where the inventory allows it.
PathControls == {"fixed", "own_config", "env", "argv", "repo", "caller", "unknown", "unset"}
GateText == [says : Ranks, negated : BOOLEAN, idOnly : BOOLEAN, hint : Ranks \cup {NoHint}]
GuardedPath == [id : STRING, bytes : BOOLEAN, gate : GateText]
Site == [file : Files, line : Int \cup {NoLine}]
SinkEntry ==
  [id : STRING, site : Site, layer : Layers \cup {"unset"}, category : STRING,
   named : Layers \cup {"unset"}, resource : STRING, intended : GateText,
   branches : SUBSET GuardedPath, destination : {"network", "local_fs", "local_stdout"},
   pathControl : PathControls, carries : BOOLEAN, coverage : {"complete", "incomplete"}]
SurfaceEntry ==
  [id : STRING, site : Site, layer : Layers \cup {"unset"}, category : STRING,
   named : Layers \cup {"unset"}, resource : STRING, intended : GateText,
   branches : SUBSET GuardedPath, emits : BOOLEAN]

\* What a reader checks of a credential is prose: it carries no hint.
CredentialEntry ==
  [name : STRING, kind : STRING, protects : SUBSET STRING, writers : SUBSET Site,
   readers : SUBSET Site, validation : SUBSET {g \in GateText : g.hint = NoHint}]

KeywordRank(gate) == IF gate.negated THEN NoGate ELSE gate.says

\* gate_rank: the hint is the authority, the keywords are the fallback.
Rank(gate) == IF gate.hint # NoHint THEN gate.hint ELSE KeywordRank(gate)

CapabilityOnly(gate) == Rank(gate) = NoGate /\ (gate.negated \/ gate.idOnly)

CategoryLayer(category) ==
  CASE category \in {"scheduler", "queue_consumer"} -> "worker"
    [] category = "cli_admin" -> "cli"
    [] category \in {"desktop_ipc", "mobile_ipc"} -> "ipc"
    [] OTHER -> "unset"

\* infer_layer: the first clue that names a layer, else http.  "named" is what the
\* tokens of the partition id suggest.
LayerOf(row) ==
  LET clues == <<row.layer, CategoryLayer(row.category), PathLayer[row.site.file],
                 row.named, "http">>
  IN  clues[Min({i \in 1..5 : clues[i] \in Layers})]

\* Excluding a row takes a declaration or a browser-only file, not a directory.
Ungateable(row) ==
  /\ LayerOf(row) = "browser"
  /\ row.layer = "browser" \/ row.site.file \in BrowserExt

KindRank(kind) ==
  CASE kind \in {"capability", "signed_url", "verification"} -> Verified
    [] kind \in {"api_key", "pat", "license"} -> Authz
    [] kind \in {"session", "jwt", "cookie", "csrf"} -> Authn
    [] OTHER -> NoGate

SinksOf(inv, r) == {s \in inv.sinks : s.resource = r}
SurfacesOf(inv, r) == {f \in inv.surfaces : f.resource = r}
CredentialsOf(inv, r) == {c \in inv.credentials : r \in c.protects}

NetSinks(inv, r) ==
  {s \in SinksOf(inv, r) : s.destination = "network" /\ ~Ungateable(s)}
GatedSurfaces(inv, r) == {f \in SurfacesOf(inv, r) : ~Ungateable(f)}

RowRanks(row) == {Rank(row.intended)} \cup {Rank(b.gate) : b \in row.branches}

\* Is a rank-3 control described anywhere for r?  A credential kind is no evidence.
RankThreeObserved(inv, r) ==
  \/ \E row \in SinksOf(inv, r) \cup SurfacesOf(inv, r) : Verified \in RowRanks(row)
  \/ \E c \in CredentialsOf(inv, r) : \E v \in c.validation : Rank(v) = Verified

UncappedRank(inv, r, c) == Max({KindRank(c.kind)} \cup {Rank(v) : v \in c.validation})

CredentialRank(inv, r, c) ==
  LET kind == IF RankThreeObserved(inv, r) THEN KindRank(c.kind)
                                           ELSE Min({KindRank(c.kind), Authz})
  IN  Max({kind} \cup {Rank(v) : v \in c.validation})

\* layers_for_r: http when no sink or surface places r.
LayersFor(inv, r) ==
  LET placed == {LayerOf(row) : row \in NetSinks(inv, r) \cup GatedSurfaces(inv, r)}
  IN  IF placed = {} THEN {"http"} ELSE placed

RowFloor(rows, L) ==
  Max({NoGate} \cup UNION {RowRanks(row) : row \in {w \in rows : LayerOf(w) = L}})

FloorOfSinks(inv, r, L) ==
  Max({RowFloor(NetSinks(inv, r), L)}
      \cup {CredentialRank(inv, r, c) :
              c \in IF L \in LayersFor(inv, r) THEN CredentialsOf(inv, r) ELSE {}})

FloorLastWins(inv, r, L) ==
  LET surfaces == {f \in GatedSurfaces(inv, r) : LayerOf(f) = L}
  IN  IF surfaces # {} THEN RowFloor(surfaces, L)
                       ELSE RowFloor(NetSinks(inv, r), L)

\* The strongest gate observed for r at L.  A credential raises every layer of r.
Floor(inv, r, L) ==
  Max({RowFloor(NetSinks(inv, r), L), RowFloor(GatedSurfaces(inv, r), L)}
      \cup {CredentialRank(inv, r, c) :
              c \in IF L \in LayersFor(inv, r) THEN CredentialsOf(inv, r) ELSE {}})

\* A resolve-layer surface emits no bytes and wins ties: it makes a deficit R5.
ResolveSets(inv, r, L, floor) ==
  \E f \in GatedSurfaces(inv, r) : ~f.emits /\ LayerOf(f) = L /\ Max(RowRanks(f)) = floor

\* credential_written_by: the ledger has a writer at this sink, or one without a line.
CarriesCredential(inv, s) ==
  \/ s.carries
  \/ \E c \in inv.credentials : \E w \in c.writers :
       Near(w, s.site) \/ (w.file = s.site.file /\ NoLine \in {w.line, s.site.line})

Finding(rule, severity, r, subject, branch) ==
  [rule |-> rule, severity |-> severity, resource |-> r, subject |-> subject,
   branch |-> branch]

\* _byte_branches of the sinks that face a caller.
ByteBranches(inv, r) ==
  { p \in NetSinks(inv, r) \X UNION {s.branches : s \in NetSinks(inv, r)} :
      p[2] \in p[1].branches /\ p[2].bytes }

\* R2 and R5: a byte branch weaker than the floor of its own layer.
Deficits(inv, r) ==
  LET floor == [L \in {LayerOf(s) : s \in NetSinks(inv, r)} |-> Floor(inv, r, L)]
      Weaker == {p \in ByteBranches(inv, r) : Rank(p[2].gate) < floor[LayerOf(p[1])]}
      Rule(L) == IF ResolveSets(inv, r, L, floor[L]) THEN "R5" ELSE "R2"
      Severity(rank, L) ==
        IF rank = NoGate /\ floor[L] >= Authz THEN "CRITICAL" ELSE "HIGH"
  IN  { Finding(Rule(LayerOf(p[1])), Severity(Rank(p[2].gate), LayerOf(p[1])),
                r, p[1].id, p[2].id) : p \in Weaker }

\* R3: bytes of a sensitive resource on knowledge of an identifier alone.
IdentifierOnly(inv, r) ==
  { Finding("R3", "HIGH", r, p[1].id, p[2].id) :
    p \in {q \in ByteBranches(inv, r) : CapabilityOnly(q[2].gate)} }

\* R6: bytes that stay on the machine; who chooses the path decides.
WriteSeverity(inv, s, sensitive) ==
  CASE s.destination = "local_stdout" \/ s.pathControl \in {"unset", "unknown"}
         -> IF CarriesCredential(inv, s) THEN "MEDIUM" ELSE "none"
    [] s.pathControl \in {"fixed", "own_config"} -> "none"
    [] OTHER -> IF CarriesCredential(inv, s) THEN "CRITICAL"
                ELSE IF sensitive THEN "HIGH" ELSE "none"

LocalWrites(inv, r) ==
  { f \in { Finding("R6", WriteSeverity(inv, s, r \notin inv.public), r, s.id, "write") :
              s \in {t \in SinksOf(inv, r) : t.destination # "network"} } :
      f.severity # "none" }

\* R4: a credential that is minted and that nothing reads.
Theatre(inv, r) ==
  { Finding("R4", "HIGH", r, c.name, "mint") :
      c \in {d \in CredentialsOf(inv, r) : d.writers # {} /\ d.readers = {}} }

Resources(inv) ==
  {s.resource : s \in inv.sinks} \cup UNION {c.protects : c \in inv.credentials}

\* One round of the loop over resources; what is not on the allowlist is sensitive.
FindingsOf(inv, r) ==
  LET sensitive == r \notin inv.public
      gated == \E L \in LayersFor(inv, r) : Floor(inv, r, L) > NoGate
  IN  Deficits(inv, r) \cup LocalWrites(inv, r)
      \cup (IF sensitive THEN IdentifierOnly(inv, r) ELSE {})
      \cup (IF sensitive \/ gated THEN Theatre(inv, r) ELSE {})

\* reconcile.
Findings(inv) == UNION {FindingsOf(inv, r) : r \in Resources(inv)}

\* extract_candidates: a file write counts only when its line names a credential.
Candidates(code) ==
  { p.site : p \in { q \in code : q.site.file \in Walked /\ q.shape # "other"
                                  /\ (q.shape = "fs_write" => q.namesCredential) } }

Entries(inv) ==
  {s.site : s \in inv.sinks} \cup UNION {c.writers \cup c.readers : c \in inv.credentials}

Accounted(inv, c) == AccountedBy(Entries(inv), inv.dismissed, c)

Unaccounted(inv, code) == {c \in Candidates(code) : ~Accounted(inv, c)}

InventoryDeficits(inv) ==
  { s \in inv.sinks : \/ s.coverage = "incomplete"
                      \/ s.destination = "local_fs" /\ s.pathControl = "unset" }

\* The first reason to exit 1; a HIGH or CRITICAL finding is the second.
CoverageFails(inv, code) == Unaccounted(inv, code) # {} \/ InventoryDeficits(inv) # {}
=============================================================================
