---------------------------- MODULE FindingRules ----------------------------
(***************************************************************************)
(* lib/validate-findings.py as operators: what a JSONL file of findings is *)
(* refused for.  A row is a record:                                        *)
(*   json      it parses            complete  it has the required fields   *)
(*   typed     it satisfies the rest of the JSON schema                    *)
(*   cweKnown  its CWE is in the map                                       *)
(*   id, category, severity (the effective one), attacked                  *)
(*   pre, post the capability lists; declares: `preconditions` is present  *)
(*   annexed   the id of the parent it is folded into, or NoParent         *)
(*   class     its evidence class                                          *)
(*   siblings  "absent", "unpatterned" or "swept"                          *)
(*   scoped    it names a refutation scope                                 *)
(*   fix       "none", "unrated", "inferred", "cited" or "uncited": the    *)
(*             last two are `verified` with and without a cited line       *)
(*   reach     "reachable", "cited" or "uncited"                           *)
(* An error is a pair of the row's id and the rule it breaks.              *)
(***************************************************************************)
EXTENDS Naturals

CONSTANTS NoParent,      \* `annexed_to` is missing or empty
          CapGrammar     \* the capability tokens the grammar accepts

(* An invocation: `lib` says that jsonschema is installed, `cats` is the   *)
(* list of --require-capabilities, `discipline` the flag of that name.     *)
Invocation == [lib : BOOLEAN, cats : SUBSET STRING, discipline : BOOLEAN]

CapabilityErrors(row, cats) ==
    IF row.category \notin cats \/ row.attacked = "refuted"
    THEN {}
    ELSE { rule \in {"preconditions missing", "postconditions empty", "grammar"} :
             \/ rule = "preconditions missing" /\ ~row.declares
             \/ rule = "postconditions empty" /\ row.post = {}
             \/ rule = "grammar" /\ ~(row.pre \cup row.post \subseteq CapGrammar) }

(* The obligations of a row that stands on its own.                        *)
ObligationErrors(row) ==
    { rule \in {"sibling sweep", "sibling pattern", "refutation scope",
                "fix unrated", "fix uncited", "unreachable uncited"} :
        \/ rule = "sibling sweep"    /\ row.severity \in {"CRITICAL", "HIGH"}
                                     /\ row.siblings = "absent"
        \/ rule = "sibling pattern"  /\ row.severity \in {"CRITICAL", "HIGH"}
                                     /\ row.siblings = "unpatterned"
        \/ rule = "refutation scope" /\ row.attacked = "refuted" /\ ~row.scoped
        \/ rule = "fix unrated"      /\ row.fix = "unrated"
        \/ rule = "fix uncited"      /\ row.fix = "uncited"
        \/ rule = "unreachable uncited" /\ row.reach = "uncited" }

(* An annexed row is exempt: its parent carries the obligations.  The      *)
(* parent has only to be an id of the same file.                           *)
EvidenceErrors(row, known) ==
    IF row.annexed = NoParent THEN ObligationErrors(row)
    ELSE IF row.annexed \notin known THEN {"dangling parent"}
    ELSE IF row.class # "heuristic_inventory" THEN {"judgement annexed"}
    ELSE {}

KnownIds(file) == {row.id : row \in {r \in file : r.json}}

(* With jsonschema the whole schema is checked, without it only the        *)
(* presence of the required fields.                                        *)
SchemaErrors(row, lib) ==
    (IF row.complete THEN {} ELSE {"required field"})
      \cup (IF lib /\ ~row.typed THEN {"schema"} ELSE {})
      \cup (IF row.cweKnown THEN {} ELSE {"cwe"})

RowErrors(row, file, inv) ==
    IF ~row.json THEN {"parse"}
    ELSE SchemaErrors(row, inv.lib)
           \cup CapabilityErrors(row, inv.cats)
           \cup (IF inv.discipline THEN EvidenceErrors(row, KnownIds(file)) ELSE {})

Errors(file, inv) == UNION {{row.id} \X RowErrors(row, file, inv) : row \in file}

(* The exit status is 0 exactly for a file without an error.               *)
Passes(file, inv) == Errors(file, inv) = {}
=============================================================================
