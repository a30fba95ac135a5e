--------------------------- MODULE CapabilityGraph ---------------------------
(***************************************************************************)
(* The capability arithmetic of compose-attack-paths.py: which capability  *)
(* satisfies which, which findings a persona can walk (compose), and which *)
(* of those carry the chain to a crown jewel (contributing_slice).         *)
(*                                                                         *)
(* A capability is what split_cap leaves of its string: a verb, a scope    *)
(* and an object; normalisation has already happened.  A corpus is the     *)
(* part of a findings file the composer never writes back.  The operators  *)
(* take the corpus C as a parameter, so they are constant-level.           *)
(***************************************************************************)
EXTENDS Naturals, FiniteSets

CONSTANTS
    N,                  \* findings loaded, in file order
    Capability,         \* the normalised capabilities in play
    CrownJewels,        \* profile.capability_lexicon.crown_jewels
    SensitiveObjects,   \* objects the built-in jewel patterns name under reads
    Persona,            \* profile.capability_lexicon.personas
    Holds,              \* the capabilities each persona starts with
    Unprivileged,       \* profile.capability_lexicon.unprivileged
    Corpora             \* the findings files under study

Finding == 1..N

(* SEV: INFO < LOW < MEDIUM < HIGH < CRITICAL *)
Sev == 0..4
INFO == 0
HIGH == 3
CRITICAL == 4

ReachabilityStates ==
    {"reachable", "gated_by_runtime_flag", "structurally_unreachable"}

Row == [severity : Sev,                       \* as the analyst asserted it
        pre      : SUBSET Capability,
        post     : SUBSET Capability,
        prose    : SUBSET Finding,            \* findings its chain prose names
        annexed  : BOOLEAN,
        state    : ReachabilityStates,
        cite     : BOOLEAN]

ASSUME CorporaAssumption == Corpora \subseteq [Finding -> Row]
ASSUME LexiconAssumption == /\ N \in Nat
                            /\ Unprivileged \subseteq Persona
                            /\ Holds \in [Persona -> SUBSET Capability]
-----------------------------------------------------------------------------
(* Exact match, or scope `any` standing for a narrower scope of the same   *)
(* verb and object.  No other implication.                                 *)
Satisfies(have, need) ==
    \/ have = need
    \/ /\ have.verb = need.verb
       /\ have.object = need.object
       /\ have.object # ""
       /\ have.scope = "any"
       /\ need.scope # "any"

SatisfiedBy(need, held) == \E have \in held : Satisfies(have, need)

(* The explicit list, or one of the built-in patterns. *)
IsJewel(c) ==
    \/ c \in CrownJewels
    \/ c.verb \in {"escalates", "impersonates", "executes"}
    \/ c.verb \in {"writes", "deletes"} /\ c.scope = "any" /\ c.object # ""
    \/ c.verb = "reads" /\ c.scope = "any" /\ c.object \in SensitiveObjects
    \/ c.verb = "reads" /\ c.scope = "cross_tenant" /\ c.object # ""

(* An annexed row is a leg of another finding and never enters the graph. *)
InGraph(C, f) == ~C[f].annexed

Tagged(C) == {f \in Finding : InGraph(C, f) /\ C[f].pre \cup C[f].post # {}}

(* A claim of unreachability counts only with its cite. *)
SuppressionEvidence(C, f) ==
    C[f].state = "structurally_unreachable" /\ C[f].cite

UncitedUnreachable(C, f) ==
    C[f].state = "structurally_unreachable" /\ ~C[f].cite
-----------------------------------------------------------------------------
HeldAfter(C, walked, held0) == held0 \cup UNION {C[f].post : f \in walked}

(* compose: take every finding whose preconditions are held, until none is *)
(* left to take.                                                           *)
Compose(C, S, held0) ==
    LET grow[walked \in SUBSET S] ==
          walked \cup {f \in S : \A need \in C[f].pre :
                          SatisfiedBy(need, HeldAfter(C, walked, held0))}
        walk[n \in 0..N] == IF n = 0 THEN {} ELSE grow[walk[n - 1]]
    IN  S \cap walk[N]

JewelsReached(C, walked, held0) ==
    {c \in HeldAfter(C, walked, held0) : IsJewel(c)}

(* What the slice still looks for: the jewels, and the preconditions of    *)
(* its members that the persona does not bring along.                      *)
StillNeeded(C, contrib, held0, jewels) ==
    jewels \cup {need \in UNION {C[f].pre : f \in contrib} :
                    ~SatisfiedBy(need, held0)}

(* contributing_slice: walk back from the jewels over the composed path. *)
ContributingSlice(C, path, held0, jewels) ==
    LET grow[contrib \in SUBSET path] ==
          contrib \cup {f \in path : \E have \in C[f].post :
              \E need \in StillNeeded(C, contrib, held0, jewels) :
                 Satisfies(have, need)}
        slice[n \in 0..N] == IF n = 0 THEN {} ELSE grow[slice[n - 1]]
    IN  path \cap slice[N]
-----------------------------------------------------------------------------
(* One persona of the R3 loop: what it reaches, who carries the chain, who *)
(* blocks it with a cite, and what is left once the blockers are dropped.  *)
Path(C, p) == Compose(C, Tagged(C), Holds[p])

Fires(C, p) == /\ p \in Unprivileged
               /\ Path(C, p) # {}
               /\ JewelsReached(C, Path(C, p), Holds[p]) # {}

FullSlice(C, p) ==
    ContributingSlice(C, Path(C, p), Holds[p],
                      JewelsReached(C, Path(C, p), Holds[p]))

CitingOrClaiming(C, p) ==   \* slip: an uncited claim blocks too
    {f \in FullSlice(C, p) : C[f].state = "structurally_unreachable"}

Citing(C, p) == {f \in FullSlice(C, p) : SuppressionEvidence(C, f)}

SurvivorPath(C, p) == Compose(C, Tagged(C) \ Citing(C, p), Holds[p])

SurvivorJewels(C, p) == JewelsReached(C, SurvivorPath(C, p), Holds[p])

(* Blockers stand only when no jewel is reached without the citing rows. *)
BlockersByMembership(C, p) == Citing(C, p)   \* slip: no re-composition

Blockers(C, p) == IF SurvivorJewels(C, p) # {} THEN {} ELSE Citing(C, p)

(* contrib_g after the optional re-slice over the survivors. *)
Carriers(C, p) ==
    IF Citing(C, p) # {} /\ Blockers(C, p) = {}
    THEN ContributingSlice(C, SurvivorPath(C, p), Holds[p], SurvivorJewels(C, p))
    ELSE FullSlice(C, p)

R3Raises(C, p) ==
    IF Fires(C, p) /\ Blockers(C, p) = {} THEN Carriers(C, p) ELSE {}

R3Declines(C, p) ==
    IF Fires(C, p) /\ Blockers(C, p) # {} THEN Carriers(C, p) ELSE {}
-----------------------------------------------------------------------------
(* R1: i supplies a precondition of j, both in the graph.  R2: j's chain   *)
(* prose names i, both in the graph.                                       *)
Supplies(C, i, j) ==
    /\ i # j /\ InGraph(C, i) /\ InGraph(C, j)
    /\ \E need \in C[j].pre : SatisfiedBy(need, C[i].post)

NamedBy(C, i, j) ==
    i # j /\ InGraph(C, i) /\ InGraph(C, j) /\ i \in C[j].prose
=============================================================================
