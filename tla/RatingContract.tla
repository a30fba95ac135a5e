--------------------------- MODULE RatingContract ----------------------------
(***************************************************************************)
(* What the severity gate promises of a findings file, whatever the order  *)
(* its rules are applied in and however many runs that takes: severities   *)
(* only rise, they never rise further than the rules demand, and the file  *)
(* that is published carries exactly the least rating the rules allow.     *)
(*                                                                         *)
(* Reachability and contribution are stated here as least closed sets, not *)
(* by the loops that compute them.                                         *)
(***************************************************************************)
EXTENDS CapabilityGraph

VARIABLES corpus, severity, published

contractVars == <<corpus, severity, published>>

(* The smallest of a non-empty family of sets closed under intersection. *)
Least(family) == {x \in UNION family : \A s \in family : x \in s}

WalkableFrom(C, S, held0) ==
    Least({w \in SUBSET S :
             \A f \in S : (\A need \in C[f].pre :
                              SatisfiedBy(need, HeldAfter(C, w, held0)))
                          => f \in w})

(* f carries a chain: it supplies a jewel, or something a carrier lacks. *)
CarriersOf(C, S, held0) ==
    LET walkable == WalkableFrom(C, S, held0)
        jewels   == JewelsReached(C, walkable, held0)
    IN  Least({w \in SUBSET walkable :
                 \A f \in walkable :
                    (\E have \in C[f].post, need \in Capability :
                        /\ Satisfies(have, need)
                        /\ \/ need \in jewels
                           \/ /\ ~SatisfiedBy(need, held0)
                              /\ \E g \in w : need \in C[g].pre)
                    => f \in w})

(* The findings an unprivileged persona's chain makes CRITICAL.  A carrier *)
(* cited as unreachable is taken out first.                                *)
OnLiveChain(C, p) ==
    LET all  == CarriersOf(C, Tagged(C), Holds[p])
        live == Tagged(C) \ {f \in all : SuppressionEvidence(C, f)}
    IN  CarriersOf(C, live, Holds[p])

(* What the rules tie together, and whom an open chain forces to CRITICAL. *)
Ties(C) == {t \in Finding \X Finding :
               Supplies(C, t[1], t[2]) \/ NamedBy(C, t[1], t[2])}
Forced(C) == UNION {OnLiveChain(C, p) : p \in Unprivileged}

(* The ratings every rule is content with. *)
Contented(C) ==
    LET ties   == Ties(C)
        forced == Forced(C)
    IN  {r \in [Finding -> Sev] :
           /\ \A f \in Finding : C[f].severity <= r[f]
           /\ \A t \in ties : r[t[1]] <= r[t[2]]
           /\ \A f \in forced : r[f] = CRITICAL}

(* The least of them. *)
ComputedSeverity(C) ==
    LET contented == Contented(C)
    IN  CHOOSE r \in contented : \A q \in contented :
           \A f \in Finding : r[f] <= q[f]

-----------------------------------------------------------------------------
ContractInit ==
    /\ corpus \in Corpora
    /\ severity = [f \in Finding |-> corpus[f].severity]
    /\ published = FALSE

Raise ==
    /\ ~published
    /\ severity' # severity
    /\ severity' \in [Finding -> Sev]
    /\ LET computed == ComputedSeverity(corpus)
       IN  \A f \in Finding : /\ severity[f] <= severity'[f]
                              /\ severity'[f] <= computed[f]
    /\ UNCHANGED <<corpus, published>>

Publish ==
    /\ ~published
    /\ published' = TRUE
    /\ severity = ComputedSeverity(corpus)
    /\ UNCHANGED <<corpus, severity>>

ContractNext == Raise \/ Publish

ContractSpec == ContractInit /\ [][ContractNext]_contractVars
=============================================================================
