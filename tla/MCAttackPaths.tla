---------------------------- MODULE MCAttackPaths ----------------------------
(***************************************************************************)
(* Small corpora for AttackPaths.  Each finding is drawn from a list of    *)
(* rows that covers one question; every combination of rows is a corpus.   *)
(***************************************************************************)
EXTENDS AttackPaths

Cap(verb, scope, object) == [verb |-> verb, scope |-> scope, object |-> object]

Authenticated == Cap("authenticated", "", "")
AnyId         == Cap("knows", "any", "deck_id")
OwnId         == Cap("knows", "own", "deck_id")
WriteAny      == Cap("writes", "any", "deck")
RunCode       == Cap("executes", "", "code")

MCCapability == {Authenticated, AnyId, OwnId, WriteAny, RunCode}
MCCrownJewels == {}
MCSensitiveObjects == {"deck_content"}
MCPersona == {"anonymous", "viewer"}
MCHolds == [p \in MCPersona |-> IF p = "viewer" THEN {Authenticated} ELSE {}]
MCUnprivileged == {"anonymous", "viewer"}

MkRow(sev, pre, post, prose, annexed, state, cite) ==
    [severity |-> sev, pre |-> pre, post |-> post, prose |-> prose,
     annexed |-> annexed, state |-> state, cite |-> cite]

(* Routes: alternative suppliers, subsumed scopes, a row that needs the    *)
(* persona's own capability, a cycle back from the jewel, two jewels.      *)
Tags == {<<{}, {AnyId}>>, <<{Authenticated}, {AnyId}>>, <<{OwnId}, {WriteAny}>>,
         <<{OwnId, Authenticated}, {RunCode}>>, <<{WriteAny}, {OwnId}>>,
         <<{}, {WriteAny}>>}

RouteRows ==
    {MkRow(IF t[1] = {} THEN 3 ELSE 1, t[1], t[2], {}, FALSE, s[1], s[2]) :
        t \in Tags, s \in {<<"reachable", FALSE>>,
                           <<"structurally_unreachable", TRUE>>}}
    \cup {MkRow(1, {OwnId}, {WriteAny}, {}, FALSE, "structurally_unreachable", FALSE),
          MkRow(1, {OwnId}, {WriteAny}, {}, FALSE, "gated_by_runtime_flag", TRUE)}

RouteCorpora == [1..3 -> RouteRows]

(* Chains of up to three legs, and a row whose prose names two others. *)
ChainRows ==
    {MkRow(2, t[1], t[2], {}, FALSE, "reachable", FALSE) :
        t \in {<<{}, {AnyId}>>, <<{OwnId}, {WriteAny}>>, <<{WriteAny}, {RunCode}>>}}
    \cup {MkRow(2, t[1], t[2], {}, FALSE, "structurally_unreachable", TRUE) :
             t \in {<<{}, {AnyId}>>, <<{OwnId}, {WriteAny}>>}}
    \cup {MkRow(0, {RunCode}, {OwnId}, {}, FALSE, "reachable", FALSE),
          MkRow(0, {}, {}, {1, 2}, FALSE, "reachable", FALSE)}

(* Mitigations and prose: supply links, chains of prose, an annexed row    *)
(* and untagged rows that only prose can move.                             *)
ProseRows ==
    {MkRow(r[1], t[1], t[2], r[2], FALSE, "reachable", FALSE) :
        r \in {<<3, {}>>, <<1, {1}>>, <<1, {2, 3}>>},
        t \in {<<{}, {}>>, <<{OwnId}, {}>>, <<{}, {AnyId}>>}}
    \cup {MkRow(3, {}, {AnyId}, {1}, TRUE, "reachable", FALSE)}

MCCorpora == RouteCorpora \cup [1..3 -> ChainRows] \cup [1..3 -> ProseRows]
=============================================================================
