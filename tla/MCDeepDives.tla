---------------------------- MODULE MCDeepDives ----------------------------
(* Two categories, one of them with the capability rule, and a gated one;  *)
(* a tree of four files; sub-agents that write a sound row or one without  *)
(* a capability.                                                           *)
EXTENDS DeepDives

MCWild == {<<"*.ts", "a.ts">>, <<"*.ts", "b.ts">>, <<"*.ts", "d.ts">>}
MCProbes == {<<"a", "b", "c", "d.ts">>, <<"x", "y.py">>,
             <<"zz", "qq", "rr", "ss", "tt.go">>, <<"top.rb">>}
UserA == <<"api", "users", "a.ts">>
UserB == <<"api", "users", "b.ts">>
Tool == <<"tool", "a.ts">>
Old == <<"tool", "old", "a.ts">>
Built == <<"api", "build", "b.ts">>
MCTree == {UserA, UserB, Tool, Old, Built}
MCIgnoreFiles == {{[glob |-> <<"tool", "old">>, dir |-> TRUE]}}

P(id, path, globs, risk) == [id |-> <<id>>, path |-> path, globs |-> globs, risk |-> risk]
MCManifests ==
    { {P("api", <<"api">>, {<<"api", "users", "a.ts">>}, 5), P("tool", <<"tool">>, {}, 3)},
      {P("api", <<>>, {<<"api", "**">>}, 5)},
      {P("api", <<>>, {<<"api", "**">>}, 5), P("rest", <<>>, {<<"**", "*.ts">>}, 2)},
      {P("api", <<>>, {<<"api", "**">>}, 5), P("rest", <<>>, {<<"*", "**">>}, 2)},
      {P("repo", <<>>, {<<"**">>}, 2)} }
MCSplits == { <<{<<"*", "users", "a.ts">>, <<"tool", "**">>}>> }

Row == [json |-> TRUE, complete |-> TRUE, typed |-> TRUE, cweKnown |-> TRUE,
        id |-> "r1", category |-> "auth", severity |-> "HIGH", attacked |-> "not_attempted",
        declares |-> TRUE, pre |-> {}, post |-> {"knows:any_deck_id"}, annexed |-> NoParent,
        class |-> "agent_judgement", siblings |-> "swept", scoped |-> FALSE,
        fix |-> "cited", reach |-> "reachable"]
MCOutput == [c \in {"auth", "crypto"} |->
                IF c = "auth" THEN { {Row}, {[Row EXCEPT !.post = {}]} } ELSE { {} }]
MCCheck == [lib |-> TRUE, cats |-> {"auth"}, discipline |-> TRUE]
===============================================================================
