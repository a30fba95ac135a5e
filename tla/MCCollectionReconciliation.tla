--------------------- MODULE MCCollectionReconciliation ---------------------
(***************************************************************************)
(* One handler file: a role check, a query that filters on a literal over  *)
(* three lines, a query bound to the session over two, a raw query scoped  *)
(* by a row-level-security setting, and a permission nothing filters by.   *)
(***************************************************************************)
EXTENDS CollectionReconciliation

W(word, place, anchored) == [word |-> word, place |-> place, anchored |-> anchored]

MCWords ==
  [ gate |-> {W("generic", "code", TRUE)},
    select |-> {W("other", "code", FALSE)},
    literal |-> {W("generic", "string", TRUE)},
    close |-> {W("caller", "line_comment", FALSE)},
    other |-> {W("generic", "code", FALSE)},
    owner |-> {W("caller", "interpolation", FALSE), W("generic", "code", FALSE)},
    rls |-> {W("guc", "string", FALSE)},
    was |-> {W("guc", "sql_comment", FALSE), W("caller", "tagged_comment", FALSE)} ]

L(text, delta, chain, mark, statement) ==
  [text |-> text, delta |-> delta, chain |-> chain, mark |-> mark, statement |-> statement]

MCSource ==
  [ list |-> << L("gate", 0, FALSE, "handler", 1),
                L("select", 0, FALSE, "none", 2),
                L("literal", 2, TRUE, "none", 2),
                L("close", -2, FALSE, "permission", 2),
                L("other", 0, FALSE, "none", 3),
                L("select", 0, FALSE, "none", 4),
                L("owner", 0, TRUE, "filter", 4),
                L("was", 0, FALSE, "handler", 5),
                L("rls", 0, FALSE, "filter", 6) >>,
    repo |-> << L("owner", 0, FALSE, "none", 1),
                L("gate", 0, FALSE, "permission", 2) >> ]

At(f, l) == [file |-> f, line |-> l]

List(id, site, entity, returns, bound, admin, decorates) ==
  [id |-> id, site |-> site, entity |-> entity, returns |-> returns, bound |-> bound,
   admin |-> admin, decorates |-> decorates, filters |-> FALSE]

Decks == List("decks", At("list", 2), "deck", "collection", FALSE, FALSE, TRUE)
Mine == List("mine", At("list", 6), "deck", "tree", TRUE, TRUE, FALSE)
Tags == List("tags", At("repo", 2), "tag", "collection", FALSE, FALSE, FALSE)

MCCollections == {Decks, Mine, Tags}

Cited(sites, texts) ==
  {[scope |-> "caller_bound", evidence |-> [site |-> s, text |-> t]] :
     s \in sites, t \in texts}

Uncited(scopes) ==
  {[scope |-> s, evidence |-> [site |-> NoSite, text |-> NoText]] : s \in scopes}

MCClaims ==
  [ c \in MCCollections |->
      CASE c = Decks -> Cited({At("list", k) : k \in {2, 3, 6, 9}} \cup {NoSite}, {NoText, "owner"})
                        \cup Cited({At("list", 2)}, {"literal"}) \cup Cited({At("list", 0)}, {"owner"})
                        \cup Uncited({"role_restricted", "unscoped", "unknown"})
        [] c = Mine -> Cited({At("list", k) : k \in {6, 7, 12}}, {"owner"})
                       \cup Cited({At("list", 6)}, {NoText})
                       \cup Uncited({"visibility_filtered", "role_restricted",
                                     "public_allowlisted"})
        [] OTHER -> Cited({At("repo", 2)}, {"gate"}) ]
=============================================================================
