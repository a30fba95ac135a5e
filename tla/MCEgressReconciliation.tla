----------------------- MODULE MCEgressReconciliation -----------------------
(***************************************************************************)
(* Seven small programs around one resource, a deck: a share link beside   *)
(* the gated branch, two handlers in one file, a browser component, a hook *)
(* that writes a token where the repository says, a public resource, and a *)
(* worker.                                                                 *)
(***************************************************************************)
EXTENDS EgressReconciliation

MCFiles == {"api", "view", "job", "hook"}
MCPathLayer == [f \in MCFiles |-> CASE f = "api" -> "http" [] f = "view" -> "browser"
                                    [] f = "job" -> "worker" [] OTHER -> "cli"]
MCDrifts == {0, Tolerance}
MCReadings == {"faithful", "vague", "hinted", "partial", "untyped"}

At(f, l) == [file |-> f, line |-> l]
Prose(rank) == [says |-> rank, negated |-> FALSE, idOnly |-> rank = 0, hint |-> NoHint]
Branch(id, rank) == [id |-> id, bytes |-> TRUE, gate |-> Prose(rank)]

Sink(id, site, branches) ==
  [id |-> id, site |-> site, layer |-> "unset", category |-> "unset", named |-> "unset", resource |-> "deck",
   intended |-> Prose(0), branches |-> branches, destination |-> "network",
   pathControl |-> "unset", carries |-> FALSE, coverage |-> "complete"]

Write(id, site, control) ==
  [Sink(id, site, {Branch("w", 0)}) EXCEPT !.destination = "local_fs", !.pathControl = control]

Surface(id, site, category, rank, emits) ==
  [id |-> id, site |-> site, layer |-> "unset", category |-> category, named |-> "unset", resource |-> "deck",
   intended |-> Prose(rank), branches |-> {}, emits |-> emits]

Credential(kind, writers, readers) ==
  [name |-> kind, kind |-> kind, protects |-> {"deck"}, writers |-> writers,
   readers |-> readers, validation |-> {}]

Anchored(site, shape, cred) == [site |-> site, shape |-> shape, namesCredential |-> cred]

Program(sinks, surfaces, credentials, noise, public) ==
  [sinks |-> sinks, surfaces |-> surfaces, credentials |-> credentials, public |-> public,
   code |-> {Anchored(s.site, IF s.destination = "network" THEN "egress" ELSE "fs_write", TRUE) :
               s \in sinks}
            \cup {Anchored(w, "credential", TRUE) : w \in UNION {c.writers : c \in credentials}}
            \cup noise]

Gated == Sink("gated", At("api", 30), {Branch("session", 2)})
Shared == Sink("shared", At("api", 30), {Branch("session", 3), Branch("link", 0)})
Sibling(line) == Sink("sibling", At("api", line), {Branch("list", 1)})
Button == Sink("button", At("view", 25), {Branch("click", 0)})
Export == [Sink("export", At("job", 28), {Branch("csv", 1)}) EXCEPT !.layer = "worker"]
Resolve == Surface("resolve", At("api", 70), "rest", 3, FALSE)
Cron == Surface("cron", At("job", 23), "scheduler", 2, TRUE)

Checked == [Credential("capability", {At("api", 100)}, {At("api", 30)})
                    EXCEPT !.validation = {Prose(3)}]

MCWorlds ==
  { Program({Shared}, {Resolve}, {Credential("capability", {At("api", 100)}, {})}, {}, {}),
    Program({Gated, Sibling(40)}, {}, {}, {Anchored(At("api", 80), "egress", FALSE)}, {}),
    Program({Gated, Sibling(65)}, {}, {Credential("jwt", {At("api", 100)}, {At("api", 30)})}, {}, {}),
    Program({Gated, Button}, {Resolve}, {}, {Anchored(At("hook", 29), "fs_write", FALSE)}, {}),
    Program({Gated, Write("hook", At("hook", 27), "repo")}, {},
            {Credential("api_key", {At("hook", 27)}, {At("api", 30)})}, {}, {}),
    Program({Sink("open", At("api", 30), {Branch("get", 0)})}, {},
            {Checked}, {}, {"deck"}),
    Program({Gated, Export}, {Cron}, {}, {Anchored(At("job", 60), "other", FALSE)}, {}) }
=============================================================================
