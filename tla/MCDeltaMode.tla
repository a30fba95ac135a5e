----------------------------- MODULE MCDeltaMode -----------------------------
(***************************************************************************)
(* Three partitions in a chain of shared keystones, listed against the     *)
(* order the chain would be followed in.                                   *)
(***************************************************************************)
EXTENDS DeltaMode

InWeb == {"handler", "helper", "session", "lock"}
InJobs == {"task", "db"}
MCFile == InWeb \cup InJobs \cup {"util"}

MCPartitionOf ==
  [f \in MCFile |-> CASE f \in InWeb -> "web" [] f \in InJobs -> "jobs" [] OTHER -> "api"]

MCFileCount == [p \in {"web", "api", "jobs"} |-> IF p = "api" THEN 4 ELSE 10]

MCSurfaces == {[handler |-> "handler", registration |-> "util"]}

MCKeystones == << [path |-> "db", partitions |-> {"api", "jobs"}],
                  [path |-> "session", partitions |-> {"web"}],
                  [path |-> "util", partitions |-> {"web", "api"}] >>

Found(id, file, category, high, causes) ==
  [id |-> id, file |-> file, category |-> category, high |-> high, causes |-> causes]

MCIssue ==
  { Found(1, "helper", "local", TRUE, {"helper", "db", "task"}),
    Found(2, "handler", "auth", TRUE, {"handler", "session"}),
    Found(3, "task", "auth", TRUE, {"task", "util"}),
    Found(4, "helper", "egress", TRUE, {"helper"}),
    Found(5, "helper", "scanner", FALSE, {"helper", "lock"}) }
=============================================================================
