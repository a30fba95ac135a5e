----------------------------- MODULE DeepDives -----------------------------
(***************************************************************************)
(* From the partition manifest to the umbrella marker of Phase 5: the      *)
(* coverage gate of Phase 1, the promotion of Phase 2, the fan-out of one  *)
(* sub-agent per (category, partition) pair, its retry, its recursion and  *)
(* its re-validation by the orchestrator.  Sub-agents write their findings *)
(* and their completion marker themselves; the orchestrator may die and be *)
(* resumed from the markers.                                               *)
(***************************************************************************)
EXTENDS FindingRules, PartitionCoverage, TLC

CONSTANTS Category,     \* the categories whose gate passes for this profile
          Gated,        \* the categories whose gate fails
          Tree,         \* the source files
          Manifests,    \* the partitionings Phase 1 may propose
          IgnoreFiles,  \* the contents ignore.txt may have
          Splits,       \* the splits a sub-agent may suggest: sequences of sets of globs
          Output,       \* category -> the files its sub-agent may write: sets of rows
          Check,        \* the orchestrator's invocation of the validator
          TopN, Cap,    \* deep-dive budget; sub-agents in flight
          Floor,        \* levels of recursion: 2
          Budget        \* bound of the model: pairs, crashes and lost answers

ASSUME DeepDivesAssumption ==
    /\ TopN \in Nat \ {0} /\ Cap \in Nat \ {0} /\ Floor \in Nat \ {0}
    /\ Budget \in Nat
    /\ Category \cap Gated = {}
    /\ \A ps \in Manifests : \A p \in ps : p.id = <<p.id[1]>>
    /\ Check \in Invocation

VARIABLES phase,      \* "partition", "surface", "fanout" or "done": phase-05.done is there
          ignore,     \* ignore.txt
          parts,      \* partitions.json, its splits included
          full,       \* ids of the partitions with depth "full"
          skipped,    \* phase-05-skipped.json
          queue,      \* pairs not yet invoked
          status,     \* of every pair of the list
          tries,      \* pairs invoked a second time
          file,       \* pair -> the rows in its JSONL, for the JSONLs on disk
          marker,     \* pairs with a .done file
          faults,     \* how many of them there were
          orphaned    \* history: pairs whose own .done outlived the orchestrator

vars == <<phase, ignore, parts, full, skipped, queue, status, tries,
          file, marker, faults, orphaned>>
disk == <<ignore, parts, full, skipped, file, marker>>
planning == <<phase, ignore, skipped, orphaned>>

Status == {"queued", "running", "written", "accepted", "placeholder", "deferred"}
Pair == Category \X {p.id : p \in parts}

(* The id of a part is the path of splits it came from: <<root>>, then the *)
(* category that asked and the place in its list.                          *)
Depth(id) == (Len(id) - 1) \div 2
Part(id) == CHOOSE p \in parts : p.id = id
InFlight == {u \in DOMAIN status : status[u] \in {"running", "written"}}
Deferred == {u[2] : u \in {v \in DOMAIN status : status[v] = "deferred"}}

(* The top_n partitions by risk.                                           *)
Deepest(ps) == {p.id : p \in {q \in ps : Cardinality({r \in ps : r.risk > q.risk}) < TopN}}

Init == /\ phase = "partition"
        /\ ignore = {} /\ parts = {} /\ full = {} /\ skipped = {}
        /\ queue = {} /\ status = <<>> /\ tries = {} /\ file = <<>> /\ marker = {}
        /\ faults = 0 /\ orphaned = {}

(* Phase 1 writes a manifest and runs the gate; a manifest that fails is   *)
(* replaced, or ignore.txt is.                                             *)
Partition(ps, ig) ==
    /\ phase = "partition"
    /\ ignore' = ig /\ parts' = ps /\ full' = Deepest(ps)
    /\ phase' = IF CoverageExit(ps, Considered(Tree, ig)) = 0 THEN "surface" ELSE "partition"
    /\ UNCHANGED <<skipped, queue, status, tries, file, marker, faults, orphaned>>

(* Phase 2 promotes the partitions its evidence points at, whatever the    *)
(* budget; Phase 5 computes the pair list and the skip list.               *)
Surface(promoted) ==
    /\ phase = "surface"
    /\ full' = full \cup promoted
    /\ phase' = "fanout"
    /\ skipped' = Gated \X full'
    /\ status' = [u \in Category \X full' |-> "queued"]
    /\ queue' = Category \X full'
    /\ UNCHANGED <<ignore, parts, tries, file, marker, faults, orphaned>>

(* The window is refilled from the list, whichever order the list has.     *)
NextPair == CHOOSE u \in queue : TRUE

Dispatch ==
    /\ phase = "fanout" /\ queue # {}
    /\ Cardinality(InFlight) < Cap
    /\ status' = [status EXCEPT ![NextPair] = "running"]
    /\ queue' = queue \ {NextPair}
    /\ UNCHANGED <<planning, faults, parts, full, tries, file, marker>>

(* The sub-agent writes its JSONL and its own marker.  It is told to       *)
(* validate first, without the capability rule; it may skip that.          *)
AgentWrites(u, rows) ==
    /\ status[u] = "running"
    /\ status' = [status EXCEPT ![u] = "written"]
    /\ file' = [v \in DOMAIN file \cup {u} |-> IF v = u THEN rows ELSE file[v]]
    /\ marker' = marker \cup {u}
    /\ UNCHANGED <<planning, faults, queue, parts, full, tries>>

(* Slip: the retry is not remembered.                                    *)
FailedAgain(u) == /\ status' = [status EXCEPT ![u] = "running"]
                  /\ UNCHANGED <<planning, queue, tries, parts, full, file, marker>>

(* The sub-agent is invoked once more with the errors quoted; the second   *)
(* time a placeholder is recorded.                                         *)
Failed(u) == /\ status' = [status EXCEPT ![u] = IF u \in tries THEN "placeholder" ELSE "running"]
             /\ tries' = tries \cup {u}
             /\ UNCHANGED <<planning, queue, parts, full, file, marker>>

Room == faults + Cardinality(DOMAIN status) < Budget
Fault == Room /\ faults' = faults + 1

(* The files on which the validator exits 0.                               *)
Sound == {rows \in UNION {Output[c] : c \in Category} : Passes(rows, Check)}

(* Slip: the sub-agent's own marker is believed.                         *)
ValidatedByMarker(u) == u \in marker

Validated(u) == u \in DOMAIN file /\ file[u] \in Sound

Accept(u) ==
    /\ u \in InFlight /\ Validated(u)
    /\ status' = [status EXCEPT ![u] = "accepted"]
    /\ marker' = marker \cup {u}
    /\ UNCHANGED <<planning, faults, queue, parts, full, tries, file>>

Reject(u) == u \in InFlight /\ ~Validated(u) /\ Failed(u) /\ UNCHANGED faults

(* No JSON on stdout, or the turn budget is spent.                         *)
NoAnswer(u) == Fault /\ u \in InFlight /\ Failed(u)

(* needs_recursion: the partition is deferred and its parts fan out to     *)
(* every category; below the floor a placeholder is recorded.       *)
SubParts(u, split) ==
    {[id |-> u[2] \o <<u[1], ToString(k)>>, path |-> <<>>, globs |-> split[k],
      risk |-> Part(u[2]).risk] : k \in DOMAIN split}

(* Slip: the parts fan out to the category that asked, and only to it.   *)
RecurseOneCategory(u, split) ==
    /\ status[u] = "running"
    /\ Depth(u[2]) < Floor
    /\ Room
    /\ LET subs == SubParts(u, split)
           fresh == {u[1]} \X {p.id : p \in subs}
       IN  /\ parts' = parts \cup subs
           /\ full' = full \cup {p.id : p \in subs}
           /\ status' = [v \in DOMAIN status \cup fresh |->
                  IF v \in fresh THEN "queued"
                  ELSE IF v = u \/ (v[2] = u[2] /\ status[v] = "queued") THEN "deferred"
                  ELSE status[v]]
           /\ queue' = {v \in queue : v[2] # u[2]} \cup fresh
    /\ UNCHANGED <<planning, faults, tries, file, marker>>

Recurse(u, split) ==
    /\ status[u] = "running"
    /\ Depth(u[2]) < Floor
    /\ Room
    /\ LET subs == SubParts(u, split)
           fresh == Category \X {p.id : p \in subs}
       IN  /\ parts' = parts \cup subs
           /\ full' = full \cup {p.id : p \in subs}
           /\ status' = [v \in DOMAIN status \cup fresh |->
                  IF v \in fresh THEN "queued"
                  ELSE IF v = u \/ (v[2] = u[2] /\ status[v] = "queued") THEN "deferred"
                  ELSE status[v]]
           /\ queue' = {v \in queue : v[2] # u[2]} \cup fresh
    /\ UNCHANGED <<planning, faults, tries, file, marker>>

AtFloor(u) ==
    /\ status[u] = "running" /\ Depth(u[2]) = Floor
    /\ status' = [status EXCEPT ![u] = "placeholder"]
    /\ UNCHANGED <<planning, faults, queue, parts, full, tries, file, marker>>

(* The orchestrator dies; what is in flight is lost, and what is done is   *)
(* read from the markers when it is resumed.                               *)
(* Slip: a resumed phase starts over.                                    *)
ResumedAfresh(u) == IF status[u] = "deferred" THEN "deferred" ELSE "queued"

Resumed(u) == IF status[u] = "deferred" THEN "deferred"
              ELSE IF u \in marker THEN "accepted" ELSE "queued"

(* Slip: the lost pairs are not put back on the list.                    *)
CrashLosesQueue ==
    /\ phase = "fanout" /\ Fault
    /\ orphaned' = orphaned \cup {u \in marker : status[u] # "accepted"}
    /\ status' = [u \in DOMAIN status |-> Resumed(u)]
    /\ tries' = {}
    /\ UNCHANGED <<phase, queue, disk>>

Crash ==
    /\ phase = "fanout" /\ Fault
    /\ orphaned' = orphaned \cup {u \in marker : status[u] # "accepted"}
    /\ status' = [u \in DOMAIN status |-> Resumed(u)]
    /\ queue' = {u \in DOMAIN status : Resumed(u) = "queued"}
    /\ tries' = {}
    /\ UNCHANGED <<phase, disk>>

(* Step D: every pair has its .done file or its placeholder.               *)
Finish ==
    /\ phase = "fanout"
    /\ \A u \in DOMAIN status : \/ status[u] = "accepted" /\ u \in marker
                                \/ status[u] \in {"placeholder", "deferred"}
    /\ phase' = "done"
    /\ UNCHANGED <<disk, queue, status, tries, faults, orphaned>>

Handle(u) == \/ \E rows \in Output[u[1]] : AgentWrites(u, rows)
             \/ Accept(u) \/ Reject(u) \/ NoAnswer(u) \/ AtFloor(u)
             \/ \E split \in Splits : Recurse(u, split)

Next == \/ \E ps \in Manifests, ig \in IgnoreFiles : Partition(ps, ig)
        \/ \E promoted \in SUBSET ({p.id : p \in parts} \ full) : Surface(promoted)
        \/ Dispatch
        \/ \E u \in DOMAIN status : Handle(u)
        \/ Crash
        \/ Finish

Spec == Init /\ [][Next]_vars

(* The orchestrator keeps its window filled and finishes; a sub-agent      *)
(* returns or runs out of turns.                                           *)
FairSpec == /\ Spec
            /\ WF_vars(Dispatch)
            /\ WF_vars(\E u \in DOMAIN status : Handle(u))
            /\ WF_vars(Finish)
-----------------------------------------------------------------------------
TypeOK ==
    /\ phase \in {"partition", "surface", "fanout", "done"}
    /\ ignore \in IgnoreFiles \cup {{}}
    /\ full \subseteq {p.id : p \in parts}
    /\ skipped \subseteq Gated \X full
    /\ \A u \in DOMAIN status : u \in Pair /\ status[u] \in Status
    /\ DOMAIN file \subseteq DOMAIN status /\ marker \subseteq DOMAIN file
    /\ queue = {u \in DOMAIN status : status[u] = "queued"}
    /\ tries \subseteq DOMAIN status /\ orphaned \subseteq marker
    /\ Cardinality(InFlight) <= Cap

(* Whose findings the report carries for a file in a category.             *)
Scope(id) == {f \in Considered(Tree, ignore) :
                 \E g \in GlobsOf(Part(id)) : GlobMatches(g, f)}
Answered(f, c) == \E id \in full : /\ f \in Scope(id) /\ <<c, id>> \in DOMAIN status
                                   /\ status[<<c, id>>] \in {"accepted", "placeholder"}

PartsOf(id) == {sub \in full : Len(sub) = Len(id) + 2 /\ SubSeq(sub, 1, Len(id)) = id}

(* When Phase 5 ends, a source file nobody looked at in a category has a   *)
(* reason on record: it lies on the cut line of the budget, a split left   *)
(* it out, or its partition claims it by path and not by paths_included.   *)
UnexaminedExplained ==
    phase = "done" =>
      \A f \in Considered(Tree, ignore), c \in Category :
        \/ Answered(f, c)
        \/ \E p \in parts : p.id \notin full /\ Owns(p, f)
        \/ \E id \in Deferred : f \in Scope(id) /\ \A sub \in PartsOf(id) : f \notin Scope(sub)
        \/ \E p \in parts : Owns(p, f) /\ f \notin Scope(p.id)

(* Rows the orchestrator's validator would refuse are accepted only from a *)
(* sub-agent whose own marker outlived a crash of the orchestrator.        *)
UnvettedNeedsACrash ==
    \A u \in DOMAIN status :
        status[u] = "accepted" /\ file[u] \notin Sound => u \in orphaned

(* The answer of a pair that was accepted is never overwritten or redone,  *)
(* whatever is retried, split or resumed: the writes stay disjoint.        *)
AcceptedStays ==
    [][\A u \in DOMAIN status : status[u] = "accepted" =>
          u \in DOMAIN status' /\ status'[u] = "accepted" /\ file'[u] = file[u]]_vars

(* The fan-out always ends with the umbrella marker, through retries,      *)
(* splits, sub-agents that hang and crashes.                              *)
FanoutFinishes == phase = "fanout" ~> phase = "done"
=============================================================================
