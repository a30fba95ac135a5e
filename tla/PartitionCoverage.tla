------------------------- MODULE PartitionCoverage -------------------------
(***************************************************************************)
(* lib/validate-partition-coverage.py as operators: which source files of  *)
(* the tree belong to a partition, and when Phase 1 passes.                *)
(* A path is a sequence of segments, a glob a sequence of segments some of *)
(* which are wildcards; a partition is a record [id, path, globs] where an *)
(* empty path stands for a missing one.                                    *)
(***************************************************************************)
EXTENDS Naturals, Sequences, FiniteSets

CONSTANTS Wild,             \* <<wildcard, segment>>: "*.ts" against "a.ts"
          DefaultIgnored,   \* directory names that are never walked
          Probes            \* the four paths a catch-all is recognised by

ASSUME CoverageAssumption == Cardinality(Probes) = 4

SegmentMatches(pat, seg) == pat = "*" \/ pat = seg \/ <<pat, seg>> \in Wild

(* `**` crosses directories: before a slash it stands for any number of    *)
(* segments, at the end for at least one.                                  *)
GlobMatches(glob, path) ==
    LET m[i \in 1 .. Len(glob) + 1, j \in 1 .. Len(path) + 1] ==
          IF i > Len(glob) THEN j > Len(path)
          ELSE IF glob[i] # "**"
          THEN j <= Len(path) /\ SegmentMatches(glob[i], path[j]) /\ m[i + 1, j + 1]
          ELSE IF i = Len(glob)
          THEN j <= Len(path)
          ELSE \E k \in j .. Len(path) + 1 : m[i + 1, k]
    IN  m[1, 1]

IsCatchAll(glob) ==
    \/ glob \in {<<"**">>, <<"**", "*">>, <<"*">>}
    \/ Cardinality({p \in Probes : GlobMatches(glob, p)}) >= 3

(* An entry of ignore.txt: a glob over the whole path, the name of any     *)
(* segment, or (with a slash at its end) a directory from the root.        *)
IgnoredBy(entry, path) ==
    \/ ~entry.dir /\ GlobMatches(entry.glob, path)
    \/ entry.dir /\ Len(entry.glob) <= Len(path)
                 /\ SubSeq(path, 1, Len(entry.glob)) = entry.glob
    \/ Len(entry.glob) = 1 /\ \E i \in DOMAIN path : path[i] = entry.glob[1]

Ignored(path, ignore) ==
    \/ \E i \in DOMAIN path : path[i] \in DefaultIgnored
    \/ \E e \in ignore : IgnoredBy(e, path)

Considered(tree, ignore) == {f \in tree : ~Ignored(f, ignore)}

(* `paths_included`, or the subtree of the path in its absence; a path     *)
(* owns its subtree in any case.                                           *)
GlobsOf(p) == IF p.globs # {} THEN p.globs
              ELSE IF p.path # <<>> THEN {Append(p.path, "**")} ELSE {}

AllGlobsOf(p) == GlobsOf(p) \cup (IF p.path # <<>> THEN {Append(p.path, "**")} ELSE {})

Owns(p, f) == \E g \in AllGlobsOf(p) : GlobMatches(g, f)

Unmatched(parts, files) == {f \in files : \A p \in parts : ~Owns(p, f)}

Unanchored(g) == g[1] \in {"*", "**"} \cup {w[1] : w \in Wild}

(* A glob narrower than the probes that still swallows this repository:    *)
(* it has no literal head and its partition owns 95 % of the tree.         *)
Dominates(p, files) ==
    /\ Cardinality({f \in files : Owns(p, f)}) * 100 >= Cardinality(files) * 95
    /\ \E g \in p.globs : Unanchored(g)

CatchAlls(parts, files) ==
    {p \in parts : \/ \E g \in GlobsOf(p) : IsCatchAll(g)
                   \/ /\ files # {}
                      /\ Cardinality(parts) > 1
                      /\ Dominates(p, files)}

(* The exit status: 2 without a partition, 1 for a catch-all beside other  *)
(* partitions or for a file that belongs to none, else 0.                  *)
CoverageExit(parts, files) ==
    IF parts = {} THEN 2
    ELSE IF CatchAlls(parts, files) # {} /\ Cardinality(parts) > 1 THEN 1
    ELSE IF Unmatched(parts, files) # {} THEN 1
    ELSE 0
=============================================================================
