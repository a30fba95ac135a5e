-------------------------- MODULE MCRedactionPipeline --------------------------
(* Two reports the audit waits for and one history scan; texts of four     *)
(* positions on two lines.                                                 *)
EXTENDS RedactionPipeline

M(s, e) == [start |-> s, end |-> e]
T(matches) == [matches |-> matches, gone |-> {}]
Nothing == [matches |-> {}, gone |-> 1..4]

Unknown    == T({})                                 \* no detector knows it
KeyBlock   == T({M(1, 5), M(1, 2)})                 \* a block and its header
Staggered  == T({M(1, 3), M(2, 4), M(3, 5)})        \* matches that run into one another
TailBehind == T({M(1, 3), M(2, 5)})                 \* a short match hides a long one

MCFile == {"a", "b", "late"}
MCProse == {Unknown, KeyBlock}
MCCarried == {TailBehind}

At(content, raw, string, aside) ==
    [s \in {"content", "raw", "string", "aside"} |->
        CASE s = "content" -> content [] s = "raw" -> raw
          [] s = "string" -> string   [] OTHER -> aside]

(* What the second report is: prose, or another tool's machine format. *)
Second == {<<"text", At(Nothing, Nothing, t, Nothing)>> :
              t \in {Staggered, TailBehind, KeyBlock}}
          \cup {<<k, At(Nothing, Unknown, TailBehind, Nothing)>> :
                  k \in {"trufflehog", "jsonl"}}
          \cup {<<"json", At(Unknown, KeyBlock, Staggered, Nothing)>>}

MCReports ==
    {[kind |-> [f \in MCFile |-> IF f = "b" THEN second[1] ELSE "sarif"],
      text |-> [f \in MCFile |->
        CASE f = "a"    -> At(Unknown, Nothing, s, TailBehind)
          [] f = "b"    -> second[2]
          [] f = "late" -> At(Unknown, Nothing, KeyBlock, Nothing)]] :
        second \in Second, s \in {Nothing, Staggered}}
===============================================================================
