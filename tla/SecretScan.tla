------------------------------ MODULE SecretScan ------------------------------
(***************************************************************************)
(* The shared detector table of secret-detectors.py, seen from its users:  *)
(* which stretches of a text its detectors match, which of the matches     *)
(* scan() keeps where they overlap, and what scrub() leaves.               *)
(*                                                                         *)
(* A text is the set of matches the detectors have in it as it was first   *)
(* written and the positions replaced by a marker since.  Text no detector *)
(* knows has no match.  A match one of whose positions is gone is gone: a  *)
(* marker is a placeholder, which no detector fires on.                    *)
(***************************************************************************)
EXTENDS Naturals, FiniteSets

CONSTANTS
    Len,            \* a text has positions 1..Len
    LastOfLine      \* the positions a line ends with

ASSUME TextAssumption == Len \in Nat /\ LastOfLine \subseteq 1..Len

Position == 1..Len
Match == {m \in [start : Position, end : 2..(Len + 1)] : m.start < m.end}
Text == [matches : SUBSET Match, gone : SUBSET Position]

Span(m) == m.start .. (m.end - 1)
Overlap(m, n) == Span(m) \cap Span(n) # {}

(* What the detectors match in the text as it is now. *)
Hits(text) == {m \in text.matches : Span(m) \cap text.gone = {}}

(* The sort key of scan(): position first, then the longest. *)
Before(m, n) == \/ m.start < n.start
                \/ m.start = n.start /\ m.end > n.end

(* scan(): in that order, a hit is dropped when one that was kept reaches  *)
(* over its start, and is kept otherwise.                                  *)
Scan(hits) == CHOOSE kept \in SUBSET hits : \A m \in hits :
    m \in kept <=> ~\E n \in kept : Before(n, m) /\ Overlap(n, m)

Redacted(text, hits) ==
    [text EXCEPT !.gone = @ \cup UNION {Span(m) : m \in Scan(hits)}]

(* scrub() of a whole text, and of one line of it at a time. *)
Scrub(text) == Redacted(text, Hits(text))
OneLine(m) == \A p \in LastOfLine : ~(m.start <= p /\ p + 1 < m.end)
ScrubLines(text) == Redacted(text, {m \in Hits(text) : OneLine(m)})
==============================================================================
