---------------------------- MODULE SiteCoverage ----------------------------
(***************************************************************************)
(* The line-scoped accounting that both inventory gates of Phase 6 use     *)
(* (lib/validate-egress.py, lib/validate-collection-scoping.py).  A site   *)
(* is a file and a line, or NoLine.                                        *)
(***************************************************************************)
EXTENDS Integers

CONSTANTS Tolerance,   \* _COVERAGE_LINE_TOLERANCE
          NoLine

ASSUME ToleranceAssumption == Tolerance \in Nat

SameLine(a, b) == a = b

Near(a, b) ==
  a.file = b.file /\ a.line # NoLine /\ b.line # NoLine
                  /\ a.line - b.line \in -Tolerance..Tolerance

AccountedByEntries(entries, dismissed, c) == \E e \in entries : Near(e, c)

\* A dismissal without a line covers its file; an entry without one covers nothing.
AccountedBy(entries, dismissed, c) ==
  \/ \E d \in dismissed : d.file = c.file /\ d.line = NoLine
  \/ \E e \in entries \cup dismissed : Near(e, c)
=============================================================================
