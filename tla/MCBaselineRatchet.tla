-------------------------- MODULE MCBaselineRatchet --------------------------
(* Two findings of one file, up to three lines, two or three audits. *)
EXTENDS BaselineRatchet

MCIssue == {1, 2}

(* Titles of the two issues are alike enough to be taken for one another. *)
MCAlike == [i \in MCIssue |-> [k \in MCIssue |-> IF i = k THEN 2 ELSE 1]]

Record(state, owned, expiry, until, fixCommit, tested) ==
    [state |-> state, owned |-> owned, expiry |-> expiry, until |-> until,
     fixCommit |-> fixCommit, tested |-> tested]

ShortAcceptance    == Record("accepted", TRUE, "dated", 4, FALSE, FALSE)
GarbledAcceptance  == Record("accepted", TRUE, "garbled", 0, FALSE, FALSE)
ZonelessAcceptance == Record("accepted", TRUE, "zoneless", 0, FALSE, FALSE)
FixedUntested      == Record("fixed", FALSE, "absent", 0, TRUE, FALSE)

OneRemedy   == {ShortAcceptance}
Acceptances == {ShortAcceptance, GarbledAcceptance}
Answers     == {FixedUntested, ShortAcceptance}

(* Left by earlier audits: issue 1 was once accepted as LOW and is HIGH    *)
(* again, issue 2 is LOW beside it.                                        *)
SeasonedBaseline ==
    [created |-> 2, entries |-> [l \in {1, 2} |->
        [issue |-> l, lined |-> TRUE, severity |-> IF l = 1 THEN 3 ELSE 1,
         firstSeen |-> 1,
         history |-> IF l = 1 THEN {[run |-> 1, severity |-> 1, sound |-> TRUE]} ELSE {},
         lifecycle |-> Open]]]

SeasonedBaselines == {SeasonedBaseline}

(* One HIGH entry, accepted until a date that names no time zone.          *)
ZonelessBaselines ==
    {[created |-> 2, entries |->
        [l \in {1} |-> [issue |-> 1, lined |-> TRUE, severity |-> 3, firstSeen |-> 1,
                        history |-> {}, lifecycle |-> ZonelessAcceptance]]]}
==============================================================================
