SPECIFICATION Spec
CONSTANTS
    Issue <- MCIssue
    LastLine = 3
    Alike <- MCAlike
    DriftTolerance = 1
    RangeTolerance = 0
    MaxAge = 1
    Heuristic = {}
    StrictClosure = FALSE
    Ratings = {1, 3}
    Chainable = {1}
    Remedies <- Acceptances
    OwnDates = {0}
    FirstBaselines <- SeasonedBaselines
    Faults = {"abort"}
    MaxRuns = 4
INVARIANT
    TypeOK
PROPERTIES
    RatchetHolds
    PersistedWasJudged
\* The bound on the audits ends every behaviour.
CHECK_DEADLOCK FALSE
