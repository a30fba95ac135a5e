SPECIFICATION Spec
CONSTANTS
    Issue <- MCIssue
    LastLine = 2
    Alike <- MCAlike
    DriftTolerance = 1
    RangeTolerance = 0
    MaxAge = 1
    Heuristic = {}
    StrictClosure = TRUE
    Ratings = {1, 3}
    Chainable = {1}
    Remedies <- Answers
    OwnDates = {0, 2}
    FirstBaselines <- ZonelessBaselines
    Faults = {"abort", "clone"}
    MaxRuns = 4
PROPERTIES
    NothingRots
    PersistedWasJudged
\* The bound on the audits ends every behaviour.
CHECK_DEADLOCK FALSE
