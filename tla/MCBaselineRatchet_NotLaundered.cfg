SPECIFICATION Spec
CONSTANTS
    Issue <- MCIssue
    LastLine = 2
    Alike <- MCAlike
    DriftTolerance = 1
    RangeTolerance = 0
    MaxAge = 1
    Heuristic = {}
    StrictClosure = FALSE
    Ratings = {1, 3}
    Chainable = {}
    Remedies <- OneRemedy
    OwnDates = {0}
    FirstBaselines <- ZonelessBaselines
    Faults = {}
    MaxRuns = 4
PROPERTY
    NotLaundered
\* The bound on the audits ends every behaviour.
CHECK_DEADLOCK FALSE
