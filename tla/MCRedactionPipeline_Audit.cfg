SPECIFICATION FairSpec
CONSTANTS
    Len = 4
    LastOfLine = {2, 4}
    File <- MCFile
    Late = {"late"}
    Own = {"a", "late"}
    Reports <- MCReports
    Prose <- MCProse
    Carried <- MCCarried
    MaxFaults = 1
INVARIANTS
    TypeOK
    DeliveredIsClean
    ContentOnlyUnvetted
    LeftoverExplained
    SelfLeaksListed
    FiringReported
PROPERTIES
    Completes
\* The audit ends when the pruned baseline is written.
CHECK_DEADLOCK FALSE
