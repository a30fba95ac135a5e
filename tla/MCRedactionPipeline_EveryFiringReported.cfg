SPECIFICATION Spec
CONSTANTS
    Len = 4
    LastOfLine = {2, 4}
    File <- MCFile
    Late = {"late"}
    Own = {"a", "late"}
    Reports <- MCReports
    Prose <- MCProse
    Carried <- MCCarried
    MaxFaults = 1
INVARIANT
    EveryFiringReported
CHECK_DEADLOCK FALSE
