\* Routes, chains and prose: combinations of three rows, and up to four gate runs over each.
SPECIFICATION FairSpec
CONSTANTS
    N = 3
    Capability <- MCCapability
    CrownJewels <- MCCrownJewels
    SensitiveObjects <- MCSensitiveObjects
    Persona <- MCPersona
    Holds <- MCHolds
    Unprivileged <- MCUnprivileged
    Corpora <- MCCorpora
INVARIANTS
    TypeOK
    HistoryExplains
    PublishedIsSettled
    SuppressionJustified
    ChainSeverityAgrees
    NoOverEscalation
PROPERTIES
    ImplementsContract
    Converges
