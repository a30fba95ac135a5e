SPECIFICATION FairSpec
CONSTANTS
    NoParent = NoParent
    CapGrammar = {"knows:any_deck_id"}
    Wild <- MCWild
    DefaultIgnored = {"node_modules", "build"}
    Probes <- MCProbes
    Category = {"auth", "crypto"}
    Gated = {"llm"}
    Tree <- MCTree
    Manifests <- MCManifests
    IgnoreFiles <- MCIgnoreFiles
    Splits <- MCSplits
    Output <- MCOutput
    Check <- MCCheck
    TopN = 1
    Cap = 2
    Floor = 1
    Budget = 5
INVARIANTS
    TypeOK
    UnexaminedExplained
    UnvettedNeedsACrash
PROPERTIES
    AcceptedStays
    FanoutFinishes
\* The phase ends with its umbrella marker.
CHECK_DEADLOCK FALSE
