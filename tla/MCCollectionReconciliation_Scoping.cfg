\* A file of nine lines, citations of four of them for a list that is not scoped, one restart.
CONSTANTS
  Source <- MCSource
  Words <- MCWords
  Anchored = {"select", "rls"}
  Handlers = {"list"}
  Pinned = {"list"}
  Public = {"tag"}
  Owned = {"deck"}
  Window = 1
  StatementMax = 3
  Tolerance = 1
  NoText = NoText
  NoSite = NoSite
  NoLine = NoLine
  Collections <- MCCollections
  Claims <- MCClaims
  MaxCrashes = 1
  MaxRefuted = 1
SPECIFICATION Spec
INVARIANTS
  TypeOK
  GapsExplained
  SourceIsTheAuthority
  TagsAreEarned
  IncompleteIsMarked
PROPERTIES
  ScopingSettles
\* The phase ends.
CHECK_DEADLOCK FALSE
