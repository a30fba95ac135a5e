\* Two agents' worth of misreadings of seven programs, with the lines fifteen off.
CONSTANTS
  Files <- MCFiles
  PathLayer <- MCPathLayer
  BrowserExt = {"view"}
  Walked = {"api", "view", "job", "hook"}
  Tolerance = 15
  NoHint = NoHint
  NoLine = NoLine
  Worlds <- MCWorlds
  Readings <- MCReadings
  Drifts <- MCDrifts
  MaxRefutations = 1
SPECIFICATION Spec
INVARIANTS
  TypeOK
  MissesExplained
  CapNeedsEvidence
PROPERTIES
  GrowthIsMonotone
  PhaseSettles
