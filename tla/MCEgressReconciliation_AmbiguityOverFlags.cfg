\* Two gates told without keywords, the stronger one floors nothing.
CONSTANTS
  Files <- MCFiles
  PathLayer <- MCPathLayer
  BrowserExt = {"view"}
  Walked = {"api", "view", "job", "hook"}
  Tolerance = 15
  NoHint = NoHint
  NoLine = NoLine
  Worlds <- MCWorlds
  Readings <- MCReadings
  Drifts <- MCDrifts
  MaxRefutations = 1
SPECIFICATION Spec
INVARIANT AmbiguityOverFlags
