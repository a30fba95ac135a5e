\* Two edits and two audits, either of which may refresh the baseline.
CONSTANTS
  File <- MCFile
  PartitionOf <- MCPartitionOf
  FileCount <- MCFileCount
  Surfaces <- MCSurfaces
  Keystones <- MCKeystones
  Manifest = {}
  Lockfile = {"lock"}
  Config = {}
  Ignored = {}
  Issue <- MCIssue
  MaxEdits = 2
  MaxAudits = 2
SPECIFICATION Spec
INVARIANTS
  TypeOK
  LossExplained
  GhostExplained
PROPERTIES
  HighIsNotForgotten
\* The bounds on edits and audits end every behaviour.
CHECK_DEADLOCK FALSE
