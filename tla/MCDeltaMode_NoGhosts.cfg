\* Mended findings that a delta audit carries on and a full one would not report.
CONSTANTS
  File <- MCFile
  PartitionOf <- MCPartitionOf
  FileCount <- MCFileCount
  Surfaces <- MCSurfaces
  Keystones <- MCKeystones
  Manifest = {}
  Lockfile = {"lock"}
  Config = {}
  Ignored = {}
  Issue <- MCIssue
  MaxEdits = 2
  MaxAudits = 2
SPECIFICATION Spec
INVARIANT NoGhosts
\* The bounds on edits and audits end every behaviour.
CHECK_DEADLOCK FALSE
