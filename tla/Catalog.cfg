SPECIFICATION Spec
CONSTANTS
  System = indexes
  Views = views
  Schemas = schemas
  Triggers = triggers
  Procedures = procedures
  None = None
  Junk = Junk
  Here = Here
  MaxKey = 2
  short = short
  long = long
  cut = cut
  huge = huge
  Definitions <- Texts
  Width <- Widths
  Refused = {}
  PageSize = 6
  MaxFree = 8
  MaxLen = 9
  p = p
  q = q
  r = r
  s = s
  Paths = {p, q, r, s}
  Stem <- Stems
  MaxTables = 5
  MaxPages = 7
  MaxSteps = 4
INVARIANTS
  TypeOK
  RestartKeeps
  BackupIsWhole
CHECK_DEADLOCK FALSE
