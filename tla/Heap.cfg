SPECIFICATION PlantedSpec
CONSTANTS
  Tables = {a, b}
  Planted = {a, b}
  System = indexes
  SystemTables <- System1
  None = None
  a = a
  b = b
  MaxKey = 2
  narrow = narrow
  other = other
  wide = wide
  cut = cut
  late = late
  huge = huge
  Vals = {narrow, other, wide, cut, late, huge}
  Width <- Widths
  Refused <- SomeRefused
  PageSize = 5
  MaxFree = 7
  MaxLen = 8
  MaxPages = 9
  MaxSteps = 4
INVARIANTS
  ChainsApart
  ScanIsTable
  HintsAreRight
  LookupsSeeRows
  IndexesRecorded
PROPERTIES
  OneTableOnly
