SPECIFICATION PlantedSpec
CONSTANTS
  Tables = {a}
  Planted = {a}
  System = indexes
  SystemTables <- System1
  None = None
  a = a
  b = b
  MaxKey = 2
  narrow = narrow
  other = other
  wide = wide
  cut = cut
  late = late
  huge = huge
  Vals = {narrow, wide}
  Width <- Widths
  Refused = {}
  PageSize = 5
  MaxFree = 7
  MaxLen = 8
  MaxPages = 9
  MaxSteps = 4
INVARIANT UpdatesAreAtomic
