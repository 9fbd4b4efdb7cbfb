CONSTANTS
  MaxCount = 2
  CompactReach = 3
  MaxPosition = 20
  MaxCall = 2
  MaxSamples = 3
  MaxTime = 30
  Indefinite = 99
  Origins <- AnyOrigins
  Movies <- AnyMovie
  OtherTables <- AnyTable
  Picks <- AnyPick
  Lates = {0, 1}
  Gaps = {0, 1}
SPECIFICATION Spec
INVARIANTS PresentedAsGiven ReadAsStated
CHECK_DEADLOCK FALSE
