CONSTANTS
  MovieBytes = 3
  BoxCount = 4
  CompactReach = 9
  MaxPosition = 40
  Files <- AnyFile
SPECIFICATION Spec
INVARIANTS KeepsEveryByte OffsetsFollow RefusedForCause
PROPERTIES Ends
CHECK_DEADLOCK FALSE
