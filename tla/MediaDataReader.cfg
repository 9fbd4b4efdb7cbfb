CONSTANTS
  MaxPosition = 7
  Tracks = {1, 2}
  Scripts <- AnyOrder
  HeldLocationCount = 3
  SampleBytes = 5
  HeldBytes = 4
  FileLength = 5
  Blank = Blank
SPECIFICATION Spec
INVARIANTS WithinLimits MissingIsBlank NoSilentStall
PROPERTIES ImplementsQueue
CHECK_DEADLOCK FALSE
