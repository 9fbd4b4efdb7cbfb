CONSTANTS
  MaxPosition = 7
  Tracks = {1, 2}
  Scripts <- EarlierInFile
  HeldLocationCount = 4
  SampleBytes = 4
  HeldBytes = 3
  FileLength = 6
  Blank = Blank
SPECIFICATION CallerSpec
PROPERTIES Gathers
CHECK_DEADLOCK FALSE
