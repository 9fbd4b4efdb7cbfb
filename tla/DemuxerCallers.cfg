CONSTANTS
  MaxPosition = 40
  Tracks = {1, 2}
  None = None
  Blank = Blank
  SampleCount = 3
  LeniencyCount = 1
  IdentifiedCount = 2
  UnresolvedCount = 3
  SegmentIndexCount = 1
  SubsegmentCount = 1
  CompressedBoxCount = 2
  PayloadBytes = 2
  HeldLocationCount = 4
  SampleBytes = 2
  HeldBytes = 2
  PieceBytes = 15
  Files <- AnyFile
  SeekingFiles <- FilesToSeek
  PassedFiles <- FilesToPass
SPECIFICATION CallerSpec
INVARIANTS TakenTrue InOrderLocated CompleteAtEnd NeverRefused KeepsItsInput ReadsAll
PROPERTIES GoesBackToLocated Stops
