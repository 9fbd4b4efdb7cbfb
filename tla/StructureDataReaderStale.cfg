CONSTANTS
  MaxPosition = 40
  Tracks = {1, 2}
  None = None
  SampleCount = 3
  LeniencyCount = 1
  IdentifiedCount = 2
  UnresolvedCount = 4
  SegmentIndexCount = 1
  SubsegmentCount = 1
  CompressedBoxCount = 3
  Files <- Identified
  BackOverImda = TRUE
SPECIFICATION Spec
INVARIANT LocatedOnceTold
CHECK_DEADLOCK FALSE
