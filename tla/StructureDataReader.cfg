CONSTANTS
  MaxPosition = 40
  Tracks = {1, 2}
  None = None
  SampleCount = 3
  LeniencyCount = 1
  IdentifiedCount = 2
  UnresolvedCount = 2
  SegmentIndexCount = 1
  SubsegmentCount = 1
  CompressedBoxCount = 2
  Files <- AnyFile
  BackOverImda = FALSE
SPECIFICATION Spec
INVARIANTS EachOnceInTime PlacesTrue RefusedForCause KeepsWhatItMet PlacesInvert
CHECK_DEADLOCK FALSE
