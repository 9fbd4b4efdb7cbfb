CONSTANTS
  Structures <- EveryStructure
  Calls <- MCCalls
  Tracks = {1, 2}
  EditStart <- OneEdited
  HeaderBytes = 1
  PayloadBytes = 1
  CompactTotal = 4
  DataReach = 9
  ReferenceReach = 8
  TickReach = 2
  SequenceNumbers = 3
  HeldLocationCount = 3
  MaxSamples = 4
  MaxPending = 2
  MaxLost = 2
  None = None
  NoEdit = NoEdit
SPECIFICATION Spec
INVARIANTS EndToEnd AllKept IndexesPoint
PROPERTIES ImplementsRecording OverwritesFree RefusedOnlyLoses
CHECK_DEADLOCK FALSE
