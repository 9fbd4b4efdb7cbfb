CONSTANTS
  MaxTime = 15
  Indefinite = 99
  Tracks <- AnyTrack
  Samples <- AnySample
SPECIFICATION Spec
PROPERTIES PresentsAsLaidOut
CHECK_DEADLOCK FALSE
