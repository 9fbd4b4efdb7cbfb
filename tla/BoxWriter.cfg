CONSTANTS
  Headers <- AnyHeaders
  Payloads = {0, 1, 3}
  Totals = {0, 1, 2, 3}
  CompactTotal = 3
  ToEnd = ToEnd
  MaxLength = 7
SPECIFICATION Spec
INVARIANTS FramesWhatWasGiven
CHECK_DEADLOCK FALSE
