CONSTANTS
  MaxPosition = 8
  ShortestHeader = 2
  ToEnd = ToEnd
  HeaderLengths = {2, 3}
  Totals = {1, 3, 4, 8}
  Files <- MCFiles
  Limits = {0, 1, 2}
  Heads = {0, 1, 3}
SPECIFICATION FairSpec
INVARIANTS GatheredWithinAsked GatheredIsOneRun NeverWantsSkipped
PROPERTIES ImplementsFraming NeverGoesBack Ends
CHECK_DEADLOCK FALSE
