SPECIFICATION Spec
CONSTANTS
    Codecs <- AllCodecs
    Fills = {0, 1, 2, 3}
    Manies = {0, 1, 2}
    Reach = 8
INVARIANTS LengthTold
PROPERTIES ReadsBack ChildrenKept
CHECK_DEADLOCK FALSE
