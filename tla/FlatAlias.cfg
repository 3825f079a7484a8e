SPECIFICATION FlatLoopSpec
CONSTANTS
    Loops <- TwoAppends
    Aliased = TRUE
    StartCaps = {0, 3}
    IntMax = 4
    FillMin = 2
    LenBound = 4
INVARIANT AccessesInBlock
CHECK_DEADLOCK FALSE
