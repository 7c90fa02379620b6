CONSTANTS
    MaxU29 = 31
    MaxU16 = 15
    U8 = 4
    TraversalLimit = 4
    NestingLimit = 2
    Messages <- MCMessages
    Indexes = {0, 1, 7, 30}
SPECIFICATION Spec
INVARIANT InBounds
INVARIANT LimitPays
INVARIANT DepthLimited
CHECK_DEADLOCK FALSE
