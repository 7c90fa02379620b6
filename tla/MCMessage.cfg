CONSTANTS
    MaxU29 = 4
    MaxU16 = 1
    U8 = 4
    SegmentLen = 3
    Data <- MCData
    Sources <- MCSources
    Clients <- MCClients
    MaxCaps = 1
    Strict = TRUE
SPECIFICATION MCSpec
VIEW Contents
INVARIANT NothingShared
INVARIANT UnusedIsNull
INVARIANT CapsHeldOnce
INVARIANT SizeIsWhatIsHeld
INVARIANT EqualWhenSame
PROPERTY TreeSpec
CHECK_DEADLOCK FALSE
