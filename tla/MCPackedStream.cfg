CONSTANTS
    WordBytes = 4
    MaxRun = 2
    InlineTable = 2
    MaxSegmentLen = 255
    SegmentLimit = 4
    ReadLimit = 6
    Sendings <- MCSendings
    BufSizes = {6, 9}
    ReadSizes = {1, 3, 20}
SPECIFICATION Spec
INVARIANT ReadIsWritten
 
 
CHECK_DEADLOCK FALSE
