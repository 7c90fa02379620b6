CONSTANTS
    MaxAlloc = 5
    FirstSegment = 2
    ScratchLen = 3
    MaxSegments = 3
    Heap = {h1, h2, h3}
    Scratch = Scratch
SPECIFICATION Spec
INVARIANT ObjectsSafe
INVARIANT SegmentsStartNull
INVARIANT BlocksAccounted
PROPERTY SegmentsKept
