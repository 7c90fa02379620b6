CONSTANTS
    chA = chA
    chB = chB
    chC = chC
    s1 = s1
    s2 = s2
    Channels = {chA, chB, chC}
    Addr <- MCAddr
    None = None
    Error = Error
    Senders = {s1, s2}
    Home <- HomeAB
    MaxSends = 2
    EventItems <- SecondOfS2
    CanFinish <- NoItems
    Forwards <- Ring
    CanClose = {}
    CanDrop = {}
    CanTryRecv = {chA}
    CloseBatch = 1
    RTasks = {t1}
SPECIFICATION Spec
INVARIANT SenderOrderKept
INVARIANT NothingLostOrDuplicated
INVARIANT LocksAcyclic
CHECK_DEADLOCK FALSE
