CONSTANTS
    chA = chA
    chB = chB
    chC = chC
    s1 = s1
    s2 = s2
    Channels = {chA, chB}
    Addr <- MCAddr
    None = None
    Error = Error
    Senders = {s1, s2}
    Home <- HomeAB
    MaxSends = 2
    EventItems <- NoItems
    CanFinish <- NoItems
    Forwards <- NoForwards
    CanClose = {chA}
    CanDrop = {}
    CanTryRecv = {}
    CloseBatch = 1
    RTasks = {t1}
SPECIFICATION FairSpec
PROPERTY EventuallyHandled
CHECK_DEADLOCK FALSE
