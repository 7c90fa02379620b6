CONSTANTS
    chA = chA
    chB = chB
    chC = chC
    s1 = s1
    s2 = s2
    Channels = {chA, chB}
    Addr <- MCAddr
    None = None
    Error = Error
    Senders = {s1, s2}
    Home <- HomeAB
    MaxSends = 2
    EventItems <- SecondOfS2
    CanFinish <- FirstOfS1
    Forwards <- OneHop
    CanClose = {chA, chB}
    CanDrop = {chB}
    CanTryRecv = {}
    CloseBatch = 1
    RTasks = {t1, t2}
SPECIFICATION Spec
INVARIANT ParentFollowsQueue
INVARIANT SleepingReceiverIsWoken
INVARIANT ClosedChannelStaysEmpty
PROPERTY DeliverySpec
CHECK_DEADLOCK FALSE
