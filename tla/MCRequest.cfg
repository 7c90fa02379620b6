CONSTANTS
    Builders = {b1, b2}
    Keys = {k1}
    MaxReceivers = 2
    MaxChannels = 3
    MaxHandles = 2
    NoChannel = NoChannel
SPECIFICATION FairSpec
INVARIANT FinishedIffNoReceivers
 
INVARIANT NoChannelStranded
INVARIANT ResolvedInOrder
PROPERTY EventuallyResolved
CHECK_DEADLOCK FALSE
