CONSTANTS
    Tasks = {t1, t2, t3}
    NoTask = NoTask
SPECIFICATION FairSpec
INVARIANT WakerIsStable
INVARIANT PendingIsWoken
PROPERTY EventuallyReady
CHECK_DEADLOCK FALSE
