CONSTANTS
    Waiters = {w1, w2, w3}
    Tasks = {t1}
    NoTask = NoTask
    NumWakers = 2
    WaiterKind = "Closed"
    Outcomes = {"RECV_CLOSED"}
    OtherFlags = {"SET", "SEND_CLOSED"}
    WakersPanic = FALSE
SPECIFICATION FairSpec
INVARIANT NoLostWakeup
PROPERTY EventuallyAnswered
CHECK_DEADLOCK FALSE
