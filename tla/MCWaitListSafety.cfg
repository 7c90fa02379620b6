CONSTANTS
    Waiters = {w1, w2, w3}
    Tasks = {t1, t2}
    NoTask = NoTask
    NumWakers = 1
    WaiterKind = "Recv"
    Outcomes = {"SET", "SEND_CLOSED"}
    OtherFlags = {"RECV_CLOSED"}
    WakersPanic = TRUE
SPECIFICATION Spec
SYMMETRY WaiterSymmetry
INVARIANT TypeOK
INVARIANT NoDanglingNode
INVARIANT GuardOutlivesList
PROPERTY AnswersAreFinal
CHECK_DEADLOCK FALSE
