CONSTANTS
    Queue = {q1}
    Deletable = {q1}
    Chan = {c1, c2}
    Conn = {c1, c2}
    ConnOf <- OwnConn
    TagOf <- OwnTag
    MaxMsg = 2
    MaxFail = 1
    None = None
SPECIFICATION Spec
SYMMETRY Symmetry
INVARIANTS
    TypeOK
    OneTaskPerMessage
    SafeUnlessTainted
    SentInOrder
    ConsumersAreOpen
    SubscriptionKept
    AutoAckSettles
CHECK_DEADLOCK FALSE
