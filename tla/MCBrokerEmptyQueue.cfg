CONSTANTS
    Queue = {q1}
    Deletable = {q1}
    Chan = {c1, c2}
    Conn = {c1, c2}
    ConnOf <- OwnConn
    TagOf <- OwnTag
    MaxMsg = 1
    MaxFail = 0
    None = None
SPECIFICATION Spec
INVARIANT EmptyQueueHandled
CHECK_DEADLOCK FALSE
