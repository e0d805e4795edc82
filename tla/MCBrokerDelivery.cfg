CONSTANTS
    Queue = {q1, q2}
    Deletable = {}
    Chan = {c1, c2}
    Conn = {k}
    ConnOf <- OneConn
    TagOf <- SameTag
    MaxMsg = 1
    MaxFail = 0
    None = None
SPECIFICATION Spec
INVARIANT SubscriptionKept
PROPERTY Delivered
CHECK_DEADLOCK FALSE
