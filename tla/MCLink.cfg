CONSTANTS
    Conn = {c1}
    Cid = {x}
    Frame <- MCFrame
    HeaderLen = 1
    MinMessageLen = 2
    MaxMessageLen = 3
    MaxSent = 3
    None = None
SPECIFICATION Spec
INVARIANTS TypeOK NothingLeftBehind
PROPERTIES ImplementsRequestStream SentIsServed
CHECK_DEADLOCK FALSE
