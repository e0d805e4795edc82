CONSTANTS
    Word = {a, b}
    Star = Star
    Hash = Hash
    MaxLen = 3
SPECIFICATION Spec
INVARIANTS
    NoMissedRoute
    LastWordRespected
PROPERTY Returns
CHECK_DEADLOCK FALSE
