CONSTANTS
    Word = {a, b}
    Star = Star
    Hash = Hash
    MaxLen = 3
SPECIFICATION Spec
INVARIANT OnlyMatchesRouted
CHECK_DEADLOCK FALSE
