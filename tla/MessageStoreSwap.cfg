CONSTANTS
    Msg = {a, b, t}
    Persistent = {a, b}
    Phantom = Phantom
    GcMinTotal = 1
    OffsetRange = 2
SPECIFICATION Spec
INVARIANT SurvivesCrash
