CONSTANTS
    Msg = {a, b, c, d, e, t}
    Persistent = {a, b, c, d, e}
    Phantom = Phantom
    GcMinTotal = 1
    OffsetRange = 4
SPECIFICATION Spec
INVARIANTS
    TypeOK
    OwnRecord
    IndexMatchesFile
    AckedStaysGone
    GarbageBounded
    SurvivesOutsideSwap
PROPERTY ImplementsAckQueue
SYMMETRY Symmetry
