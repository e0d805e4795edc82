CONSTANTS
    Msg = {a, b, c}
    Id = {x, y, z}
    Phantom = Phantom
    NoFile = NoFile
    GcMinTotal = 1
    OffsetRange = 8
    MaxFault = 1
CHECK_DEADLOCK FALSE
SYMMETRY Symmetry
SPECIFICATION Spec
INVARIANTS
    LossExplained
    ReturnExplained
    StartsAgain
PROPERTY QuietSteps
