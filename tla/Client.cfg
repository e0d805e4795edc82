CONSTANTS
    Chan = {c}
    Main = main
    IO = io
    Worker = {w1, w2}
    MaxMsg = 2
    None = None
SPECIFICATION Spec
INVARIANTS
    TypeOK
    NoneSleepsThroughAnswer
    AnswersAreAwaited
    WorkersWoken
    DeliveriesTakenInOrder
PROPERTIES
    MissedWhileSubscribing
    CallsReturn
    DeliveriesTaken
CHECK_DEADLOCK FALSE
