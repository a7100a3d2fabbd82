SPECIFICATION FairSpec
CONSTANTS
    MaxEvents = 3
    MaxPackets = 4
INVARIANTS
    ClosedIsLast
    AnswersBounded
    KeyUpdateSafe
    InterruptsSurface
PROPERTIES
    ClosingEnds
CHECK_DEADLOCK FALSE
