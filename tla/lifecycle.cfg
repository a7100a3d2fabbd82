SPECIFICATION FairSpec
CONSTANTS
    Foreigners <- AnyForeigner
    EarlyClose = {TRUE, FALSE}
    PreAcceptLimit = 1
    InitialLimit = 1
    MaxSends = 1
    MaxForeign = 2
INVARIANTS
    OverOnce
    CloseIsLast
    NoPeerError
PROPERTIES
    EndIsAnswered
    CloseCompletes
CHECK_DEADLOCK FALSE
