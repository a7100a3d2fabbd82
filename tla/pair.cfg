SPECIFICATION FairSpec
CONSTANTS
    Impl <- BothEnds
    Config <- SmallLimits
    kMaxReceivedMapEntries = 1
    kMaxStreamsLimit = 100
    kMaxQuicVarint = 100
    MaxStreamCount = 1
    WriteSizes = {0, 3}
    MaxCalls <- PairCalls
    Disciplined = TRUE
    PeerLens = {0}
    PeerIds = {0}
    PeerVals = {0}
INVARIANTS
    NoPeerError
    InOrder
    EndsOnce
    PendingAccounted
PROPERTIES
    PendingDrains
CHECK_DEADLOCK FALSE
