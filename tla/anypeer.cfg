SPECIFICATION Spec
CONSTANTS
    Impl <- ServerOnly
    Config <- SmallLimits
    kMaxReceivedMapEntries = 9
    kMaxStreamsLimit = 2
    kMaxQuicVarint = 4
    MaxStreamCount = 2
    WriteSizes = {0, 2}
    MaxCalls <- AnyPeerCalls
    Disciplined = FALSE
    PeerLens = {0, 2}
    PeerIds = {0, 1, 2, 3, 6}
    PeerVals = {0, 3}
INVARIANTS
    CreditRespected
    NoBytesAfterEnd
    LiveStreamsBounded
PROPERTIES
    SilentAfterClose
CHECK_DEADLOCK FALSE
