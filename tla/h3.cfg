SPECIFICATION FairSpec
CONSTANTS
    c1 = c1
    c2 = c2
    b1 = b1
    u1 = u1
    l1 = l1
    Sessions = {c1, c2}
    Bidi = {b1}
    Uni = {u1}
    Local = {l1}
    SessionOf <- OneSession
    Contents <- AllContents
    PreAcceptLimit = 1
    MaxDatagrams = 1
INVARIANTS
    OverOnce
    NothingBehindBlocked
    EndLearned
    PreAcceptCounted
    DataReported
PROPERTIES
    ResponseFits
    FinEndsSession
CHECK_DEADLOCK FALSE
