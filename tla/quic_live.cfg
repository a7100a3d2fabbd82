\* Two streams behind a window of one byte, an oversized datagram queued before
\* the handshake, and a lost frame; for liveness.
CONSTANTS
    StreamIds = {2, 6}
    Verdicts = {"untried"}
    Window = 1
    WriteSizes = {1}
    MaxWrites = 2
    DatagramKinds = {"over"}
    MaxDatagrams = 1
    MaxLosses = 1
SPECIFICATION FairSpec
CHECK_DEADLOCK FALSE
PROPERTIES
    Drains
