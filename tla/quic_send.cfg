\* One stream id, which rejected early data leaves behind and the stream after
\* it uses again; two writes, empty or larger than the window; one lost frame.
CONSTANTS
    StreamIds = {2}
    Verdicts = {"untried", "accepted", "rejected"}
    Window = 2
    WriteSizes = {0, 3}
    MaxWrites = 2
    DatagramKinds = {"fits"}
    MaxDatagrams = 1
    MaxLosses = 1
SPECIFICATION Spec
CHECK_DEADLOCK FALSE
INVARIANTS
    HeldIntact
PROPERTIES
    ReliableStream
