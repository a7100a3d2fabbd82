\* A bidirectional and a unidirectional stream; records of three units, so
\* that writes, FIN and datagrams fall into one record or several.
CONSTANTS
    Bidi = {0}
    Uni = {2}
    MaxStreamData = 4
    MaxData = 4
    MaxDatagram <- Limits
    RecordSize = 3
    WriteSizes = {0, 3}
    DatagramSizes = {1, 2}
    MaxCalls <- CallBounds
SPECIFICATION Spec
CHECK_DEADLOCK FALSE
INVARIANTS
    StreamsWhole
    DatagramsWhole
PROPERTIES
    QueuesDrain
