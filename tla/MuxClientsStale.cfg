SPECIFICATION Spec
CONSTANTS
    ClientKarma = 2
    AckThreshold = 1
    PacketSize = 2
    AckEntries = 1
    MaxObj = 1
    MaxId = 1
    LinkCap = 1
    MaxBatch = 2
    MaxData <- MCNoData
    Environment <- MCEnd
INVARIANTS
    SocketOpen
CHECK_DEADLOCK FALSE
