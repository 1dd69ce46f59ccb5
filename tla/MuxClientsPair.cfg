SPECIFICATION Spec
CONSTANTS
    ClientKarma = 2
    AckThreshold = 1
    PacketSize = 2
    AckEntries = 2
    MaxObj = 2
    MaxId = 2
    LinkCap = 1
    MaxBatch = 1
    MaxData <- MCOneUp
    Environment <- MCEnd
INVARIANTS
    Addressed
    FreedNotQueued
CHECK_DEADLOCK FALSE
