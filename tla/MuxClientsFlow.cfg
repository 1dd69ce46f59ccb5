SPECIFICATION Spec
CONSTANTS
    ClientKarma = 3
    AckThreshold = 2
    PacketSize = 2
    AckEntries = 1
    MaxObj = 1
    MaxId = 1
    LinkCap = 1
    MaxBatch = 1
    MaxData <- MCFourUp
    Environment <- MCFlow
INVARIANTS
    CreditConserved
    RoomForPacket
CHECK_DEADLOCK FALSE
