SPECIFICATION FairSpec
CONSTANTS
    GlobalKarma = 2
    AckThreshold = 1
    PacketSizes <- MCPacketSizes
    AckSize = 1
    Faults <- MCNoFaults
    MaxConns = 2
    MaxBytes = 2
PROPERTIES
    EverythingArrives
    ImplementsPipe
CHECK_DEADLOCK FALSE
