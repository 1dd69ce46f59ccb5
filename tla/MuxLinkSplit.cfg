SPECIFICATION Spec
CONSTANTS
    GlobalKarma = 3
    AckThreshold = 2
    PacketSizes <- MCPacketSizes
    AckSize = 2
    Faults <- MCSplit
    MaxConns = 2
    MaxBytes = 2
INVARIANT OneContext
CHECK_DEADLOCK FALSE
