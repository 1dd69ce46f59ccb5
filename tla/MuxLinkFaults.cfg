SPECIFICATION Spec
CONSTANTS
    GlobalKarma = 2
    AckThreshold = 1
    PacketSizes <- MCPacketSizes
    AckSize = 1
    Faults <- MCAllFaults
    MaxConns = 2
    MaxBytes = 2
INVARIANTS
    OneOwner
    AckQueuedExactly
CHECK_DEADLOCK FALSE
