SPECIFICATION Spec
CONSTANTS
    GlobalKarma = 3
    AckThreshold = 2
    PacketSizes <- MCPacketSizes
    AckSize = 2
    Faults <- MCNoFaults
    MaxConns = 2
    MaxBytes = 4
INVARIANTS
    OneContext
    ReadsPrefix
    CreditConserved
    KarmaComesBack
    HandshakeAgrees
CHECK_DEADLOCK FALSE
