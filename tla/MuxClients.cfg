SPECIFICATION Spec
CONSTANTS
    ClientKarma = 2
    AckThreshold = 1
    PacketSize = 2
    AckEntries = 1
    MaxObj = 2
    MaxId = 1
    LinkCap = 1
    MaxBatch = 2
    MaxData <- MCOneUp
    Environment <- MCErrors
INVARIANTS
    TypeOK
    DataInOrder
    OpenedOnce
    EndIsLast
    ForgottenTogether
    AckAssertions
CHECK_DEADLOCK FALSE
