SPECIFICATION ClientFairSpec
CONSTANTS
    ClientKarma = 2
    AckThreshold = 1
    PacketSize = 2
    AckEntries = 1
    MaxObj = 1
    MaxId = 1
    LinkCap = 6
    MaxBatch = 1
    MaxData <- MCThreeUp
    Environment <- MCEnd
PROPERTIES
    EndsMeet
    KarmaReturns
    DataArrives
CHECK_DEADLOCK FALSE
