SPECIFICATION MCSpec
CONSTANTS
    Workers = {w1, w2, w3}
    MaxWaiting = 1
    MaxJobs = 4
    OriginalCount = 4
    RecoveryCount = 3
    Wrap = 23
    LastStart = 21
    MaxFrames = 5
    MaxKey = 2
    QueueLimit = 2
    PPK = 1
    MaxUses = 7
    MaxLearned = 2
    FrameLengths = {60, 128, 130}
    MaxPending = 2
    Ends = {c, d}
    Pads = {"p", "q"}
    Size <- MCSize
    BufSize = 4
    BlockSize = 3
    Slack = 1
    MaxBlocks = 1
    Callers = {u1, u2}
    Tables = {ta}
    MaxBuffers = 3
    MaxRead = 3
    Cards = {c1, c2, c3}
    DeviceLimit = 2
    MaxPool = 4
    Codes <- MCCodes
    Losses <- MCLosses
    Bits8 = 4
    Polynomial8 = {0, 1, 4}
    Basis8 <- MCBasis8
    Bits16 = 8
    Polynomial16 = {0, 2, 3, 4, 8}
    Basis16 <- MCBasis16
    PacketSize = 2
    HeaderSize = 2
    MaxKeys = 2
    MaxSent = 4
    KeyLengths = {1, 2, 3, 4, 5, 6, 8}
    MaxWrong = 1
INVARIANTS
    DecodedAsEncoded
    OneErrorIsCorrected
    WorkIsNoticed
    WaiterIsWoken
    NothingLostUnlessSent
    RecoversInFourFrames
    LostIsRecovered
    
    LossIsBounded
    SameBytesBothEnds
    NothingLeftBehind
    UnreadIsKept
    AwakeForData
CHECK_DEADLOCK FALSE
