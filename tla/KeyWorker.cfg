SPECIFICATION MCSpec
CONSTANTS
    Keys <- MCKeys
    Devices <- MCDevices
    Threads = {t1, t2}
    DefaultKeys <- MCDefaultKeys
    UsageLimit = 2
    FreshUsages <- MCFreshUsages
    Faults <- MCConsume
    MaxUpload = 1
    MaxStarts = 2
SYMMETRY MCSymmetry
INVARIANTS
    UnusedIsQueued
    QueuedOnce
    TakenOnce
    UsageCovers
    SharedOnlyByMishap
