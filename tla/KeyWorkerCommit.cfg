SPECIFICATION Spec
CONSTANTS
    Keys <- MCKeys
    Devices <- MCDevices
    Threads = {t1, t2}
    DefaultKeys <- MCDefaultKeys
    UsageLimit = 2
    FreshUsages <- MCFreshUsages
    Faults <- MCCommits
    MaxUpload = 1
    MaxStarts = 2
SYMMETRY MCSymmetry
INVARIANT HandedOutIsUsed
