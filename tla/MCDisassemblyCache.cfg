SPECIFICATION Spec
CONSTANTS
    p1 = p1
    p2 = p2
    k1 = k1
    k2 = k2
    Processes <- MCProcesses
    Keys <- MCKeys
    FileOf <- MCFileOf
    Sizes = {1, 2}
    Low <- MCLow
    MaxPuts = 2
SYMMETRY Symmetric
INVARIANTS
    HitIsCutAtWorst
    WholeEntryServes
    RemovedStaysRemoved
