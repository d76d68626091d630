CONSTANTS
    Procs = {p1, p2}
    Keys <- MCKeys
    MaxCommit = 2
    MaxNames = 3
    MaxInst = 2
    MaxTmp = 1
    MaxFaults = 1
    InitOccupied = {1}
    None = None
SPECIFICATION Spec
INVARIANT TypeOK UnusedRepoPathFirstFit DevDirExclusive
PROPERTY MemoRefined
CHECK_DEADLOCK FALSE
