CONSTANTS
    Procs = {p1, p2}
    Keys <- MCKeys
    MaxCommit = 2
    MaxNames = 3
    MaxInst = 2
    MaxTmp = 1
    MaxFaults = 0
    InitOccupied = {1}
    None = None
SPECIFICATION Spec
INVARIANT DevAnswerPersistent

CHECK_DEADLOCK FALSE
