CONSTANTS
    e1 = e1
    e2 = e2
    a1 = a1
    a2 = a2
    Entries = {e1, e2}
    Apps = {a1, a2}
    Owner <- MCOwnerShared
    Policy <- MCPolicyMixed
    Requesters = {r1}
    Sched = Sched
    None = None
    Gone = Gone
    Freq = 1
    MaxSyncFailureCount = 2
    MaxCommit = 2
    MaxSrc = 1
    MaxFaults = 2
    ListCanFail = TRUE
    Scheduled = {e1}
    InitEntries = {}
SPECIFICATION Spec
INVARIANT TypeOK AppsOfEntryUniform 
CHECK_DEADLOCK FALSE
