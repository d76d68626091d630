CONSTANTS
    e1 = e1
    e2 = e2
    a1 = a1
    a2 = a2
    Entries = {e1, e2}
    Apps = {a1, a2}
    Owner <- MCOwner
    Policy <- MCPolicyMixed
    Requesters = {}
    Sched = Sched
    None = None
    Gone = Gone
    Freq = 2
    MaxSyncFailureCount = 4
    MaxCommit = 3
    MaxSrc = 2
    MaxFaults = 3
    ListCanFail = FALSE
    Scheduled = {e1, e2}
    InitEntries = {e1, e2}
SPECIFICATION Spec
PROPERTY Converges
