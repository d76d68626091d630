CONSTANTS
    e1 = e1
    e2 = e2
    a1 = a1
    a2 = a2
    Entries = {e1, e2}
    Apps = {a1, a2}
    Owner <- MCOwner
    Policy <- MCPolicyMixed
    Requesters = {r1}
    Sched = Sched
    None = None
    Gone = Gone
    Freq = 1
    MaxSyncFailureCount = 2
    MaxCommit = 2
    MaxSrc = 2
    MaxFaults = 2
    ListCanFail = FALSE
    Scheduled = {e1, e2}
    InitEntries = {}
SPECIFICATION Spec
PROPERTY BreakerHonoured
