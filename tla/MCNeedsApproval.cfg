CONSTANTS
    l1 = l1
    l2 = l2
    LoadNames = {l1, l2}
    Perms <- MCPerms
    MaxLoads = 2
    MaxPerms = 2
    Nil = Nil
    None = None
    n1 = n1
    n2 = n2
    Names = {n1, n2}
SPECIFICATION Spec
INVARIANT LoadsDeduplicated ChangeNeedsApproval
CHECK_DEADLOCK FALSE
