SPECIFICATION Spec
CONSTANTS
    s1 = s1
    s2 = s2
    s3 = s3
    s4 = s4
    g1 = g1
    g2 = g2
    Sockets = {s1, s2, s3, s4}
    Groups = {g1, g2}
    Null = null
    Tls = {s1, s2, s3}
    Accepted <- TwoAccepted
    Lap = 3
    LongEvery = 2
    LowPrioBudget = 1
    MaxOps = 2
    MaxTicks = 2
    MaxPolls = 2
INVARIANTS ListsAreExact CountsAreExact NothingDangles FreedGroupsAreForgotten EachCloseIsTold
PROPERTIES SweepLeavesNoneDue CloseAllLeavesNoSocket
CHECK_DEADLOCK FALSE
