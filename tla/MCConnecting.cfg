SPECIFICATION FairSpec
CONSTANTS
    l1 = l1
    c1 = c1
    c2 = c2
    r1 = r1
    r2 = r2
    h1 = h1
    h2 = h2
    Loops = {l1}
    Conns = {c1, c2}
    Reqs = {r1, r2}
    Null = null
    Hosts = {h1, h2}
    MaxAddrs = 2
    Concurrent = 2
    MaxEntries = 1
    MaxOps = 3
INVARIANTS EachResultComesOnce RefcountsAreExact KeepAliveBalanced OneOutcome ResultsWakeTheLoop
PROPERTIES CloseAllLeavesNoConnect EventuallySettled
CHECK_DEADLOCK FALSE
