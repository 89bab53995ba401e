SPECIFICATION FairSpec
CONSTANTS
    s1 = s1
    m1 = m1
    m2 = m2
    m3 = m3
    r1 = r1
    r2 = r2
    r3 = r3
    c1 = c1
    None = None
    Sessions <- OneSession
    Deletable <- OneSession
    Msgs <- OneMsg
    Reqs <- TwoReqs
    Cancels <- OneCancel
    MaxTasks = 2
    MaxFaults = 0
    MaxCrashes = 1
INVARIANT DeletedLeavesNothing
PROPERTY TaskTerminates
CHECK_DEADLOCK FALSE
