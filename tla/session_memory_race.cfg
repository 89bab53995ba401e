SPECIFICATION Spec
CONSTANTS
    s1 = s1
    m1 = m1
    m2 = m2
    m3 = m3
    r1 = r1
    r2 = r2
    r3 = r3
    c1 = c1
    None = None
    Sessions <- OneSession
    Deletable <- NoSession
    Msgs <- TwoMsgs
    Reqs <- TwoReqs
    Cancels <- NoCancel
    MaxTasks = 2
    MaxFaults = 1
    MaxCrashes = 0
SYMMETRY Symmetry
INVARIANT MemoryReadsConsistent
CHECK_DEADLOCK FALSE
