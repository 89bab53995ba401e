SPECIFICATION Spec
CONSTANTS
    s1 = s1
    m1 = m1
    m2 = m2
    m3 = m3
    r1 = r1
    r2 = r2
    r3 = r3
    c1 = c1
    None = None
    Sessions <- OneSession
    Deletable <- NoSession
    Msgs <- TwoMsgs
    Reqs <- TwoReqs
    Cancels <- OneCancel
    MaxTasks = 2
    MaxFaults = 1
    MaxCrashes = 0
INVARIANT TypeOK
INVARIANT AtMostOneProcessing
INVARIANT NoMessageTwice
INVARIANT MemoryOrdered
INVARIANT RecordsMatchStatus
INVARIANT SingleFaultRecovered
INVARIANT ContextComplete
PROPERTY SessionLease
CHECK_DEADLOCK FALSE
