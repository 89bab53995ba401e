SPECIFICATION Spec
CONSTANTS
    c1 = c1
    c2 = c2
    n1 = n1
    r1 = r1
    r2 = r2
    p1 = p1
    p2 = p2
    Opening = Opening
    Calls <- OneCall
    Cancellable <- OneCall
    Notes <- OneNote
    Responders <- TwoResponders
    EmptyAnswers <- OneResponder
    Pollers <- OnePoller
    TimeoutRetry = 2
    MaxFaults = 1
    MaxCrashes = 1
INVARIANT TypeOK
INVARIANT PollsExact
CHECK_DEADLOCK FALSE
