SPECIFICATION FairSpec
CONSTANTS
    c1 = c1
    c2 = c2
    n1 = n1
    r1 = r1
    r2 = r2
    p1 = p1
    p2 = p2
    Opening = Opening
    Calls <- TwoCalls
    Cancellable <- Nobody
    Notes <- Nobody
    Responders <- TwoResponders
    EmptyAnswers <- Nobody
    Pollers <- OnePoller
    TimeoutRetry = 1
    MaxFaults = 0
    MaxCrashes = 0
INVARIANT AnswersRight
INVARIANT StillAnswerable
PROPERTY StreamsVanish
PROPERTY InterruptEnds
CHECK_DEADLOCK FALSE
