SPECIFICATION HistorySpec
SYMMETRY Symmetry
CONSTANTS
    None = None
    Failure = Failure
    Senders = {s1, s2}
    MaxMsgs = 3
    MaxTasks = 2
    MaxAnswers = 1
    Limits = {2}
INVARIANTS
    HistoryAscends
    PagesComplete
    SettledIsComplete
CHECK_DEADLOCK FALSE
