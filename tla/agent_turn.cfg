SPECIFICATION FairSpec
CONSTANTS
    c1 = c1
    Clients <- MCClients
    MaxIterations = 2
    MaxChunks = 1
    MaxIndex = 2
    NoTool <- MCNoTool
    MaxRetries = 1
    MaxChecks = 2
    MaxReads = 2
    MaxConnects = 2
    LossyTypes <- MCLossyTypes
    MaxLost = 1
INVARIANT TypeOK
INVARIANT CallsAnswered
INVARIANT RowsMatchStream
PROPERTY NoToolAfterCancel
PROPERTY StreamSpec
PROPERTY TurnEnds
CHECK_DEADLOCK FALSE
