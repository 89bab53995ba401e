SPECIFICATION StoreSpec
CONSTANTS
    None = None
    Failure = Failure
    MaxId = 6
    MaxIndex = 1
    Locks = {FALSE}
    TaskStates <- MCTaskStates
    UserMsgStates <- MCUserMsgStates
    AgentMsgStates <- MCAgentMsgStates
INVARIANTS
    RowsHaveParents
    QueriesAgree
PROPERTIES
    OneSessionPerCall
