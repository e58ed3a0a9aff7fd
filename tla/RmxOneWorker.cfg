SPECIFICATION Spec
CONSTANTS
    Workers = {w1}
    b1 = b1
    b2 = b2
    Boards <- MCBoards
    Ports <- MCPorts
    Values = {v1, v2}
    Handlers <- ScopedHandlers
    MaxRequests = 2
    LateReplies = FALSE
    DbFails = TRUE
    None = None
    NoWorker = NoWorker
INVARIANTS
    TypeOK
    ReportedSuccessIsReal
    SuccessMeansInSync
    DbRowWasAccepted
PROPERTY
    ImplementsConfigStore
