SPECIFICATION Spec
CONSTANTS
    Workers = {w1, w2}
    Ports <- MCPorts
    Values = {v1}
    Handlers <- TwoCommands
    MaxRequests = 2
    LateReplies = FALSE
    DbFails = FALSE
    b1 = b1
    b2 = b2
    Boards <- MCBoards
    None = None
    NoWorker = NoWorker
INVARIANTS
    OwnReplyOnly
