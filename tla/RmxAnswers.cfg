SPECIFICATION FairSpec
CONSTANTS
    Workers = {w1, w2}
    Ports = {0}
    Values = {v1}
    Handlers <- OneHandler
    MaxRequests = 2
    LateReplies = TRUE
    DbFails = FALSE
    b1 = b1
    b2 = b2
    Boards <- MCBoards
    None = None
    NoWorker = NoWorker
PROPERTY
    EveryRequestAnswered
