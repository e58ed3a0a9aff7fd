SPECIFICATION Spec
CONSTANTS
    Handlers <- EachShape
    Boards = {1, 2}
    Channels = {1, 2}
    Programs <- OneProgram
    Inputs <- TwoInputs
    Settings <- TwoSettings
    RowMax = 999
    LateAnswers = TRUE
    MaxRequests = 2
    None = None
INVARIANTS
    TypeOK
    ShownIsRight
    AsTold
