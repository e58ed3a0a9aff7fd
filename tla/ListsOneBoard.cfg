SPECIFICATION Spec
CONSTANTS
    Workers = {w1}
    Boards = {b1}
    Chans = {c1, c2}
    p1 = p1
    p2 = p2
    p3 = p3
    Programs <- MCPrograms
    Vals = {v1, v2}
    Listed = v1
    Kinds = {"locked", "lcn", "active"}
    MaxRequests = 3
    None = None
CHECK_DEADLOCK FALSE
SYMMETRY Symmetric
INVARIANTS
    TypeOK
    AcknowledgedListsAgree
PROPERTY
    NoServiceDropped
