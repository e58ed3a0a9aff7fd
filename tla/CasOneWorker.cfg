SPECIFICATION MCSpec
CONSTANTS
    Workers = {w1}
    Channels = {1, 2, 10}
    Streams = {1, 10}
    Services = {501}
    p1 = p1
    p2 = p2
    Params <- MCParams
    Digits = 2
    MaxRequests = 3
    None = None
INVARIANTS
    TypeOK
    ChannelsAgree
    EmmChannelsAgree
    StreamsPublished
    CwOnlyForScrambled
    OneCwThread
