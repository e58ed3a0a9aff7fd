SPECIFICATION FairSpec
CONSTANTS
    e1 = e1
    e2 = e2
    e3 = e3
    p1 = p1
    p2 = p2
    Producers <- TwoProducers
    Entries <- MCEntries
    Messages = {m1, m2}
    Null = Null
PROPERTY
    EveryMessageHandled
CHECK_DEADLOCK FALSE
