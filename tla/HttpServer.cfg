SPECIFICATION FairSpec
CONSTANTS
    c1 = c1
    c2 = c2
    Conn = {c1, c2}
    Polite = {c1}
    Fds = {1, 2}
    Scripts <- MCScripts
    Window = 1
    MaxBuffer = 26
    NoConn = NoConn
    NoFd = NoFd
    NoAnswer = NoAnswer
    Requests <- MCRequests
    NoRequest = NoRequest
    Routes <- MCRoutes
    NotFound = NotFound
INVARIANTS
    TypeOK
    PeersAreOpen
    HandledAsSent
    AnswersToTheirClient
    NeverThrows
    RoutedRight
PROPERTIES
    EveryRequestAnswered
    DescriptorsReleased
CHECK_DEADLOCK FALSE
