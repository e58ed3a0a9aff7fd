SPECIFICATION FairSpec
CONSTANTS
    Thread = {"m", "w", "x"}
    Null = Null
    Core <- MCCore
    Request <- MCRequest
    kind <- MCkind
    chain <- MCchain
    rethrows <- MCrethrows
    inner <- MCinner
    chainer <- MCchainer
    total <- MCtotal
    promiseOf <- MCpromiseOf
    resolver <- MCresolver
    Scripts <- MCScripts
INVARIANTS
    TypeOK
    NoneForgotten
    AllOrNothing
    NeverThrows
PROPERTIES
    EveryThenCalled
