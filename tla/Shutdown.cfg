CONSTANTS
    w1 = w1
    w2 = w2
    Workers <- MCWorkers
    Callbacks <- MCWorkers
    Scopes <- MCScopes
    Inputs = {i}
    NoId = NoId
    NoCallback = NoCallback
    MaxCounter = 2
SPECIFICATION FairSpec
INVARIANTS
    TypeOK
    MapsAgree
    DependentsOutlived
PROPERTIES
    ImplementsService
    FinalizedForGood
    QuitCompletes
CHECK_DEADLOCK FALSE
