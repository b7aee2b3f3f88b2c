CONSTANTS
    prefetch = prefetch
    input = input
    a = a
    b = b
    c = c
    Callers = {prefetch, input}
    Ids = {a, b}
    Me = Me
    Image = Image
    Nobody = Nobody
    Limit = 2
    PeriodSeconds = 1
    TicksPerSecond = 1
    ChunkSize = 2
    Sends = 2
    Calls <- MCCalls
SPECIFICATION FairSpec
INVARIANTS
    TypeOK
    FrontWakesInTime
    ChunkCached
    NoTornImage
PROPERTIES
    CompleteForGood
    AnswersCached
    CallEnds
CHECK_DEADLOCK FALSE
