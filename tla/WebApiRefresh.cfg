CONSTANTS
    prefetch = prefetch
    input = input
    a = a
    b = b
    c = c
    Callers = {prefetch}
    Ids = {a, b, c}
    Me = Me
    Image = Image
    Nobody = Nobody
    Limit = 2
    PeriodSeconds = 1
    TicksPerSecond = 1
    ChunkSize = 2
    Sends = 2
    Calls <- MCRefresh
SPECIFICATION Spec
INVARIANT TracksCached
CHECK_DEADLOCK FALSE
