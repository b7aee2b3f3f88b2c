CONSTANTS
    Inputs = {a}
    NoOwner = NoOwner
    Capacity = 2
    TrackLength = 3
    MaxStreams = 3
SPECIFICATION FairSpec
PROPERTIES
    AbortedReleasesDecoder
    WaitEnds
CHECK_DEADLOCK FALSE
