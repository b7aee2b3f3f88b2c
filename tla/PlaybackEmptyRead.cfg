CONSTANTS
    Inputs = {a}
    NoOwner = NoOwner
    Capacity = 2
    TrackLength = 2
    MaxStreams = 2
SPECIFICATION Spec
PROPERTY EmptyMeansAborted
CHECK_DEADLOCK FALSE
