CONSTANTS
    Inputs = {a, b}
    NoOwner = NoOwner
    Capacity = 2
    TrackLength = 4
    MaxStreams = 3
SYMMETRY Symmetry
VIEW View
SPECIFICATION Spec
INVARIANTS
    TypeOK
    SingleDecoder
    FlushedIsFresh
    NoFrameSkipped
PROPERTIES
    EndIsComplete
    OnlyFlushTakes
CHECK_DEADLOCK FALSE
