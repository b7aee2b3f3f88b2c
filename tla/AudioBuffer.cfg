CONSTANTS
    Size = 7
    HeaderSize = 1
    Chunk <- MCChunk
    EofChunk = "eof"
    DataSize <- MCDataSize
SPECIFICATION Spec
INVARIANTS
    TypeOK
    Chained
    Ordered
    ChunksIntact
    RefusedOnlyWhenFull
PROPERTY
    ImplementsQueue
