\* A short header, cut anywhere.
CONSTANTS
    Size = 3
    MaxChunk = 8
    Chunks = {1, 2, 3, 4, 5, 8}
    Inputs <- SplitLine
    MaxLength = 17
    KnownKeys <- Keys
    ContentLength <- LengthKey
    GET <- Get
    POST <- Post
    HTTP <- Http
    IntBits = 8
SPECIFICATION Spec
INVARIANTS
    LineEndsAtFeed
CHECK_DEADLOCK FALSE
