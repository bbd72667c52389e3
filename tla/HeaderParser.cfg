\* Streams of up to 17 bytes, cut into chunks of six sizes, in a ring of seven
\* usable entries; an int of eight bits.
CONSTANTS
    Size = 3
    MaxChunk = 8
    Chunks = {1, 2, 3, 4, 5, 8}
    Inputs <- AllInputs
    MaxLength = 17
    KnownKeys <- Keys
    ContentLength <- LengthKey
    GET <- Get
    POST <- Post
    HTTP <- Http
    IntBits = 8
SPECIFICATION FairSpec
INVARIANTS
    TypeOK
    HeadersExact
    BodyLengthExact
    TypeExact
    NothingInvented
PROPERTIES
    DecodesCleanHeaders
CHECK_DEADLOCK FALSE
