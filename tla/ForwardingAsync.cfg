\* Threads that nobody joins, on two servers and two buffers.
CONSTANTS
    N = 2
    Modes = {"ASYNC"}
    MaxBuffers = 2
    Size = 2
    RequestChunks = 2
    ReplyChunks = 1
SPECIFICATION SessionSpec
INVARIANTS
    OneOwner
PROPERTIES
    LostOnlyByFree
    AsyncNeverWaits
CHECK_DEADLOCK FALSE
