\* The threads of mode SYNC share one request.
CONSTANTS
    N = 2
    Modes = {"SYNC"}
    MaxBuffers = 3
    Size = 2
    RequestChunks = 1
    ReplyChunks = 1
SPECIFICATION Spec
INVARIANTS
    FreedAfterSent
CHECK_DEADLOCK FALSE
