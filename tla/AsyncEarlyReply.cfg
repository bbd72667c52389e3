\* The session thread of mode ASYNC forwards replies at once.
CONSTANTS
    N = 2
    Modes = {"ASYNC"}
    MaxBuffers = 3
    Size = 2
    RequestChunks = 1
    ReplyChunks = 1
SPECIFICATION Spec
INVARIANTS
    HeaderBeforeReply
CHECK_DEADLOCK FALSE
