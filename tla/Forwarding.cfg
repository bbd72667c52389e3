\* Two servers, called in turn or by joined threads.  Three buffers are three too
\* few for two request and four reply entries: reads of the request, of headers
\* and of bodies meet an empty pool.
CONSTANTS
    N = 2
    Modes = {"SEQ", "SYNC"}
    MaxBuffers = 3
    Size = 2
    RequestChunks = 2
    ReplyChunks = 2
SPECIFICATION FairSpec
INVARIANTS
    TypeOK
    SeqDeliversToAll
    NoUseAfterRelease
    RepliesAfterJoin
    ReadsOwnBuffer

    
CHECK_DEADLOCK FALSE
