\* Two servers, in every mode, with and without an exchange on the stack, SIGINT
\* at any time, and any of the peers falling silent at any time.
CONSTANTS
    N = 2
    Modes = {"SEQ", "SYNC", "ASYNC"}
    Prepared = {TRUE, FALSE}
    Interrupts = TRUE
    Stalls = {0, 1, 2}
SPECIFICATION FairSpec
INVARIANTS
    TypeOK
    ConnectionOutlivesSession
    OnlyListenerLost
PROPERTIES
    SessionEnds
CHECK_DEADLOCK FALSE
