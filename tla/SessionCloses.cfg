\* No signal, and an exchange on the stack: the session that is left to itself.
CONSTANTS
    N = 2
    Modes = {"SEQ"}
    Prepared = {TRUE}
    Interrupts = FALSE
    Stalls = {}
SPECIFICATION FairSpec
PROPERTIES
    AcceptedSessionCloses
CHECK_DEADLOCK FALSE
