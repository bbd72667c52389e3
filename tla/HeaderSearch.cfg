\* The 81 names of the table and the 82 gaps around them.
CONSTANTS
    NUM_HTTP_HEADERS = 81
    HTTP_HEADER_STRINGS <- Table
    Names <- AllNames
SPECIFICATION FairSpec
INVARIANTS
    TypeOK
    FindsIt
PROPERTIES
    Ends
CHECK_DEADLOCK FALSE
