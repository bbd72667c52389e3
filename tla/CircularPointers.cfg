\* Four entries of at most two bytes: windows that wrap, rings that fill up,
\* streams that end.
CONSTANTS
    Size = 2
    MaxSize = 2
    Ends = {0}
    Total = 7
    MaxAsk = 4
    MaxRemainder = 6
SPECIFICATION Spec
INVARIANTS
    TypeOK
    DistanceExact
    SubExact
    CmpOrders
    CopyExact
PROPERTIES
    AddExactWhenFed
CHECK_DEADLOCK FALSE
