\* Two rings of three usable entries share three buffers: a ring can be full,
\* and the pool can run out before a ring does.
CONSTANTS
    r1 = r1
    r2 = r2
    a = a
    b = b
    Blank = Blank
    Rings = {r1, r2}
    MaxBuffers = 3
    Size = 2
    MaxSize = 1
    Data = {a, b}
SPECIFICATION Spec
SYMMETRY Symmetry
INVARIANTS
    TypeOK
    EntriesOwnBuffers
    NoStaleSize
PROPERTIES
    LostOnlyByFree
    QueueSpec
