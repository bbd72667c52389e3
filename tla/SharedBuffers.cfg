\* Three threads fight over two buffers: the pool runs empty, keys are
\* recycled, and stray keys are freed.
CONSTANTS
    t1 = t1
    t2 = t2
    t3 = t3
    Threads = {t1, t2, t3}
    MaxBuffers = 2
SPECIFICATION FairSpec
INVARIANTS
    TypeOK
    OneOwner
    HandedOutBlank
    MutualExclusion
PROPERTIES
    HeldDataKept
    PoolSpec
    SemaphoreComesBack
