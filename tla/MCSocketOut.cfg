CONSTANTS
    t1 = t1
    t2 = t2
    Threads = {t1, t2}
    BufferSize = 2
    HighWater = 4
    MaxPacket = 2
    MaxWritten = 9
SPECIFICATION FairSpec
INVARIANTS
    TypeOK
    InOrder
    WakeupMatches
PROPERTIES
    Flushed
    LossOnlyAtMark
