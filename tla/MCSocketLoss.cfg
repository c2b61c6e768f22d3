CONSTANTS
    t1 = t1
    t2 = t2
    Threads = {t1, t2}
    BufferSize = 2
    HighWater = 3
    MaxPacket = 2
    MaxWritten = 8
SPECIFICATION Spec
INVARIANTS
    NoSilentLoss
