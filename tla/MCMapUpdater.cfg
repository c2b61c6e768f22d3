CONSTANTS
    b1 = b1
    b2 = b2
    i1 = i1
    i2 = i2
    w1 = w1
    w2 = w2
    Workers = {w1, w2}
    WorldThread = WorldThread
    BaseMaps = {b1, b2}
    Instances = {i1, i2}
    Parent <- MCParent
    QueueCap = 2
    NoMap = NoMap
SPECIFICATION FairSpec
INVARIANTS
    TypeOK
    PendingExact
    Barrier
    LiveTargets
    OneUpdater
    TickComplete
PROPERTIES
    TickEnds
