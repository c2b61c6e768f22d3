CONSTANTS
    save = save
    stmt = stmt
    load = load
    empty = empty
    ping = ping
    Ops = {save, stmt, load, ping}
    Kind <- MCKind
    Size <- MCSize
    Direct = {save, stmt}
    MaxAsync = 2
    Synchs = 1
    HighWater = 2
    MaxFaults = 1
    None = None
SPECIFICATION FairSpec
CHECK_DEADLOCK FALSE
INVARIANTS
    AllOrNothing
    ConnectionClean
    OneWorkerOrder
PROPERTIES
    ImplementsStore
    QueriesAnswered
    CloseEnds
