CONSTANTS
    save = save
    stmt = stmt
    load = load
    empty = empty
    ping = ping
    Ops = {save}
    Kind <- MCKind
    Size <- MCSize
    Direct = {}
    MaxAsync = 1
    Synchs = 1
    HighWater = 2
    MaxFaults = 1
    None = None
SPECIFICATION Spec
CHECK_DEADLOCK FALSE
INVARIANTS
    TransactionsWhole
