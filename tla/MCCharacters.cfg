SPECIFICATION FairSpec
CHECK_DEADLOCK FALSE
CONSTANTS
    a1 = a1
    a2 = a2
    Accounts = {a1, a2}
    Names = {n1}
    Owner <- OneStored
    MaxGuid = 3
    MaxVersion = 1
    MaxRequests = 4
    MaxCrashes = 1
    PerAccount = 2
    PerRealm = 1
    None = None
    Waiting = Waiting
INVARIANTS
    OnlineAgrees
    RealmLimit
    NamesUnique
    InWorldIsStored
PROPERTIES
    LoadedIsLatest
    RequestsEnd
