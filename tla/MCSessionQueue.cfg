CONSTANTS
    gm = gm
    alice = alice
    bob = bob
    g1 = g1
    g2 = g2
    a1 = a1
    a2 = a2
    b1 = b1
    b2 = b2
    Accounts = {gm, alice, bob}
    Sessions = {a1, a2, b1, g1}
    AccountOf <- MCAccountOf
    Skip = {a2}
    Tolerance = TRUE
    Limits = {0, 1}
    None = None
SPECIFICATION FairSpec
INVARIANTS
    TypeOK
    QueueSound
    NoStrayPlayer
PROPERTIES
    NoIdlePlace
    AdmitWithinLimit
    NoOvertaking
    ClosedIsDeleted
