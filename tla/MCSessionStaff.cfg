CONSTANTS
    gm = gm
    alice = alice
    bob = bob
    g1 = g1
    g2 = g2
    a1 = a1
    a2 = a2
    b1 = b1
    b2 = b2
    Accounts = {gm, alice, bob}
    Sessions = {g1, a1}
    AccountOf <- MCAccountOf
    Skip = {g1}
    Tolerance = FALSE
    Limits = {1}
    None = None
SPECIFICATION Spec
INVARIANTS
    LimitExcludesStaff
