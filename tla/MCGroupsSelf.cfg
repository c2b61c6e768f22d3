SPECIFICATION Spec
CHECK_DEADLOCK FALSE
SYMMETRY AnyPlayer
CONSTANTS
    Players = {p1, p2, p3, p4}
    Raids <- MCRaids
    MaxGroups = 2
    GroupSize = 3
    SubGroups = 2
    MaxRequests = 4
    MaxRaidRequests = 4
    MaxRestarts = 1
    None = None
INVARIANT InvitedByAGroup
