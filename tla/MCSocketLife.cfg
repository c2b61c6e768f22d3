CONSTANTS
    s1 = s1
    s2 = s2
    Sessions = {s1, s2}
    None = None
SPECIFICATION FairSpec
INVARIANTS
    TypeOK
    NoUseAfterFree
    RoutedToLiveSession
PROPERTIES
    ClosedIsFreed
