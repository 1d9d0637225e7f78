SPECIFICATION Spec
CONSTANTS
    s1 = s1
    s2 = s2
    n1 = n1
    n2 = n2
    n3 = n3
    Services = {s1}
    Uuids = {u1, u2, u3, u4}
    Names = {n1, n2, n3}
    DefaultName <- MCDefaultName
    CustomNames = {}
    EarlyRename = FALSE
    NodeSync = TRUE
    LookupFaults = FALSE
    MaxFaults = 1
    MaxCrashes = 1
    MaxConfig = 2
    MaxToggles = 2
    None = None
SYMMETRY UuidSymmetry
INVARIANTS TypeOK MutualExclusion AtMostOneLb NoPanic
PROPERTIES UuidStable OneBalancerSpec
CHECK_DEADLOCK FALSE
