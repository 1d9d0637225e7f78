SPECIFICATION Spec
CONSTANTS
    s1 = s1
    s2 = s2
    n1 = n1
    n2 = n2
    n3 = n3
    Services = {s1}
    Uuids = {u1, u2}
    Names = {n1, n2, n3}
    DefaultName <- MCDefaultName
    CustomNames = {n3}
    EarlyRename = TRUE
    NodeSync = FALSE
    LookupFaults = FALSE
    MaxFaults = 0
    MaxCrashes = 0
    MaxConfig = 1
    MaxToggles = 0
    None = None
SYMMETRY UuidSymmetry
INVARIANTS AtMostOneLb
CHECK_DEADLOCK FALSE
