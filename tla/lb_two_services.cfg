SPECIFICATION Spec
CONSTANTS
    s1 = s1
    s2 = s2
    n1 = n1
    n2 = n2
    n3 = n3
    Services = {s1, s2}
    Uuids = {u1, u2, u3}
    Names = {n1, n2, n3}
    DefaultName <- MCDefaultName
    CustomNames = {}
    EarlyRename = FALSE
    NodeSync = FALSE
    LookupFaults = TRUE
    MaxFaults = 2
    MaxCrashes = 0
    MaxConfig = 1
    MaxToggles = 0
    None = None
SYMMETRY UuidSymmetry
INVARIANTS UuidOwned
PROPERTIES DeletedByOwner
CHECK_DEADLOCK FALSE
