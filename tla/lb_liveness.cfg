SPECIFICATION FairSpec
CONSTANTS
    s1 = s1
    s2 = s2
    n1 = n1
    n2 = n2
    n3 = n3
    Services = {s1}
    Uuids = {u1, u2, u3}
    Names = {n1, n2, n3}
    DefaultName <- MCDefaultName
    CustomNames = {n3}
    EarlyRename = FALSE
    NodeSync = FALSE
    LookupFaults = FALSE
    MaxFaults = 1
    MaxCrashes = 1
    MaxConfig = 2
    MaxToggles = 1
    None = None
PROPERTIES Converges CleansUp
INVARIANTS AtMostOneLb NoOrphan
CHECK_DEADLOCK FALSE
