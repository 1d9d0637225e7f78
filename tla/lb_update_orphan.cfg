SPECIFICATION FairSpec
CONSTANTS
    s1 = s1
    s2 = s2
    n1 = n1
    n2 = n2
    n3 = n3
    Services = {s1}
    Uuids = {u1, u2}
    Names = {n1, n2, n3}
    DefaultName <- MCDefaultName
    CustomNames = {}
    EarlyRename = FALSE
    NodeSync = TRUE
    LookupFaults = FALSE
    MaxFaults = 0
    MaxCrashes = 0
    MaxConfig = 1
    MaxToggles = 0
    None = None
PROPERTIES CleansUp
CHECK_DEADLOCK FALSE
