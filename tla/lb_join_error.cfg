SPECIFICATION Spec
CONSTANTS
    s1 = s1
    s2 = s2
    n1 = n1
    n2 = n2
    n3 = n3
    Services = {s1}
    Uuids = {u1, u2}
    Names = {n1, n2, n3}
    DefaultName <- MCDefaultName
    CustomNames = {}
    EarlyRename = FALSE
    NodeSync = FALSE
    LookupFaults = TRUE
    MaxFaults = 1
    MaxCrashes = 0
    MaxConfig = 1
    MaxToggles = 0
    None = None
PROPERTIES FirstErrorKept
CHECK_DEADLOCK FALSE
