SPECIFICATION FairSpec
CONSTANTS
    s1 = s1
    s2 = s2
    Services <- MCServices
    Ips = {"ip"}
    Annotated <- MCAnnotated
    Claiming <- MCClaiming
    MaxEdits = 2
    MaxEvents = 1
    Bad = Bad
    None = None
INVARIANTS TypeOK
PROPERTIES NotStolen Served SetUpUnlessBlocked DeletedUnlessBlocked
CHECK_DEADLOCK FALSE
