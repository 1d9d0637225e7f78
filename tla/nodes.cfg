SPECIFICATION FairSpec
CONSTANTS
    n1 = n1
    n2 = n2
    u1 = u1
    u2 = u2
    Nodes <- MCNodeNames
    Uuids <- MCUuids
    Existing <- MCExisting
    MaxEvents = 2
    MaxFaults = 1
    Foreign = Foreign
    None = None
INVARIANTS TypeOK IdRight MetadataOfId
PROPERTIES RemovedOnlyIfGone NotDropped Handled Initialized MembersFollow
CHECK_DEADLOCK FALSE
