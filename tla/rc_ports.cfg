SPECIFICATION Spec
CONSTANTS
    Configs <- PortConfigs
    FirstConfig <- Base
    Nodes <- MCNodes
    ZoneOf <- MCZoneOf
    Interfaces <- MCInterfaces
    FewestNodes = 1
    MaxEdits = 2
    MaxMoves = 0
    MaxFaults = 1
    None = None
INVARIANTS TypeOK NoDuplicates
PROPERTIES UnaffectedKept RefusedUntouched
CHECK_DEADLOCK FALSE
