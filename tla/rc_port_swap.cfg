SPECIFICATION FairSpec
CONSTANTS
    Configs <- SwapConfigs
    FirstConfig <- Base
    Nodes <- MCNodes
    ZoneOf <- MCZoneOf
    Interfaces <- MCInterfaces
    FewestNodes = 1
    MaxEdits = 1
    MaxMoves = 0
    MaxFaults = 0
    None = None
PROPERTIES Converges
CHECK_DEADLOCK FALSE
