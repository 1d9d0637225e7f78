SPECIFICATION FairSpec
CONSTANTS
    Configs <- SettingConfigs
    FirstConfig <- Single
    Nodes <- MCNodes
    ZoneOf <- TwoZones
    Interfaces <- MCInterfaces
    FewestNodes = 0
    MaxEdits = 2
    MaxMoves = 1
    MaxFaults = 1
    None = None
INVARIANTS Settled Quiet
PROPERTIES Converges
CHECK_DEADLOCK FALSE
