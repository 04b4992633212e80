\* One value, and edges enough for two paths that join.
CONSTANTS
    Placements <- MCPlacements
    Edges <- MCEdges
    Transfers <- MCTransfers
    SoftLimit = 1
    HardLimit = 1
    MaxEdges = 4
    MaxSubmits = 1
SPECIFICATION Spec
INVARIANT OneValuePerSink
CHECK_DEADLOCK FALSE
