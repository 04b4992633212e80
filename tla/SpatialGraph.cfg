CONSTANTS
    Placements <- MCPlacements
    Edges <- MCEdges
    Transfers <- MCTransfers
    SoftLimit = 1
    HardLimit = 2
    MaxEdges = 4
    MaxSubmits = 3
SPECIFICATION Spec
INVARIANTS
    TypeOK
    ReceiptMatchesEdges
    GroupsElideQueues
\* A rejected graph is gone, and the submissions are bounded.
CHECK_DEADLOCK FALSE
