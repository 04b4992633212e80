\* Capacity two and four records: the queue fills, empties and fills again.
\* The stream may stop for good once it has ended or has been dropped.
CONSTANTS
    Capacity = 2
    MaxChunk = 2
    Budgets <- MCBudgets
    MaxRecords = 4
    MaxKept = 1
    Skips <- MCSkips
SPECIFICATION Spec
INVARIANTS
    TypeOK
    LeasesAccounted
    EnoughForTheFrugal
    StreamContract
PROPERTIES
    PullAnswered
    DropReturns
CHECK_DEADLOCK FALSE
