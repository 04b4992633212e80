\* The budget is one below the top of the counter's type, so that a sum may
\* exceed the budget, the type, or neither.
CONSTANTS
    Client = {c1, c2, c3}
    Reader = {r1}
    Limit = 4
    MaxU64 = 5
    Request <- MCRequest
SPECIFICATION Spec
SYMMETRY Symmetry
INVARIANTS
    TypeOK
    ExactAccounting
    PeakIsExact
PROPERTY ImplementsLedger
