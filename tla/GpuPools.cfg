\* One buffer of four bytes fits the smaller budget; three, or one and one of
\* eight bytes, fit the larger, where two are the limit per size.
CONSTANTS
    Batch = {b1, b2}
    Sizes = {0, 4, 8}
    Budgets = {4, 12}
    MaxPerKey = 2
    MaxAcquires = 3
    MaxForeign = 1
SPECIFICATION Spec
SYMMETRY Symmetry
INVARIANTS
    RetentionExact
    BuffersHaveOneUser
