\* Four full chunks and a short one; as many leases as three chunks need, and
\* one slot more, so that the budget and not the instance refuses.
CONSTANTS
    Slot = {s1, s2, s3, s4}
    Budget = 3
    Points = 9
    ChunkPoints = 2
SPECIFICATION FairSpec
INVARIANTS
    TypeOK
    BuffersWithinPeak
    BuffersConserved
    NothingSkipped
PROPERTY ReachesTheEnd
