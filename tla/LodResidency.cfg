\* Two small nodes fit the cache, or one large one by points or by bytes; direct
\* callers also bring nodes that are too large or empty.  A third lease meets the
\* in-flight limit or the host limit; two uploads fit a frame.
CONSTANTS
    Node = {1, 2, 3}
    Lease = {l1, l2, l3}
    MaxPoints = 2
    MaxHost = 5
    MaxGpu = 2
    MaxUpload = 2
    MaxInFlight = 2
    Chunks <- MCChunks
    GpuSizes = {0, 1, 2}
    PointCounts = {1, 2, 3}
    MaxFrame = 1
SPECIFICATION Spec
SYMMETRY Symmetry
INVARIANTS
    TypeOK
    InFlightHasOneLease
    HostBytesAreLeased
    CacheTotalsExact
    UploadBudgetPerFrame
