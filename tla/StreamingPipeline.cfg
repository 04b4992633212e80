\* Columns of three fields; others take as much as two points.
CONSTANTS
    Jobs <- MCJobs
    Fields = 3
    Foreign = 24
SPECIFICATION Spec
INVARIANTS
    StreamMatchesReference
    LiveBytesExact
