\* A run and its replacement, and two captures: a second frame of one run, or
\* frames of both.  Samples have the size of a video in landscape.
CONSTANTS
    MaxRuns = 2
    MaxCaptures = 2
    Modes = {"camera", "sample", "photo"}
    Dims = {"large", "small", "turned", "extreme"}
    Sizes = {"wide", "tall"}
    FrameSize <- MCFrameSize
    SampleSize = "wide"
    Unsupported = "none"
SPECIFICATION Spec
INVARIANTS
    TypeOK
    NothingOutlivesItsRun
    BitmapsHaveOneOwner
    OneFrameInItsGeometry
    PageShowsTheRun
PROPERTIES
    StartSettles
    FrameIsAnswered
CHECK_DEADLOCK FALSE
