\* Two spools, names tried twice, one crash: the second process meets up to
\* three names of the first.
CONSTANTS
    Spool = {s1, s2}
    Dest = {d1}
    NoFile = NoFile
    Limit = 2
    Tries = 2
    MaxSeek = 3
    MaxId = 3
    MaxCrashes = 1
SPECIFICATION Spec
SYMMETRY Symmetry
INVARIANTS
    TypeOK
    PartsHaveOneOwner
    ExtentCoversFile
    GivesUpOnlyWhenLittered
CHECK_DEADLOCK FALSE
