\* Two commits to one destination: the check of commit and its rename are two
\* steps.
CONSTANTS
    Spool = {s1, s2}
    Dest = {d1}
    NoFile = NoFile
    Limit = 1
    Tries = 2
    MaxSeek = 1
    MaxId = 3
    MaxCrashes = 0
SPECIFICATION Spec
PROPERTY NeverOverwrites
CHECK_DEADLOCK FALSE
