CONSTANTS
    Parent <- MCParent
    Points <- MCPoints
    Upload <- MCUpload
    Cameras <- MCCameras
    Enter = 3
    Exit = 2
    MaxPoints = 3
    MaxHost = 3
    MaxUpload = 2
    MaxInFlight = 2
    MaxMoves = 2
    MaxFailures = 1
SPECIFICATION Spec
INVARIANTS
    ResidencyFollowsPlan
PROPERTIES
    StillCameraConverges
