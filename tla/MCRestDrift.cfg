SPECIFICATION Spec
CONSTANTS
    Axes <- MCAxes
    RotationAxes <- MCRotationAxes
    Motions <- MCMotions
    RestMotions <- MCRestMotions
    Gestures <- MCGestures
    OldFiles <- MCOldFiles
    FlagValues <- MCFlagValues
    MaxRuns = 1
INVARIANTS
    DeadZoneCoversRest
CHECK_DEADLOCK FALSE
