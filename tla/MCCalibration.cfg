SPECIFICATION Spec
CONSTANTS
    Axes <- MCAxes
    RotationAxes <- MCRotationAxes
    Motions <- MCMotions
    RestMotions <- MCRestMotions
    Gestures <- MCGestures
    OldFiles <- MCOldFiles
    FlagValues <- MCFlagValues
    MaxRuns = 1
INVARIANTS
    TypeOK
    SettingsSurvive
    MeasuredIsUsed
    AcceptedIsPure
    PushesAreSeparate
PROPERTIES
    CalibrationEnds
CHECK_DEADLOCK FALSE
