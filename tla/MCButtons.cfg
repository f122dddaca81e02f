SPECIFICATION Spec
CONSTANTS
    Motions = {"rest", "turn"}
    Rest = "rest"
    Turning = {"turn"}
    Buttons = {"fit", "menu", "rotation"}
    Action <- MCAction
    QueueCap = 2
    Pages = {page}
    ClientTimed = {}
    MaxFingers = 1
    MaxControllers = 1
INVARIANTS
    TypeOK
    MotionMirrorsLoop
    FramesAreBracketed
    OneFrameAfterBlur
PROPERTIES
    KeysFollowFingers
CHECK_DEADLOCK FALSE
