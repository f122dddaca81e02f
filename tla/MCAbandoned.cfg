SPECIFICATION Spec
CONSTANTS
    Motions = {"rest", "push"}
    Rest = "rest"
    Turning = {}
    Buttons = {}
    Action <- MCAction
    QueueCap = 1
    Pages = {page}
    ClientTimed = {page}
    MaxFingers = 1
    MaxControllers = 1
PROPERTIES
    BurstEndsUnconditionally
CHECK_DEADLOCK FALSE
