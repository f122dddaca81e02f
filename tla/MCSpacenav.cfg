SPECIFICATION Spec
CONSTANTS
    Motions <- MCMotions
    Rest = 0
    Buttons = {fit}
    QueueCap = 2
INVARIANTS
    TypeOK
    ServedInOrder
    NewestIsServed
    DeathIsClassified
PROPERTIES
    LossIsNoticed
CHECK_DEADLOCK FALSE
