SPECIFICATION Spec
CONSTANTS
    Motions <- MCMotions
    Rest = 0
    Buttons = {}
    QueueCap = 1
    TLSClients = {page}
    PlainClients = {typed}
    SilentClients = {idle}
    Modes = {"drive", "none"}
INVARIANTS
    TypeOK
    ExitTellsWhy
PROPERTIES
    StopsWhenItMust
    SpeakersAreServed
CHECK_DEADLOCK FALSE
