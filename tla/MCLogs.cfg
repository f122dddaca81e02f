SPECIFICATION Spec
CONSTANTS
    Pages = {reader, idler}
    Readers = {reader}
    Loggers = {g1, g2}
    RingSize = 2
    WireCap = 1
    MaxRecords = 3
    MaxStarts = 2
INVARIANTS
    TypeOK
    NoLostWakeUp
PROPERTIES
    ImplementsFeed
    ReadersCatchUp
    AppendsReturn
CHECK_DEADLOCK FALSE
