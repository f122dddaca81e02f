SPECIFICATION Spec
CONSTANTS
    Pages = {reader}
    Readers = {reader}
    Loggers = {g1}
    RingSize = 2
    WireCap = 1
    MaxRecords = 3
    MaxStarts = 2
PROPERTIES
    DeliveredIsShown
CHECK_DEADLOCK FALSE
