SPECIFICATION Spec
CONSTANTS
    Stores = {firefox, chromium}
    Shared = chromium
    Locked = {firefox}
    MaxCrashes = 1
    MaxAged = 1
    MaxDeletions = 1
INVARIANTS
    TypeOK
    HealsOutsideTheWindow
    ServedIsTrusted
PROPERTIES
    ServiceComesUp
CHECK_DEADLOCK FALSE
