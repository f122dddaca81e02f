SPECIFICATION Spec
CONSTANTS
    Stores = {chromium}
    Shared = chromium
    Locked = {}
    MaxCrashes = 1
    MaxAged = 1
    MaxDeletions = 0
INVARIANTS
    EnsuredIsUsable
CHECK_DEADLOCK FALSE
