SPECIFICATION Spec
CONSTANTS
    NumBuffs = 3
    MaxFrame = 4
    MaxCrashes = 1
    LockTimesOut = TRUE
INVARIANT LockedAccess
