SPECIFICATION HungReaderSpec
CONSTANTS
    NumBuffs = 3
    MaxFrame = 4
    MaxCrashes = 1
    LockTimesOut = TRUE
PROPERTY ServerNotStopped
