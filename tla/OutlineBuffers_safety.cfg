SPECIFICATION LiveSpec
CONSTANTS
    NumBuffs = 3
    MaxFrame = 4
    MaxCrashes = 1
    LockTimesOut = FALSE
INVARIANT IInv
INVARIANT InUseExact
INVARIANT BufferAvailable
INVARIANT DisplayIntact
INVARIANT AtMostOneBehind
PROPERTY ImplementsMailbox
PROPERTY FramesReachDisplay
