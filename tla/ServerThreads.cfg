SPECIFICATION ThreadsLiveSpec
CONSTANTS
    Requests = {r1, r2}
    NoRequest = none
    CanQuit = TRUE
    MaxSends = 1
INVARIANT IInv
INVARIANT ThreadsIInv
INVARIANT ListInv
INVARIANT ParamsAlive
INVARIANT OneLockAtATime
PROPERTY ImplementsService
PROPERTY ImplementsLock
PROPERTY MainLoopContinues
PROPERTY RequestAnswered
PROPERTY HttpLoopContinues
CHECK_DEADLOCK FALSE
