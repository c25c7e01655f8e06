SPECIFICATION LiveSpec
CONSTANTS
    Regions = {2, 3}
    FirstSid <- MCFirstSid
    Blobs <- MCBlobs
    MaxBlobs = 2
    Depths = {1, 2}
    Streams = {"25D", "2D"}
    SharedMemory = FALSE
INVARIANT IInv
INVARIANT HandsKeepTheirIds
INVARIANT EveryBlobHasSession
INVARIANT TuioIdsDistinct
PROPERTY GoneIsTold
CHECK_DEADLOCK FALSE
