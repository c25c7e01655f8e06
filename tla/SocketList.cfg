SPECIFICATION LiveSpec
CONSTANTS
    Upgraders = {u1}
    Getters = {}
    Posters = {p1}
    Listener = listener
    NoClient = none
    MaxSockets = 3
    HeaderPieces = 1
    MaxExtra = 1
    MaxBundles = 1
INVARIANT IInv
PROPERTY ImplementsConnections
INVARIANT RequestsHandled
PROPERTY StaleOnlyByMove
PROPERTY SlotsReleased
CHECK_DEADLOCK FALSE
