SPECIFICATION LiveSpec
CONSTANTS
    Servers = {s1, s2}
    Receivers = {r1, r2}
    Nobody = nobody
INVARIANT IInv
INVARIANT SameServer
PROPERTY ReceiverAttaches
CHECK_DEADLOCK FALSE
