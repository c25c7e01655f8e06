SPECIFICATION Spec
CONSTANTS
    Senders = {main}
    Looper = http
    Nobody = nobody
    LooperRequests = TRUE
INVARIANT WaitEscapes
