SPECIFICATION PromptSpec
CONSTANTS
    Senders = {main}
    Looper = http
    Nobody = nobody
    LooperRequests = FALSE
INVARIANT IInv
INVARIANT ListExclusive
INVARIANT WaitEscapes
PROPERTY RequestServed
