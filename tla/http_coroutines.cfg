SPECIFICATION FairSpec
CONSTANTS
    k1 = k1
    k2 = k2
    Clients = {k1}
    FdCount = 1
    None = none
    WorkerCount = 1
    Handlers <- SomeHandlers
    Early <- EarlyHandlers
    Requests <- SomeRequests
    Modes = {TRUE}
    Room = 1
    MaxRequests <- Twice
    Rude = {}
    MaxData = 7
PROPERTIES ClientServed
CHECK_DEADLOCK FALSE
