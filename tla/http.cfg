SPECIFICATION FairSpec
CONSTANTS
    k1 = k1
    k2 = k2
    Clients = {k1, k2}
    FdCount = 2
    None = none
    WorkerCount = 2
    Handlers <- SomeHandlers
    Early <- EarlyHandlers
    Requests <- SomeRequests
    Modes = {TRUE, FALSE}
    Room = 1
    MaxRequests <- Twice
    Rude = {k2}
    MaxData = 7
INVARIANTS TypeOK PointersValid EpollCtlNeverFails ResponsesIntact AnswersRight OnlyRequestsLeak
PROPERTIES PlainServed
CHECK_DEADLOCK FALSE
