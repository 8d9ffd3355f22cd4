SPECIFICATION FairSpec
CONSTANTS
    c1 = c1
    c2 = c2
    f1 = f1
    f2 = f2
    Co = {c1, c2}
    Main = main
    None = none
    Fds = {f1}
    Uses <- DuplexUses
    Closes = {}
    Started = {c1, c2}
    Sleepers = {}
    FullTurn = {}
    Registers = {}
    MaxOps = 1
    MaxTimers = 1
    MaxTurns = 1
PROPERTIES WaiterWoken
