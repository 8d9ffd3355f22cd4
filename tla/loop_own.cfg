SPECIFICATION FairSpec
CONSTANTS
    c1 = c1
    c2 = c2
    f1 = f1
    f2 = f2
    Co = {c1, c2}
    Main = main
    None = none
    Fds = {f1, f2}
    Uses <- OwnUses
    Closes <- OwnCloses
    Started = {c1}
    Sleepers = {c1, main}
    FullTurn = {c1}
    Registers <- OwnRegisters
    MaxOps = 1
    MaxTimers = 2
    MaxTurns = 2
INVARIANTS TypeOK WakeupNotLost SleepCutOnlyByOwnFd
PROPERTIES DiesOnlyByMain WaiterWoken StopEndsLoop
