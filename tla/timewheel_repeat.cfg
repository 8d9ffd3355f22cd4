SPECIFICATION FairSpec
CONSTANTS
    Timers = {t1, t2}
    Slots = 3
    Granularities = {1, 2}
    Timeouts = {2, 6}
    Times <- Mixed
    NestedAdds = TRUE
    MaxLag = 2
    AgeCap = 0
INVARIANTS PendingWhileOwed
PROPERTIES PassEnds
