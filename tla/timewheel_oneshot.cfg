SPECIFICATION FairSpec
CONSTANTS
    Timers = {t1, t2}
    Slots = 3
    Granularities = {1}
    Timeouts = {0, 1, 3, 5, 7}
    Times = {1}
    NestedAdds = FALSE
    MaxLag = 2
    AgeCap = 9
INVARIANTS TypeOK FirstFiringOnItsTurn EarlyByLagAtMost
PROPERTIES EventuallyFires
