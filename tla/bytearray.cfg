CONSTANTS
    Base = 3
    Items <- SmallItems
    Lengths = {4, 8}
    MaxBytes = 9
    MaxCap = 9
SPECIFICATION Spec
CHECK_DEADLOCK FALSE
INVARIANTS
    TypeOK
    ReadsBack
    FailsOnlyDrainedOrPadded
    StreamHoldsData
    NumbersReadBack
