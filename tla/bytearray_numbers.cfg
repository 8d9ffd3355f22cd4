CONSTANTS
    Base = 3
    Items <- LongItems
    Lengths = {}
    MaxBytes = 66
    MaxCap = 9
SPECIFICATION Spec
CHECK_DEADLOCK FALSE
INVARIANTS
    NumbersReadBack
