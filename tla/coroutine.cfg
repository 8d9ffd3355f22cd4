SPECIFICATION Spec
CONSTANTS
    Co = {c1, c2, c3, c4}
    Main = main
    None = none
    Count = 2
    MaxDepth = 4
    Reentrant = FALSE
INVARIANTS TypeOK StackShape FramesPreserved SaveStackHasDummy
PROPERTIES ImplementsCalls FlatStepsNeverFault
CHECK_DEADLOCK FALSE
