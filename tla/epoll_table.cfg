SPECIFICATION Spec
CONSTANTS
    Fds = {f1}
    Owners = {c1, c2}
    None = none
INVARIANTS TypeOK KernelMatchesTable ClosedLeavesNothing
