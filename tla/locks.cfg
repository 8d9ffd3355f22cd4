CONSTANTS
    Threads = {t1, t2, t3}
SPECIFICATION Spec
PROPERTY
    ImplementsLock
