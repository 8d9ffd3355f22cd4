CONSTANTS
    None = None
    MaxKey = 2
    Limit = 1
    Ports = {0, 1, 2}
    Threads = {t1}
    Names = {"net", "root"}
    Levels = {3}
    Docs <- SmallDocs
    MaxLoggers = 4
    MaxAppenders = 3
SPECIFICATION Spec
CHECK_DEADLOCK FALSE
INVARIANTS
    RootSpeaks
    LostOnlyInReload
    LoggersMatchConfig
    ObserversAgree
    PatternsParsed
