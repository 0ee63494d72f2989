SPECIFICATION Spec
CONSTANTS
    root = root
    a = a
    NoFile = NoFile
    Root <- root
    Files <- MCFiles
    Scoped <- MCScoped
    QueueCap = 2
    MaxHead = 3
    MaxFaults = 1
INVARIANTS NothingInScopeFiltered
CHECK_DEADLOCK FALSE
