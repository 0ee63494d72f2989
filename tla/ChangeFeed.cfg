SPECIFICATION FairSpec
CONSTANTS
    root = root
    a = a
    b = b
    NoFile = NoFile
    Root <- root
    Files <- MCFiles
    Scoped <- MCScoped
    QueueCap = 1
    MaxHead = 2
    MaxFaults = 1
INVARIANTS TypeOK CursorPassesOnlySettled
PROPERTIES NoStepBack EchoWaitsForFingerprint FeedSpec CatchesUp
CHECK_DEADLOCK FALSE
