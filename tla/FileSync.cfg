\* Four edits on either side; one of them in the midst of the daemon's work, or one failure.
SPECIFICATION FairSpec
CONSTANTS
    left = left
    right = right
    copy = copy
    NoPath = NoPath
    Paths <- MCPaths
    Copies <- MCCopies
    UserOps = {"write", "remove", "move", "rcreate", "rwrite", "rtrash", "rrestore", "rmove", "rdelete"}
    MaxIds = 6
    MaxUser = 4
    MaxTries = 2
    MaxTrouble = 1
INVARIANTS TypeOK RestMeansAgreed
PROPERTIES Settles
CHECK_DEADLOCK FALSE
