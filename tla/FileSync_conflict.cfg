\* One local and one remote edit of the same file.
SPECIFICATION FairSpec
CONSTANTS
    left = left
    right = right
    copy = copy
    NoPath = NoPath
    Paths <- MCPaths
    Copies <- MCCopies
    UserOps = {"write", "rwrite"}
    MaxIds = 3
    MaxUser = 2
    MaxTries = 2
    MaxTrouble = 1
INVARIANTS NeitherEditLost
CHECK_DEADLOCK FALSE
