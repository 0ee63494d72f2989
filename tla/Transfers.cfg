CONSTANTS
    one = one
    two = two
    Names <- MCNames
    FirstName = one
    Setups <- MCSetups
    Burst = 1
    MaxAttempts = 2
    MaxIds = 4
    MaxActs = 1
SPECIFICATION FairSpec
INVARIANTS TypeOK WholeFiles NoCrossing OneFolderPerName UploadedOnce InOneFolder
PROPERTIES RecordedReachedDrive EveryOpEnds
CHECK_DEADLOCK FALSE
