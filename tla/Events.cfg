CONSTANTS
    one = one
    two = two
    scratch = scratch
    folder = folder
    inner = inner
    Root = Root
    Files <- MCFiles
    Folders = {folder}
    Parent <- MCParent
    Ignored = {scratch}
    Capacity = 3
    MaxEdits = 4
    Careful = TRUE
SPECIFICATION FairWatchSpec
INVARIANTS WatchTypeOK RestMeansMirrored
PROPERTIES ComesToRest
CHECK_DEADLOCK FALSE
