CONSTANTS
    left = left
    right = right
    first = first
    second = second
    Root = Root
    Nothing = Nothing
    Folders <- MCFolders
    Files <- MCFiles
    MaxChanges = 4
    MaxFaults = 1
SPECIFICATION Spec
SYMMETRY Symmetry
INVARIANTS TypeOK RestMeansMirrored RowsMatchDisk
CHECK_DEADLOCK FALSE
