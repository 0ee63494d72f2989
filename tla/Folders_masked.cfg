CONSTANTS
    left = left
    right = right
    first = first
    second = second
    Root = Root
    Nothing = Nothing
    Folders <- MCFolders
    Files <- MCFiles
    MaxChanges = 4
    MaxFaults = 0
SPECIFICATION Spec
SYMMETRY Symmetry
INVARIANT RenamesConverge
CHECK_DEADLOCK FALSE
