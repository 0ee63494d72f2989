CONSTANTS
    folder = folder
    inner = inner
    outer = outer
    doc = doc
    left = left
    right = right
    Root = Root
    Absent = Absent
    Folder = Folder
    Doc = Doc
    NoRow = NoRow
    Folders <- MCFolders
    Files <- MCFiles
    Docs <- MCDocs
    Parent <- MCParent
    Versions <- MCVersions
    Ignored <- MCIgnored
    Retries = 1
    MaxEdits = 2
    MaxFaults = 2
SPECIFICATION Spec
SYMMETRY Symmetry
INVARIANTS FirstPassMerges FirstRowsTellTheTruth CatchesUpOffline
CHECK_DEADLOCK FALSE
