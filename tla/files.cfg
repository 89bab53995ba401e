SPECIFICATION Spec
CONSTANTS
    a = a
    b = b
    w1 = w1
    w2 = w2
    r1 = r1
    v1 = v1
    d1 = d1
    Root = Root
    None = None
    Paths <- TwoFiles
    Folders <- TwoFolders
    Parent <- Tree
    Writers <- TwoWriters
    Readers <- OneReader
    Movers <- OneMover
    Deleters <- OneDeleter
    MaxFailures = 1
INVARIANT TypeOK
INVARIANT SnapshotHolds
INVARIANT ListedIsReadable
PROPERTY VersionsKept
PROPERTY FileLease
CHECK_DEADLOCK FALSE
