CONSTANTS
    r1 = r1
    r2 = r2
    r3 = r3
    a = a
    b = b
    Requests <- OneRequest
    Subjects <- TwoSubjects
    Contents <- OneContent
    NoDir = NoDir
    Partial = Partial
    MaxNumber = 2
    MaxProjects = 2
    Faults = TRUE
SPECIFICATION Spec
INVARIANT ReloadIsRestore
PROPERTIES SnapshotImmutable RowsNeverDeleted
