CONSTANTS
    r1 = r1
    r2 = r2
    r3 = r3
    a = a
    b = b
    Requests <- OneRequest
    Subjects <- TwoSubjects
    Contents <- OneContent
    NoDir = NoDir
    Partial = Partial
    MaxNumber = 2
    MaxProjects = 1
    Faults = TRUE
SPECIFICATION Spec
INVARIANT SnapshotIsWorking
