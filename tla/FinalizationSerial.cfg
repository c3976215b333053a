CONSTANTS
    r1 = r1
    r2 = r2
    r3 = r3
    a = a
    b = b
    Requests <- OneRequest
    Subjects <- TwoSubjects
    Contents <- TwoContents
    NoDir = NoDir
    Partial = Partial
    MaxNumber = 2
    MaxProjects = 2
    Faults = FALSE
SPECIFICATION FairSpec
PROPERTIES ImplementsLedger FinalizeCommits ReloadRestores
