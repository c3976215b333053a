CONSTANTS
    r1 = r1
    r2 = r2
    r3 = r3
    a = a
    b = b
    Requests <- TwoRequests
    Subjects <- TwoSubjects
    Contents <- OneContent
    NoDir = NoDir
    Partial = Partial
    MaxNumber = 2
    MaxProjects = 2
    Faults = TRUE
SPECIFICATION Spec
INVARIANTS IInv Numbering CommittedIsCopied
PROPERTY CommittedCopiesStable
SYMMETRY Symmetry
