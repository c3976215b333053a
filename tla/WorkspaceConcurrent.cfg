SPECIFICATION Spec
CONSTANTS
    Customers <- MCCustomers
    Projects <- MCProjectsOne
    Servers <- MCServers
    Forms <- MCFormsTwo
    d = d
    c = c
    p0 = p0
    p1 = p1
    s1 = s1
    s2 = s2
    Default = d
    DefaultProject = p0
    EnvServer = s1
    None = None
    Requests = {r1, r2}
    Browsers = {b1}
    MaxBorn = 2
    Faults = TRUE
INVARIANTS IInv
PROPERTIES TypedGuidStays
SYMMETRY RequestSymmetry
