SPECIFICATION Spec
CONSTANTS
    Customers <- MCCustomers
    Projects <- MCProjects
    Servers <- MCServers
    Forms <- MCForms
    d = d
    c = c
    p0 = p0
    p1 = p1
    s1 = s1
    s2 = s2
    Default = d
    DefaultProject = p0
    EnvServer = s1
    None = None
    Requests = {r1}
    Browsers = {b1}
    MaxBorn = 3
    Faults = FALSE
INVARIANTS TokenIsCustomers SelectionSurvives FirstConnectIsAttested
