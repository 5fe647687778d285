SPECIFICATION Spec
CONSTANTS
    root = root
    a = a
    b = b
    p1 = p1
    v1 = v1
    v2 = v2
    m1 = m1
    m2 = m2
    None = None
    NoOwner = NoOwner
    Keys = {root, a, b}
    Values = {v1, v2}
    PushIds = {m1}
    Projects <- MCProjects
    ProjectOf <- MCProjectOf
    RootOf <- MCRootOf
    Works = {}
    Owner <- MCOwner
    OrmOwned = {b}
    Retirable = {}
    MaxRevision = 4
    MaxJobs = 2
SYMMETRY Interchangeable
INVARIANTS
    StateIsLastChange
    SettledRowsMatch
CHECK_DEADLOCK FALSE
