SPECIFICATION Spec
CONSTANTS
    root = root
    a = a
    b = b
    p1 = p1
    v1 = v1
    v2 = v2
    m1 = m1
    m2 = m2
    None = None
    NoOwner = NoOwner
    Keys = {root, a}
    Values = {v1}
    PushIds = {m1}
    Projects <- MCProjects
    ProjectOf <- MCProjectOf
    RootOf <- MCRootOf
    Works <- MCWorks
    Owner <- MCOwner
    OrmOwned = {}
    Retirable = {p1}
    MaxRevision = 3
    MaxJobs = 2
INVARIANTS
    TypeOK
PROPERTIES
    AnswerIsRecorded
    BothVersionsKept
    StoreSpec
    EveryWriteTracked
CHECK_DEADLOCK FALSE
